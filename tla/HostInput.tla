----------------------------- MODULE HostInput ------------------------------
(***************************************************************************)
(* The controlling machine's input path: the capture hooks of the          *)
(* operating system (crates/input, win_capture.rs and unix.rs), their      *)
(* bounded queue, and the host input loop (crates/app/src/inputloop.rs)    *)
(* that decides where control lives and relays events to the peer.         *)
(*                                                                         *)
(* Three parties interleave: the user, whose events the hooks put into the *)
(* queue; the session task, which sets the shared edge and the snap-home   *)
(* and stop flags, and whose queue of messages to the peer may be full;    *)
(* and the loop, whose turn is cut where others can change what it reads:  *)
(* at its top, at poll, and where it waits for room in that queue.         *)
(*                                                                         *)
(* What the peer is told is recorded in told, the keys and buttons whose   *)
(* last relayed event is a press; how the datagrams fare on the network is *)
(* KeyDelivery's subject.  Wheel events carry no state and are left out.   *)
(***************************************************************************)
EXTENDS EdgeDetector, Sequences, FiniteSets

CONSTANTS
    Keys,        \* the keys of the host's keyboard
    Mods,        \* those is_modifier() accepts
    CtrlKeys, AltKeys, HomeKeys,   \* the parts of the snap-home chord
    Buttons,     \* mouse buttons
    Edges,       \* the arrangements the user can choose
    Motions,     \* the mouse events the hooks can report
    QueueCap     \* capacity of the hooks' sync_channel (1024)

ASSUME KeysAssumption ==
    /\ Mods \subseteq Keys
    /\ CtrlKeys \subseteq Mods /\ AltKeys \subseteq Mods
    /\ HomeKeys \subseteq Keys \ Mods
    /\ Keys \cap Buttons = {}
ASSUME EdgesAssumption == Edges \subseteq AllEdges
ASSUME MotionsAssumption == Motions \subseteq [dx : Int, dy : Int, x : Pixels, y : Pixels]
ASSUME QueueAssumption == QueueCap \in Nat \ {0}

Inputs == Keys \cup Buttons

\* A captured event: a motion, or an input with the hook's verdict on it
\* (eaten: the local operating system does not see it).
MoveEvent == [kind : {"move"}, move : Motions]
InputEvent == [kind : {"input"}, input : Inputs, pressed : BOOLEAN, eaten : BOOLEAN]

VARIABLES
    phys,        \* what the user physically holds
    queue,       \* captured events the loop has not polled yet
    lost,        \* history: the queue overflowed and an event was dropped
    suppress,    \* SUPPRESS / CAP_SUPPRESS
    edgeShared, snapHome, stop,   \* HostInputHandle
    outbox,      \* the session's queue to the peer (ctrl_tx, 256): it has
                 \* "room", is "full", or is "closed" with the session
    pc,          \* the loop: "top" of its body, at "poll", "stopped", or inside
                 \* blocking_send: to "enter", to "leave" by a motion, or
                 \* "snapped" home
    det,         \* the EdgeDetector
    ctrl, alt,   \* the HotkeyDetector
    cursor,      \* vrx, vry: the virtual cursor on the remote
    heldModsLocal,
    heldRemote,
    told,        \* what the relayed events leave pressed on the peer
    announced,   \* the site of the last EdgeEnter or EdgeLeave the loop has sent
    uiRemote,    \* the last ControlOnRemote event the UI got
    entryEdge,   \* history: the arrangement the remote was entered under
    streak       \* history: unbroken motion away from the remote, in steps,
                 \* counted up to Hysteresis

userVars == <<phys, queue, lost>>
flagVars == <<edgeShared, snapHome, stop, outbox>>
siteVars == <<det, suppress, cursor, announced, uiRemote, entryEdge, streak>>
keyVars == <<ctrl, alt, heldModsLocal, heldRemote, told>>
vars == <<userVars, flagVars, siteVars, keyVars, pc>>

Init ==
    /\ phys = {} /\ queue = <<>> /\ lost = FALSE
    /\ suppress = FALSE
    /\ edgeShared \in Edges /\ snapHome = FALSE /\ stop = FALSE
    /\ outbox = "room"
    /\ pc = "top"
    /\ det = NewDetector(edgeShared)
    /\ ctrl = FALSE /\ alt = FALSE
    /\ cursor = [x |-> Size \div 2, y |-> Size \div 2]
    /\ heldModsLocal = {} /\ heldRemote = {} /\ told = {}
    /\ announced = "Local" /\ uiRemote = FALSE
    /\ entryEdge = edgeShared
    /\ streak = 0
-----------------------------------------------------------------------------
(***************************************************************************)
(* The user and the hooks.  A hook reads SUPPRESS, sends without blocking  *)
(* (an event that finds the queue full is dropped) and eats the event or   *)
(* lets it through.                                                        *)
(***************************************************************************)
Capture(ev) ==
    IF Len(queue) < QueueCap
      THEN queue' = Append(queue, ev) /\ UNCHANGED lost
      ELSE lost' = TRUE /\ UNCHANGED queue

\* A press: of something up, or the auto-repeat of a held key.
Press(k) ==
    /\ k \in phys => k \in Keys
    /\ phys' = phys \cup {k}
    /\ Capture([kind |-> "input", input |-> k, pressed |-> TRUE, eaten |-> suppress])
    /\ UNCHANGED <<flagVars, siteVars, keyVars, pc>>

Release(k) ==
    /\ k \in phys
    /\ phys' = phys \ {k}
    /\ Capture([kind |-> "input", input |-> k, pressed |-> FALSE, eaten |-> suppress])
    /\ UNCHANGED <<flagVars, siteVars, keyVars, pc>>

MoveMouse(m) ==
    /\ Capture([kind |-> "move", move |-> m])
    /\ UNCHANGED <<phys, flagVars, siteVars, keyVars, pc>>

(***************************************************************************)
(* The session task: SessionCmd::SetEdge, SessionCmd::SnapHome, teardown.  *)
(***************************************************************************)
ChooseEdge(e) ==
    /\ edgeShared' = e
    /\ UNCHANGED <<snapHome, stop, outbox, userVars, siteVars, keyVars, pc>>

RequestSnapHome ==
    /\ snapHome' = TRUE
    /\ UNCHANGED <<edgeShared, stop, outbox, userVars, siteVars, keyVars, pc>>

RequestStop ==
    /\ stop' = TRUE
    /\ UNCHANGED <<edgeShared, snapHome, outbox, userVars, siteVars, keyVars, pc>>

\* The queue to the peer fills up while the peer reads nothing, has room again,
\* or closes: the teardown, after it has set stop, drops the sender and aborts
\* the writer; a writer that fails goes by itself.
OutboxIs(state) ==
    /\ outbox' = state
    /\ UNCHANGED <<edgeShared, snapHome, stop, userVars, siteVars, keyVars, pc>>
Jam == outbox = "room" /\ OutboxIs("full")
Flow == outbox = "full" /\ OutboxIs("room")
Hangup == outbox # "closed" /\ OutboxIs("closed")
-----------------------------------------------------------------------------
(***************************************************************************)
(* The loop.                                                               *)
(***************************************************************************)
\* Mutant of ReleaseHeld: the list is cleared, the releases are not sent.
ReleaseHeldUnsaid ==
    /\ suppress' = FALSE
    /\ heldRemote' = {}
    /\ UNCHANGED told

\* Mutant of ReleaseHeld: local input stays suppressed.
ReleaseHeldSuppressed ==
    /\ told' = told \ heldRemote
    /\ heldRemote' = {}
    /\ UNCHANGED suppress

\* Mutant of ReleaseHeld: the releases are sent and the list is kept.
ReleaseHeldKept ==
    /\ suppress' = FALSE
    /\ told' = told \ heldRemote
    /\ UNCHANGED heldRemote

\* Lifting the suppression and releasing everything the peer was told is
\* pressed: what both ways home share.
ReleaseHeld ==
    /\ suppress' = FALSE
    /\ told' = told \ heldRemote
    /\ heldRemote' = {}

\* Mutant of Announce: the loop keeps trying until there is room.
AnnounceSurely(site) ==
    /\ outbox = "room"
    /\ announced' = site

\* ctrl_tx.blocking_send(EdgeEnter or EdgeLeave): it waits for room in the
\* queue, and comes back with an error, which is ignored, once it is closed.
Announce(site) ==
    /\ outbox # "full"
    /\ announced' = site

\* while !stop: the loop leaves, and lifts the suppression.
LoopStop ==
    /\ pc = "top" /\ stop
    /\ pc' = "stopped"
    /\ suppress' = FALSE
    /\ UNCHANGED <<userVars, flagVars, keyVars, det, cursor, announced, uiRemote,
                   entryEdge, streak>>

\* The top of the body when a snap-home request finds control on the remote.
LoopSnapHome ==
    /\ pc = "top" /\ ~stop
    /\ snapHome /\ det.site = "Remote"
    /\ snapHome' = FALSE
    /\ det' = Home(SetEdge(det, edgeShared))
    /\ ReleaseHeld
    /\ pc' = "snapped"
    /\ UNCHANGED <<userVars, edgeShared, stop, outbox, ctrl, alt, heldModsLocal,
                   cursor, announced, uiRemote, entryEdge, streak>>

\* The peer is told of it, and the turn goes on to poll.
SnappedHome ==
    /\ pc = "snapped" /\ Announce("Local")
    /\ pc' = "poll"
    /\ UNCHANGED <<userVars, flagVars, keyVars, det, suppress, cursor, uiRemote,
                   entryEdge, streak>>

\* The top of the body otherwise; a request that finds control at home is
\* consumed all the same.
LoopTop ==
    /\ pc = "top" /\ ~stop
    /\ ~(snapHome /\ det.site = "Remote")
    /\ snapHome' = FALSE
    /\ det' = SetEdge(det, edgeShared)
    /\ pc' = "poll"
    /\ UNCHANGED <<userVars, edgeShared, stop, outbox, keyVars, suppress, cursor,
                   announced, uiRemote, entryEdge, streak>>

\* capturer.poll times out.
PollTimeout ==
    /\ pc = "poll" /\ queue = <<>>
    /\ pc' = "top"
    /\ UNCHANGED <<userVars, flagVars, siteVars, keyVars>>

\* capturer.poll returns the oldest event; the rest of the body handles it.
Poll ==
    /\ pc = "poll" /\ queue # <<>>
    /\ queue' = Tail(queue)
    /\ UNCHANGED <<phys, lost, edgeShared, stop, outbox>>

\* Move, site Local, short of the active edge.
HandleIdleMove ==
    /\ Poll
    /\ Head(queue).kind = "move" /\ det.site = "Local"
    /\ LET m == Head(queue).move IN ~AtEdge(det.edge, m.x, m.y)
    /\ pc' = "top"
    /\ UNCHANGED <<snapHome, siteVars, keyVars>>

\* Move, site Local, at the active edge: control crosses to the remote, and
\* local input is suppressed before the peer is told.  The detector judges by
\* the edge it got at the top, the entry point by the shared edge as it is now.
HandleCrossing ==
    /\ Poll
    /\ Head(queue).kind = "move" /\ det.site = "Local"
    /\ LET m == Head(queue).move
       IN  /\ AtEdge(det.edge, m.x, m.y)
           /\ cursor' = EntryPoint(edgeShared, Along(det.edge, m.x, m.y))
    /\ det' = GoRemote(det)
    /\ suppress' = TRUE
    /\ entryEdge' = edgeShared
    /\ streak' = 0
    /\ pc' = "enter"
    /\ UNCHANGED <<snapHome, keyVars, announced, uiRemote>>

\* The peer is told of it, and of the modifiers already held.
Entered ==
    /\ pc = "enter" /\ Announce("Remote")
    /\ told' = told \cup (heldModsLocal \ heldRemote)
    /\ heldRemote' = heldRemote \cup heldModsLocal
    /\ uiRemote' = TRUE
    /\ pc' = "top"
    /\ UNCHANGED <<userVars, flagVars, det, suppress, cursor, entryEdge, streak,
                   ctrl, alt, heldModsLocal>>

\* The unbroken backward motion after (dx, dy), up to Hysteresis.
Streak(dx, dy) ==
    LET into == IntoDelta(det.edge, dx, dy)
    IN  IF into >= 0 THEN 0
        ELSE IF streak - into >= Hysteresis THEN Hysteresis ELSE streak - into

\* Move, site Remote: the motion is relayed and the detector asked; its answer
\* is det'.
HandleRemoteMove ==
    /\ Poll
    /\ Head(queue).kind = "move" /\ det.site = "Remote"
    /\ LET m == Head(queue).move
       IN  /\ cursor' = Moved(cursor, m.dx, m.dy)
           /\ det' = UpdateRemote(det, m.dx, m.dy, AtReturnEdge(edgeShared, cursor'))
           /\ streak' = Streak(m.dx, m.dy)
    /\ IF det'.site = "Local"
         THEN ReleaseHeld /\ pc' = "leave"
         ELSE UNCHANGED <<suppress, told, heldRemote>> /\ pc' = "top"
    /\ UNCHANGED <<snapHome, ctrl, alt, heldModsLocal, announced, uiRemote, entryEdge>>

\* The peer is told that control went home.
Left ==
    /\ pc = "leave" /\ Announce("Local")
    /\ uiRemote' = FALSE
    /\ pc' = "top"
    /\ UNCHANGED <<userVars, flagVars, keyVars, det, suppress, cursor, entryEdge, streak>>

\* Mutant of IsChord: releasing Home counts as the chord too.
IsChordAnyway(k, pressed) == k \in HomeKeys /\ ctrl /\ alt

\* The chord: Home goes down while Ctrl and Alt are, left or right.
IsChord(k, pressed) == k \in HomeKeys /\ pressed /\ ctrl /\ alt

\* Mutant of Track: releases are not tracked.
TrackPresses(held, k, pressed) == IF pressed THEN held \cup {k} ELSE held

\* Adds what is pressed and takes away what is released.
Track(held, k, pressed) == IF pressed THEN held \cup {k} ELSE held \ {k}

\* Input: modifiers are tracked whatever the site, the chord asks for a
\* homecoming and goes no further, and while the site is Remote the event is
\* relayed, once.  Keys the peer was told are tracked; buttons are not.
HandleInput ==
    /\ Poll
    /\ Head(queue).kind = "input"
    /\ LET k == Head(queue).input
           pressed == Head(queue).pressed
           relayed == det.site = "Remote" /\ ~IsChord(k, pressed)
       IN  /\ heldModsLocal' = IF k \in Mods THEN Track(heldModsLocal, k, pressed)
                                             ELSE heldModsLocal
           /\ ctrl' = IF k \in CtrlKeys THEN pressed ELSE ctrl
           /\ alt' = IF k \in AltKeys THEN pressed ELSE alt
           /\ snapHome' = (snapHome \/ IsChord(k, pressed))
           /\ told' = IF relayed THEN Track(told, k, pressed) ELSE told
           /\ heldRemote' = IF relayed /\ k \in Keys
                              THEN Track(heldRemote, k, pressed) ELSE heldRemote
    /\ pc' = "top"
    /\ UNCHANGED siteVars

Loop ==
    \/ LoopStop \/ LoopSnapHome \/ LoopTop \/ PollTimeout
    \/ HandleIdleMove \/ HandleCrossing \/ HandleRemoteMove \/ HandleInput
    \/ Entered \/ Left \/ SnappedHome

Next ==
    \/ \E k \in Inputs : Press(k) \/ Release(k)
    \/ \E m \in Motions : MoveMouse(m)
    \/ \E e \in Edges : ChooseEdge(e)
    \/ RequestSnapHome
    \/ RequestStop
    \/ Jam \/ Flow \/ Hangup
    \/ Loop

\* The loop's thread is scheduled, poll returns within 50 ms, and whoever waits
\* for room in the queue gets it in turn (tokio's semaphore is first come, first
\* served).  A teardown that has set stop goes on to close the queue, without
\* waiting for anything.  Nothing makes the peer read.
Fairness ==
    /\ SF_vars(Loop)
    /\ WF_vars(stop /\ Hangup)

Spec == Init /\ [][Next]_vars /\ Fairness
-----------------------------------------------------------------------------
Running == pc # "stopped"

TypeOK ==
    /\ phys \subseteq Inputs
    /\ queue \in Seq(MoveEvent \cup InputEvent) /\ Len(queue) <= QueueCap
    /\ lost \in BOOLEAN /\ suppress \in BOOLEAN
    /\ edgeShared \in Edges /\ snapHome \in BOOLEAN /\ stop \in BOOLEAN
    /\ outbox \in {"room", "full", "closed"}
    /\ pc \in {"top", "poll", "enter", "leave", "snapped", "stopped"}
    /\ det \in Detector
    /\ ctrl \in BOOLEAN /\ alt \in BOOLEAN
    /\ cursor \in Points
    /\ heldModsLocal \subseteq Mods /\ heldRemote \subseteq Keys
    /\ told \subseteq Inputs
    /\ announced \in {"Local", "Remote"} /\ uiRemote \in BOOLEAN
    /\ entryEdge \in AllEdges
    /\ streak \in 0 .. Hysteresis

\* The loop is not waiting to tell the peer where control is.
Settled == pc \in {"top", "poll", "stopped"}

\* Local input is suppressed exactly while control is on the remote, the peer has
\* been told which once the loop goes on, and a loop that has ended never leaves
\* it suppressed (inputloop.rs: "Make sure we never leave local input suppressed
\* on exit").
SuppressionFollowsSite ==
    /\ Running => suppress = (det.site = "Remote")
    /\ pc = "enter" => det.site = "Remote"
    /\ pc \in {"leave", "snapped"} => det.site = "Local"
    /\ Settled => announced = det.site
    /\ pc = "stopped" => ~suppress

\* held_remote is what the peer was told is pressed "and not yet released", key
\* by key, and while control is at home, or on its way to the remote, no key is
\* left pressed over there.
HeldIsWhatWasTold ==
    /\ heldRemote = told \cap Keys
    /\ det.site = "Local" \/ pc = "enter" => heldRemote = {}

\* Pressure is remembered only while remote, and never more of it than the
\* user's unbroken motion away from the remote amounts to.
PushIsSustained ==
    /\ det.site = "Local" => det.backPush = 0
    /\ det.backPush <= streak

\* The inductive invariant of the loop.
LoopInv ==
    /\ TypeOK
    /\ SuppressionFollowsSite
    /\ HeldIsWhatWasTold
    /\ PushIsSustained

\* What the first n events of the queue say last about any of keys, and default
\* if they say nothing.
WordOf(keys, n, default) ==
    LET about == {i \in 1 .. n : queue[i].kind = "input" /\ queue[i].input \in keys}
    IN  IF about = {} THEN default
        ELSE queue[CHOOSE i \in about : \A j \in about : j <= i].pressed

LastWord(k, default) == WordOf({k}, Len(queue), default)

\* As long as no event was dropped, the loop's view of the modifiers, with the
\* queue applied, is the user's hand: no interleaving of hooks, chord, snap
\* home and crossing makes it miss a press or a release.
ModifiersTracked ==
    Running /\ ~lost =>
        \A k \in Mods : LastWord(k, k \in heldModsLocal) <=> k \in phys

\* As long as no event was dropped, once control has crossed the peer has been
\* told of every modifier the user holds, those held since before the crossing
\* included, and of no key the user does not hold (inputloop.rs: "Seed the
\* remote's modifier state with anything the user is already holding").
RemoteMirrorsKeyboard ==
    Running /\ ~lost /\ det.site = "Remote" /\ pc # "enter" =>
        /\ \A k \in Keys : LastWord(k, k \in told) => k \in phys
        /\ \A k \in Mods : k \in phys => LastWord(k, k \in told)

\* Motion brings control home only after an unbroken push of at least
\* Hysteresis away from the remote: wobbling at the seam, however long, and
\* pressure left over from earlier do not (manual-test-checklist.md: "a tiny
\* wobble at the edge must not flap").
ReturnNeedsPush ==
    [][pc = "poll" /\ det.site = "Remote" /\ det'.site = "Local"
         => streak' = Hysteresis]_vars

\* The chord is waiting in the queue: Home goes down where Ctrl and Alt are, by
\* what the loop knows and the events before it.
ChordQueued ==
    \E i \in 1 .. Len(queue) :
        /\ queue[i].kind = "input" /\ queue[i].input \in HomeKeys /\ queue[i].pressed
        /\ WordOf(CtrlKeys, i - 1, ctrl) /\ WordOf(AltKeys, i - 1, alt)

\* The loop waits to announce a crossing, and the peer reads nothing.
Stranded == pc = "enter" /\ outbox = "full"

\* A request to snap home from the window, and the chord from the moment the
\* hooks have queued it, lift the suppression, whatever else is in the queue and
\* whatever the user and the session do meanwhile (manual-test-checklist.md:
\* "instantly returns control").  Only a loop that stays inside its crossing for
\* ever, because the peer has stopped reading, does not get to it.
SnapHomeObeyed == <>[]Stranded \/ (snapHome \/ ChordQueued ~> ~suppress)

\* The end of the session gives the host its keyboard and mouse back, also when
\* the loop is waiting for a peer that has stopped reading.
StopObeyed == stop ~> (pc = "stopped" /\ ~suppress)

\* Whatever hooks, flags, chord and edges do, what the loop knows of the user's
\* modifiers and of the peer's keys changes only as Handover allows, if control
\* counts as remote once the peer has been told of it: every relayed key is
\* recorded, every crossing seeds the modifiers held, every way
\* home leaves nothing recorded (inputloop.rs, held_mods_local, held_remote).
Promise == INSTANCE Handover WITH
    Keys <- Keys,
    Mods <- Mods,
    site <- IF pc = "enter" THEN "Local" ELSE det.site,
    down <- heldModsLocal,
    held <- heldRemote

ImplementsHandover == Promise!Spec
-----------------------------------------------------------------------------
(***************************************************************************)
(* What comments and the test checklist say, and the code does not do.     *)
(***************************************************************************)
\* The chord and the window's request always bring control home
\* (manual-test-checklist.md: "instantly returns control"): not while the loop
\* is stranded in a crossing.
SnapHomeAlways == snapHome ~> ~suppress

\* Once control is home nothing the peer was told is pressed stays pressed
\* (inputloop.rs: "so we can release everything cleanly on the way home").
NothingStuckAtHome == Running /\ det.site = "Local" => told = {}

\* Once the loop has ended no key stays pressed on the peer
\* (manual-test-checklist.md: "does not leave input stuck on the client").
NoKeyStuckAfterStop == ~Running => told \cap Keys = {}

\* The window shows control on the remote only while it is there (net.rs:
\* "True when local control is currently on the remote screen").
WindowShowsSite == uiRemote => Running /\ det.site = "Remote"

\* While control is remote, what is relayed is not also seen by the host
\* (manual-test-checklist.md: "land on the client, not the host").
LandsOnOneSide ==
    [][pc = "poll" /\ queue # <<>> /\ queue' = Tail(queue) /\ told' # told /\ det' = det
         => Head(queue).eaten]_vars

\* Control returns only from the seam "the user entered through" (edge.rs).
ReturnsWhereEntered ==
    [][pc = "poll" /\ det.site = "Remote" /\ det'.site = "Local"
         => AtReturnEdge(entryEdge, cursor')]_vars

\* Crossing an edge enters the remote from the opposite side (inputloop.rs:
\* "Crossing the host's right edge enters the remote from its left side").
EntersOppositeSide ==
    [][det.site = "Local" /\ det'.site = "Remote"
         => AtReturnEdge(det.edge, cursor')]_vars
=============================================================================
