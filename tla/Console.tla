------------------------------ MODULE Console -------------------------------
(***************************************************************************)
(* The window and the sessions: the user's clicks (crates/app/src/ui.rs),  *)
(* the command dispatcher with its list of session handles (net.rs, run,   *)
(* route, broadcast), and the command and event side of every session's    *)
(* task (net.rs, run_session).                                             *)
(*                                                                         *)
(* Three kinds of actor share the trust store and talk over queues: the    *)
(* window posts commands without waiting and drops those that find the     *)
(* queue full; the dispatcher hands a command to one session after the     *)
(* other and waits for a session whose inbox is full; sessions report to   *)
(* the window over an unbounded queue of events.  A session's slot in the  *)
(* list is set when its peer has said Hello, and the list is never pruned. *)
(*                                                                         *)
(* What a session says to its peer is Session's subject, what the stored   *)
(* trust survives TrustStore's.                                            *)
(***************************************************************************)
EXTENDS Integers, Sequences, FiniteSets

CONSTANTS
    Peers, NoPeer, \* the fingerprints, and an unset slot or empty fingerprint
    MaxSessions,   \* bound: sessions in the life of the program
    QueueCap,      \* capacity of the window's command channel (64)
    InboxCap,      \* capacity of a session's command channel (16)
    EventCap,      \* bound: events the window has yet to see
    MaxClicks      \* bound: clicks of the user

ASSUME PeersAssumption == NoPeer \notin Peers /\ IsFiniteSet(Peers)
ASSUME CapsAssumption == MaxSessions \in Nat /\ QueueCap \in Nat /\ InboxCap \in Nat \ {0}
ASSUME BoundsAssumption == EventCap \in Nat /\ MaxClicks \in Nat

Sessions == 1 .. MaxSessions

\* NetCommand: to is the fingerprint, NoPeer when there is none to match.  Poke
\* is SetEdge and SnapHome, which change nothing here but fill the queues.
Ops == {"Connect", "Confirm", "Cancel", "Disconnect", "Start", "Stop", "Poke"}
Command(op, to) == [op |-> op, to |-> to]
Commands == [op : Ops, to : Peers \cup {NoPeer}]

\* NetEvent, as far as the window keeps state of it.
Events == [about : Peers, what : {"Pairing", "Connected", "Disconnected", "Prompt", "Result"}]
Event(fp, what) == [about |-> fp, what |-> what]

\* A session's task: none (not yet made), hello (connecting, no slot), greeted
\* (slot set, trust not looked up), pairing, starting, active, jammed (active,
\* and waiting for room in its outgoing queue), ended.
Phases == {"none", "hello", "greeted", "pairing", "starting", "active", "jammed", "ended"}
Task == [phase : Phases, fp : Peers \cup {NoPeer}, controls : BOOLEAN,
         local : BOOLEAN, remote : BOOLEAN, mirror : BOOLEAN]

VARIABLES
    trust,       \* the fingerprints TrustStore::is_trusted accepts
    cmds,        \* the dispatcher's queue
    dropped,     \* history: the window dropped a command
    routing,     \* the command being handed out, and the sessions left
    task, inbox, \* per session
    events,      \* events the window has not drained
    rows,        \* peers: the state of each row, "none" where there is no row
    prompt,      \* pairing
    sharing,     \* sharing
    clicks       \* bound: how often the user has clicked

netVars == <<trust, cmds, dropped, routing>>
windowVars == <<rows, prompt, sharing, clicks>>
vars == <<netVars, task, inbox, events, windowVars>>

Idle == [cmd |-> Command("Poke", NoPeer), left |-> {}]
Routing(cmd, left) == IF left = {} THEN Idle ELSE [cmd |-> cmd, left |-> left]

Init ==
    /\ trust \in SUBSET Peers
    /\ cmds = <<>> /\ dropped = FALSE /\ routing = Idle
    /\ task = [i \in Sessions |->
                 [phase |-> "none", fp |-> NoPeer, controls |-> FALSE,
                  local |-> FALSE, remote |-> FALSE, mirror |-> FALSE]]
    /\ inbox = [i \in Sessions |-> <<>>]
    /\ events = <<>>
    /\ rows = [p \in Peers |-> "none"]
    /\ prompt = NoPeer /\ sharing = {} /\ clicks = 0
-----------------------------------------------------------------------------
(***************************************************************************)
(* The window.                                                             *)
(***************************************************************************)
Click == clicks < MaxClicks /\ clicks' = clicks + 1

\* send: try_send, which drops the command if the queue is full.
Post(cmd) ==
    IF Len(cmds) < QueueCap
      THEN cmds' = Append(cmds, cmd) /\ UNCHANGED dropped
      ELSE dropped' = TRUE /\ UNCHANGED cmds

Made == {i \in Sessions : task[i].phase # "none"}
Asked == {n \in DOMAIN cmds : cmds[n].op = "Connect"}
RoomForSession == Cardinality(Made) + Cardinality(Asked) < MaxSessions

ClickControl ==
    /\ Click
    /\ RoomForSession
    /\ Post(Command("Connect", NoPeer))
    /\ UNCHANGED <<trust, routing, task, inbox, events, rows, prompt, sharing>>

\* The two buttons of the prompt, which stays until the result is in.
ClickPrompt ==
    /\ Click
    /\ prompt # NoPeer
    /\ \E op \in {"Confirm", "Cancel"} : Post(Command(op, prompt))
    /\ UNCHANGED <<trust, routing, task, inbox, events, rows, prompt, sharing>>

ClickSnapHome ==
    /\ Click
    /\ Post(Command("Poke", NoPeer))
    /\ UNCHANGED <<trust, routing, task, inbox, events, rows, prompt, sharing>>

\* Apply to connected: a SetEdge for every row there is, in some order, of which
\* the queue takes as many as it has room for.  Attempts to connect have a row of
\* their own, whose fingerprint is empty.
ClickApply ==
    /\ Click
    /\ \E attempts \in SUBSET {NoPeer} :
          LET known == {p \in Peers : rows[p] # "none"} \cup attempts
              room == QueueCap - Len(cmds)
          IN  /\ known # {}
              /\ attempts # {} => \E i \in Sessions : task[i].controls
              /\ \E order \in [1 .. Cardinality(known) -> known] :
                    LET pokes == [n \in 1 .. Cardinality(known) |-> Command("Poke", order[n])]
                    IN  /\ known = {order[n] : n \in 1 .. Cardinality(known)}
                        /\ IF Cardinality(known) <= room
                             THEN cmds' = cmds \o pokes /\ UNCHANGED dropped
                             ELSE cmds' = cmds \o SubSeq(pokes, 1, room) /\ dropped' = TRUE
    /\ UNCHANGED <<trust, routing, task, inbox, events, rows, prompt, sharing>>

\* The toggle of a connected row.  The set of shares is the window's own.
ClickShare(p) ==
    /\ Click
    /\ rows[p] = "Connected" /\ p \notin sharing
    /\ Post(Command("Start", p))
    /\ sharing' = sharing \cup {p}
    /\ UNCHANGED <<trust, routing, task, inbox, events, rows, prompt>>

ClickStopSharing(p) ==
    /\ Click
    /\ rows[p] = "Connected" /\ p \in sharing
    /\ Post(Command("Stop", p))
    /\ sharing' = sharing \ {p}
    /\ UNCHANGED <<trust, routing, task, inbox, events, rows, prompt>>

\* Mutant of ClickUnpair: the trust goes, the session is not told.
ClickUnpairOnly(p) ==
    /\ Click
    /\ p \in trust
    /\ trust' = trust \ {p}
    /\ UNCHANGED <<cmds, dropped, routing, task, inbox, events, rows, prompt, sharing>>

ClickUnpair(p) ==
    /\ Click
    /\ p \in trust
    /\ trust' = trust \ {p}
    /\ Post(Command("Disconnect", p))
    /\ UNCHANGED <<routing, task, inbox, events, rows, prompt, sharing>>

\* drain_events, one event.
DrainEvent ==
    /\ events # <<>>
    /\ events' = Tail(events)
    /\ LET ev == Head(events)
       IN  /\ rows' = IF ev.what \in {"Prompt", "Result"} THEN rows
                      ELSE [rows EXCEPT ![ev.about] = ev.what]
           /\ prompt' = CASE ev.what = "Prompt" -> ev.about
                          [] ev.what = "Result" /\ prompt = ev.about -> NoPeer
                          [] OTHER -> prompt
    /\ UNCHANGED <<netVars, task, inbox, sharing, clicks>>
-----------------------------------------------------------------------------
(***************************************************************************)
(* The dispatcher.                                                         *)
(***************************************************************************)
\* A session's handle is pushed: by the dispatcher, or by the accept loop.
Make(controls) ==
    \E i \in Sessions :
        /\ task[i].phase = "none" /\ \A j \in Sessions \ Made : i <= j
        /\ task' = [task EXCEPT ![i].phase = "hello", ![i].controls = controls]

TakeConnect ==
    /\ routing.left = {} /\ cmds # <<>> /\ Head(cmds).op = "Connect"
    /\ cmds' = Tail(cmds)
    /\ Make(TRUE)
    /\ UNCHANGED <<trust, dropped, routing, inbox, events, windowVars>>

\* Mutant of Targets: a handle is matched only while its session is active.
TargetsActive(to) ==
    {i \in Made : (to = NoPeer \/ task[i].fp = to) /\ task[i].phase = "active"}

\* The handles a command goes to: those whose slot matches, dead ones included.
Targets(to) == {i \in Made : to = NoPeer \/ task[i].fp = to}

\* route and broadcast: the targets are picked once.
TakeCommand ==
    /\ routing.left = {} /\ cmds # <<>> /\ Head(cmds).op # "Connect"
    /\ cmds' = Tail(cmds)
    /\ routing' = Routing(Head(cmds), Targets(Head(cmds).to))
    /\ UNCHANGED <<trust, dropped, task, inbox, events, windowVars>>

\* Each in turn: a dead session's channel refuses at once, a full one makes the
\* dispatcher wait.
HandOut ==
    /\ \E i \in routing.left :
           /\ \A j \in routing.left : i <= j
           /\ routing' = Routing(routing.cmd, routing.left \ {i})
           /\ \/ task[i].phase = "ended" /\ UNCHANGED inbox
              \/ /\ task[i].phase # "ended" /\ Len(inbox[i]) < InboxCap
                 /\ inbox' = [inbox EXCEPT ![i] = Append(@, routing.cmd.op)]
    /\ UNCHANGED <<trust, cmds, dropped, task, events, windowVars>>

Dispatch == TakeConnect \/ TakeCommand \/ HandOut

\* The accept loop takes an inbound connection.
Accept ==
    /\ RoomForSession
    /\ Make(FALSE)
    /\ UNCHANGED <<netVars, inbox, events, windowVars>>
-----------------------------------------------------------------------------
(***************************************************************************)
(* A session's task.                                                       *)
(***************************************************************************)
Report(reports) ==
    /\ Len(events) + Len(reports) <= EventCap
    /\ events' = events \o reports

\* The task leaves: the receiver of its inbox goes with it.
Leave(i) ==
    /\ task' = [task EXCEPT ![i].phase = "ended", ![i].mirror = FALSE]
    /\ inbox' = [inbox EXCEPT ![i] = <<>>]

\* The peer's Hello sets the slot.
Hello(i) ==
    /\ task[i].phase = "hello"
    /\ \E p \in Peers :
          task' = [task EXCEPT ![i].phase = "greeted", ![i].fp = p]
    /\ UNCHANGED <<netVars, inbox, events, windowVars>>

\* Connecting, the TLS handshake or the Hello fails.
HelloFails(i) ==
    /\ task[i].phase = "hello"
    /\ Leave(i)
    /\ UNCHANGED <<netVars, events, windowVars>>

\* A trusted peer is let in, any other one has to pair.
LookUpTrust(i) ==
    /\ task[i].phase = "greeted"
    /\ LET fp == task[i].fp
       IN  \/ /\ fp \in trust
              /\ task' = [task EXCEPT ![i].phase = "starting"]
              /\ UNCHANGED events
           \/ /\ fp \notin trust
              /\ task' = [task EXCEPT ![i].phase = "pairing"]
              /\ Report(<<Event(fp, "Pairing"), Event(fp, "Prompt")>>)
    /\ UNCHANGED <<netVars, inbox, windowVars>>

Confirmed(i) == task[i].local /\ task[i].remote

PeerConfirms(i) ==
    /\ task[i].phase = "pairing" /\ ~Confirmed(i)
    /\ task' = [task EXCEPT ![i].remote = TRUE]
    /\ UNCHANGED <<netVars, inbox, events, windowVars>>

PeerCancels(i) ==
    /\ task[i].phase = "pairing" /\ ~Confirmed(i)
    /\ Leave(i)
    /\ Report(<<Event(task[i].fp, "Result")>>)
    /\ UNCHANGED <<netVars, windowVars>>

\* The connection closes, or the peer says what does not belong here: the
\* session ends, and no result is reported.
PeerBreaksOff(i) ==
    /\ task[i].phase = "pairing" /\ ~Confirmed(i)
    /\ Leave(i)
    /\ UNCHANGED <<netVars, events, windowVars>>

\* A command while pairing.
TakeWhilePairing(i) ==
    /\ task[i].phase = "pairing" /\ ~Confirmed(i) /\ inbox[i] # <<>>
    /\ IF Head(inbox[i]) \in {"Cancel", "Disconnect"}
         THEN Leave(i) /\ Report(<<Event(task[i].fp, "Result")>>)
         ELSE /\ task' = [task EXCEPT ![i].local = (@ \/ Head(inbox[i]) = "Confirm")]
              /\ inbox' = [inbox EXCEPT ![i] = Tail(@)]
              /\ UNCHANGED events
    /\ UNCHANGED <<netVars, windowVars>>

\* Both sides have confirmed: the peer is trusted.
ConcludePairing(i) ==
    /\ task[i].phase = "pairing" /\ Confirmed(i)
    /\ trust' = trust \cup {task[i].fp}
    /\ task' = [task EXCEPT ![i].phase = "starting"]
    /\ Report(<<Event(task[i].fp, "Result")>>)
    /\ UNCHANGED <<cmds, dropped, routing, inbox, windowVars>>

\* The store cannot be saved: the peer is trusted for now, the session ends.
ConcludeUnsaved(i) ==
    /\ task[i].phase = "pairing" /\ Confirmed(i)
    /\ trust' = trust \cup {task[i].fp}
    /\ Leave(i)
    /\ UNCHANGED <<cmds, dropped, routing, events, windowVars>>

\* Clipboard, realtime channel and capture are set up.
Start(i) ==
    /\ task[i].phase = "starting"
    /\ task' = [task EXCEPT ![i].phase = "active"]
    /\ Report(<<Event(task[i].fp, "Connected")>>)
    /\ UNCHANGED <<netVars, inbox, windowVars>>

\* A controller's socket or capturer cannot be had.
StartFails(i) ==
    /\ task[i].phase = "starting" /\ task[i].controls
    /\ Leave(i)
    /\ UNCHANGED <<netVars, events, windowVars>>

\* Mutant of Teardown: the window is not told.
TeardownUnsaid(i) == Leave(i) /\ UNCHANGED events

\* The end of an active session.
Teardown(i) == Leave(i) /\ Report(<<Event(task[i].fp, "Disconnected")>>)

\* Mutant of TakeWhileActive: a Stop is taken and the sender runs on.
TakeWhileActiveOn(i) ==
    /\ task[i].phase = "active" /\ inbox[i] # <<>>
    /\ IF Head(inbox[i]) = "Disconnect"
         THEN Teardown(i)
         ELSE /\ task' = [task EXCEPT ![i].mirror = (@ \/ Head(inbox[i]) = "Start")]
              /\ inbox' = [inbox EXCEPT ![i] = Tail(@)]
              /\ UNCHANGED events
    /\ UNCHANGED <<netVars, windowVars>>

\* A command while active.
TakeWhileActive(i) ==
    /\ task[i].phase = "active" /\ inbox[i] # <<>>
    /\ IF Head(inbox[i]) = "Disconnect"
         THEN Teardown(i)
         ELSE /\ task' = [task EXCEPT ![i].mirror = CASE Head(inbox[i]) = "Start" -> TRUE
                                                      [] Head(inbox[i]) = "Stop" -> FALSE
                                                      [] OTHER -> @]
              /\ inbox' = [inbox EXCEPT ![i] = Tail(@)]
              /\ UNCHANGED events
    /\ UNCHANGED <<netVars, windowVars>>

\* The peer closes, or rejects.
PeerCloses(i) ==
    /\ task[i].phase = "active"
    /\ Teardown(i)
    /\ UNCHANGED <<netVars, windowVars>>

\* The peer stops reading until the outgoing queue is full; it reads again.
Jam(i) ==
    /\ task[i].phase = "active"
    /\ task' = [task EXCEPT ![i].phase = "jammed"]
    /\ UNCHANGED <<netVars, inbox, events, windowVars>>

Resume(i) ==
    /\ task[i].phase = "jammed"
    /\ task' = [task EXCEPT ![i].phase = "active"]
    /\ UNCHANGED <<netVars, inbox, events, windowVars>>

\* What a session does by itself, whatever its peer does.
Advance(i) ==
    \/ LookUpTrust(i) \/ TakeWhilePairing(i) \/ ConcludePairing(i) \/ ConcludeUnsaved(i)
    \/ Start(i) \/ StartFails(i) \/ TakeWhileActive(i)

Peer(i) ==
    \/ Hello(i) \/ HelloFails(i)
    \/ PeerConfirms(i) \/ PeerCancels(i) \/ PeerBreaksOff(i)
    \/ PeerCloses(i) \/ Jam(i) \/ Resume(i)

Window ==
    \/ ClickControl \/ ClickPrompt \/ ClickSnapHome \/ ClickApply
    \/ \E p \in Peers : ClickShare(p) \/ ClickStopSharing(p) \/ ClickUnpair(p)

Next ==
    \/ Window
    \/ DrainEvent
    \/ Dispatch
    \/ Accept
    \/ \E i \in Sessions : Advance(i) \/ Peer(i)

\* The window repaints every 200 ms, the dispatcher and the sessions are tasks of
\* a runtime that polls what is ready; neither user nor peer owes a step.
Fairness ==
    /\ WF_vars(DrainEvent) /\ WF_vars(Dispatch)
    /\ \A i \in Sessions : WF_vars(Advance(i))

Spec == Init /\ [][Next]_vars /\ Fairness
-----------------------------------------------------------------------------
TypeOK ==
    /\ trust \subseteq Peers /\ sharing \subseteq Peers
    /\ cmds \in Seq(Commands) /\ Len(cmds) <= QueueCap
    /\ dropped \in BOOLEAN
    /\ routing \in [cmd : Commands, left : SUBSET Sessions]
    /\ task \in [Sessions -> Task]
    /\ inbox \in [Sessions -> Seq(Ops)]
    /\ \A i \in Sessions : Len(inbox[i]) <= InboxCap
    /\ events \in Seq(Events) /\ Len(events) <= EventCap
    /\ rows \in [Peers -> {"none", "Pairing", "Connected", "Disconnected"}]
    /\ prompt \in Peers \cup {NoPeer} /\ clicks \in 0 .. MaxClicks

\* Sessions that are past pairing, and those the window was told of.
Authenticated(i) == task[i].phase \in {"starting", "active", "jammed"}
Live(i) == task[i].phase \in {"active", "jammed"}

Has(seq, x) == \E n \in DOMAIN seq : seq[n] = x

\* A Disconnect is on its way to session i: in its inbox, being handed out, or
\* waiting for the dispatcher.
DisconnectDue(i) ==
    \/ Has(inbox[i], "Disconnect")
    \/ i \in routing.left /\ routing.cmd.op = "Disconnect"
    \/ Has(cmds, Command("Disconnect", task[i].fp))

\* Unpairing reaches every session of the peer, those that were looking it up
\* at that moment included: a session let in while its peer is not trusted has
\* a Disconnect coming, unless the window dropped it (ui.rs paired_ui revokes
\* first and posts then, run_session sets the slot first and looks up then).
RevocationRouted ==
    ~dropped => \A i \in Sessions :
        Authenticated(i) /\ task[i].fp \notin trust => DisconnectDue(i)

\* What a row's state will be once the window has drained its events: what the
\* last event about it says, or what it is if there is none.
Told(p) == {n \in DOMAIN events : events[n].about = p
                                  /\ events[n].what \notin {"Prompt", "Result"}}
WillSay(p, state) ==
    \/ Told(p) = {} /\ rows[p] = state
    \/ \E n \in Told(p) : events[n].what = state /\ \A m \in Told(p) : m <= n

\* A row that will say connected has a session that is (ui.rs, "Offer a share
\* toggle for each currently-connected peer").
ConnectedIsTrue ==
    \A p \in Peers : WillSay(p, "Connected") =>
        \E i \in Sessions : Live(i) /\ task[i].fp = p

\* What the commands that wait for the dispatcher say to the sessions of p.
SaidTo(p) == [n \in DOMAIN cmds |-> IF cmds[n].to = p THEN cmds[n].op ELSE "Poke"]

\* The commands about sharing, and the last of them in a queue.
Words == {"Start", "Stop"}
Wordless(ops) == \A n \in DOMAIN ops : ops[n] \notin Words
LastIsStart(ops) ==
    \E n \in DOMAIN ops : /\ ops[n] = "Start"
                          /\ \A m \in DOMAIN ops : ops[m] \in Words => m <= n

\* Whether session i will share the screen once it has what is in hand or in
\* its inbox.
NearlyShares(i) ==
    IF i \in routing.left /\ routing.cmd.op \in Words THEN routing.cmd.op = "Start"
    ELSE IF ~Wordless(inbox[i]) THEN LastIsStart(inbox[i])
    ELSE task[i].mirror

\* Whether it will once everything has arrived.
WillShare(i) ==
    LET said == SaidTo(task[i].fp)
    IN  IF Wordless(said) THEN NearlyShares(i) ELSE LastIsStart(said)

\* No session goes on sharing the screen with a peer for which the window's
\* toggle does not say so, unless a command was dropped: every Stop reaches all
\* the sessions a Start before it reached.
SharingIsKnown ==
    ~dropped => \A i \in Sessions :
        task[i].fp # NoPeer /\ WillShare(i) => task[i].fp \in sharing

Silent(i) == task[i].phase \in {"hello", "jammed"}

\* Unless a command is dropped or some peer stays silent, the sessions of
\* unpaired peers end (ui.rs paired_ui: revoke, then Disconnect).
UnpairEndsSession ==
    <>[](~dropped /\ \A i \in Sessions : ~Silent(i)) =>
        []<>(\A i \in Sessions : Authenticated(i) => task[i].fp \in trust)
-----------------------------------------------------------------------------
(***************************************************************************)
(* What comments say, and the code does not do.                            *)
(***************************************************************************)
\* Unpairing a device ends its session (ui.rs paired_ui): the window drops the
\* Disconnect when the command queue is full.
UnpairNeverLost ==
    \A i \in Sessions :
        Authenticated(i) /\ task[i].fp \notin trust => DisconnectDue(i)

\* The toggle is offered "for each currently-connected peer" (ui.rs): the end of
\* one of two sessions with a peer takes it away from the other.
ToggleOffered ==
    \A i \in Sessions : Live(i) /\ events = <<>> => rows[task[i].fp] = "Connected"

\* The window shows the prompt of a session that pairs (ui.rs, "Pairing prompt
\* takes priority"): a second session's prompt overwrites the first one's, and
\* with it the only way to confirm.
PromptShown ==
    \A i \in Sessions :
        task[i].phase = "pairing" /\ ~task[i].local /\ events = <<>> => prompt = task[i].fp

\* The prompt is of a session that pairs: nothing takes it away when the peer
\* breaks off.
PromptIsCurrent ==
    prompt # NoPeer /\ events = <<>> =>
        \E i \in Sessions : task[i].fp = prompt /\ task[i].phase = "pairing"

\* The toggle says a screen is shared only while it is: the set is never told
\* of a session's end.
SharingIsTrue ==
    \A p \in sharing : events = <<>> /\ cmds = <<>> /\ routing.left = {}
        /\ (\A i \in Sessions : inbox[i] = <<>>) /\ rows[p] = "Connected"
        => \E i \in Sessions : task[i].fp = p /\ task[i].mirror

\* route "Prunes dead handles" (net.rs).
DeadHandlesPruned == \A i \in routing.left : task[i].phase # "ended"

\* A command to one session is not held up by another whose peer is silent.
CommandsFlow == routing.left # {} ~> routing.left = {}
=============================================================================
