-------------------------- MODULE HostInputProofs ---------------------------
(***************************************************************************)
(* For every keyboard, set of motions, hysteresis, screen size and queue   *)
(* capacity: local input is suppressed exactly while control is remote,    *)
(* what the peer was told is pressed is tracked key by key and released on *)
(* every way home, and only a sustained push brings control home.          *)
(***************************************************************************)
EXTENDS HostInput, TLAPS

(***************************************************************************)
(* The edge detector and its geometry (crates/input/src/edge.rs).          *)
(***************************************************************************)
LEMMA HysteresisIsPositive == Hysteresis \in Nat /\ Hysteresis > 0
BY HysteresisAssumption DEF Hysteresis

LEMMA IntoDeltaIsInt ==
    ASSUME NEW e \in AllEdges, NEW dx \in Int, NEW dy \in Int
    PROVE  IntoDelta(e, dx, dy) \in Int
BY DEF AllEdges, IntoDelta

\* Crossing, coming home and changing the edge keep the detector well formed.
LEMMA DetectorMoves ==
    ASSUME NEW d \in Detector, NEW e \in AllEdges
    PROVE  /\ SetEdge(d, e) \in Detector /\ SetEdge(d, e).edge = e
           /\ SetEdge(d, e).site = d.site /\ SetEdge(d, e).backPush = d.backPush
           /\ Home(d) \in Detector /\ Home(d).site = "Local" /\ Home(d).backPush = 0
           /\ GoRemote(d) \in Detector /\ GoRemote(d).site = "Remote"
           /\ GoRemote(d).backPush = 0
<1>1. 0 \in 0 .. Hysteresis - 1
  BY HysteresisIsPositive
<1> QED BY <1>1 DEF Detector, SetEdge, Home, GoRemote

\* What update_remote does to the accumulated push: it is reset, or grows by
\* the backward motion, or reaches Hysteresis and control is home.
LEMMA UpdateRemoteCases ==
    ASSUME NEW d \in Detector, NEW dx \in Int, NEW dy \in Int, NEW atSeam \in BOOLEAN,
           d.site = "Remote"
    PROVE  LET into == IntoDelta(d.edge, dx, dy)
               u == UpdateRemote(d, dx, dy, atSeam)
           IN  /\ u \in Detector
               /\ \/ u.site = "Remote" /\ u.backPush = 0
                  \/ u.site = "Remote" /\ into < 0 /\ u.backPush = d.backPush - into
                  \/ u.site = "Local" /\ u.backPush = 0 /\ into < 0
                     /\ d.backPush - into >= Hysteresis
<1> DEFINE into == IntoDelta(d.edge, dx, dy)
           u == UpdateRemote(d, dx, dy, atSeam)
<1>0. into \in Int /\ d.backPush \in Nat /\ Hysteresis \in Nat /\ Hysteresis > 0
  BY HysteresisIsPositive, IntoDeltaIsInt DEF Detector
<1>1. CASE ~(atSeam /\ into < 0)
  <2>1. u = [d EXCEPT !.backPush = 0]
    BY <1>1 DEF UpdateRemote
  <2> QED BY <1>0, <2>1 DEF Detector
<1>2. CASE atSeam /\ into < 0 /\ d.backPush - into >= Hysteresis
  <2>1. u = Home(d)
    BY <1>2 DEF UpdateRemote
  <2>2. d.edge \in AllEdges
    BY DEF Detector
  <2>3. Home(d) \in Detector /\ Home(d).site = "Local" /\ Home(d).backPush = 0
    BY <2>2, DetectorMoves
  <2> QED BY <1>2, <2>1, <2>3
<1>3. CASE atSeam /\ into < 0 /\ ~(d.backPush - into >= Hysteresis)
  <2>1. u = [d EXCEPT !.backPush = d.backPush - into]
    BY <1>3 DEF UpdateRemote
  <2>2. d.backPush - into \in 0 .. Hysteresis - 1
    BY <1>0, <1>3
  <2> QED BY <1>0, <1>3, <2>1, <2>2 DEF Detector
<1> QED BY <1>1, <1>2, <1>3

LEMMA EntryPointInRange ==
    ASSUME NEW e \in AllEdges, NEW f \in AllEdges, NEW x \in Pixels, NEW y \in Pixels
    PROVE  EntryPoint(e, Along(f, x, y)) \in Points
<1>1. Along(f, x, y) \in Steps /\ 0 \in Steps /\ Size \in Steps
  BY SizeAssumption DEF Along, Pixels, Steps
<1> QED BY <1>1 DEF AllEdges, EntryPoint, Points

LEMMA MovedInRange ==
    ASSUME NEW v \in Points, NEW dx \in Int, NEW dy \in Int
    PROVE  Moved(v, dx, dy) \in Points
<1>1. \A n \in Int : Clamp(n) \in Steps
  BY SizeAssumption DEF Clamp, Steps
<1>2. v.x + dx \in Int /\ v.y + dy \in Int
  BY SizeAssumption DEF Points, Steps
<1> QED BY <1>1, <1>2 DEF Moved, Points

(***************************************************************************)
(* The queue.                                                              *)
(***************************************************************************)
Events == MoveEvent \cup InputEvent

\* A hook's step keeps the queue a bounded queue of events.
LEMMA CaptureType ==
    ASSUME queue \in Seq(Events), Len(queue) <= QueueCap, lost \in BOOLEAN,
           NEW ev \in Events, Capture(ev)
    PROVE  queue' \in Seq(Events) /\ Len(queue') <= QueueCap /\ lost' \in BOOLEAN
<1>1. CASE Len(queue) < QueueCap
  BY <1>1, QueueAssumption DEF Capture
<1>2. CASE ~(Len(queue) < QueueCap)
  BY <1>2 DEF Capture
<1> QED BY <1>1, <1>2

\* Polling leaves a queue, and hands out an event of the kind it says.
LEMMA PollType ==
    ASSUME TypeOK, Poll
    PROVE  /\ queue' \in Seq(Events) /\ Len(queue') <= QueueCap
           /\ Head(queue).kind = "move" => Head(queue).move \in Motions
           /\ Head(queue).kind = "input" =>
                 Head(queue).input \in Inputs /\ Head(queue).pressed \in BOOLEAN
<1>1. queue \in Seq(Events) /\ queue # <<>> /\ queue' = Tail(queue)
  BY DEF TypeOK, Poll, Events
<1>2. Head(queue) \in Events
  BY <1>1
<1>3. queue' \in Seq(Events) /\ Len(queue') <= QueueCap
  BY <1>1, QueueAssumption DEF TypeOK
<1> QED BY <1>2, <1>3 DEF Events, MoveEvent, InputEvent

(***************************************************************************)
(* The loop's invariant.                                                   *)
(***************************************************************************)
LEMMA InitInv == Init => LoopInv
<1> SUFFICES ASSUME Init PROVE LoopInv
  OBVIOUS
<1>1. edgeShared \in AllEdges
  BY EdgesAssumption DEF Init
<1>2. det \in Detector /\ det.site = "Local" /\ det.backPush = 0
  BY <1>1, HysteresisIsPositive DEF Init, NewDetector, Detector
<1>3. cursor \in Points
  BY SizeAssumption DEF Init, Points, Steps
<1>4. queue \in Seq(MoveEvent \cup InputEvent) /\ Len(queue) <= QueueCap
  BY QueueAssumption DEF Init
<1>5. /\ phys = {} /\ lost = FALSE /\ suppress = FALSE
      /\ edgeShared \in Edges /\ snapHome = FALSE /\ stop = FALSE /\ pc = "top"
      /\ outbox = "room"
      /\ ctrl = FALSE /\ alt = FALSE
      /\ heldModsLocal = {} /\ heldRemote = {} /\ told = {}
      /\ announced = "Local" /\ uiRemote = FALSE /\ entryEdge = edgeShared /\ streak = 0
  BY DEF Init
<1>6. TypeOK
  <2>1. streak \in 0 .. Hysteresis
    BY <1>5, HysteresisIsPositive
  <2>2. /\ phys \subseteq Inputs /\ heldModsLocal \subseteq Mods
        /\ heldRemote \subseteq Keys /\ told \subseteq Inputs
    BY <1>5
  <2>3. /\ lost \in BOOLEAN /\ suppress \in BOOLEAN /\ snapHome \in BOOLEAN
        /\ stop \in BOOLEAN /\ ctrl \in BOOLEAN /\ alt \in BOOLEAN
        /\ uiRemote \in BOOLEAN
    BY <1>5
  <2>4. /\ edgeShared \in Edges /\ entryEdge \in AllEdges
        /\ pc \in {"top", "poll", "enter", "leave", "snapped", "stopped"}
        /\ outbox \in {"room", "full", "closed"} /\ announced \in {"Local", "Remote"}
    BY <1>1, <1>5
  <2> QED BY <1>2, <1>3, <1>4, <2>1, <2>2, <2>3, <2>4 DEF TypeOK
<1>7. SuppressionFollowsSite
  BY <1>2, <1>5 DEF SuppressionFollowsSite, Settled, Running
<1>8. HeldIsWhatWasTold /\ PushIsSustained
  BY <1>2, <1>5 DEF HeldIsWhatWasTold, PushIsSustained
<1> QED BY <1>6, <1>7, <1>8 DEF LoopInv

\* The user, the hooks and the session touch nothing the invariant is about
\* but its types.
LEMMA OutsideStep ==
    ASSUME LoopInv, UNCHANGED <<siteVars, keyVars, pc>>, TypeOK'
    PROVE  LoopInv'
BY DEF LoopInv, siteVars, keyVars, SuppressionFollowsSite, HeldIsWhatWasTold,
       PushIsSustained, Settled, Running

LEMMA CrossingInv ==
    ASSUME LoopInv, HandleCrossing
    PROVE  LoopInv'
<1> DEFINE m == Head(queue).move
<1>1. TypeOK /\ Poll /\ Head(queue).kind = "move"
  BY DEF LoopInv, HandleCrossing
<1>2. queue' \in Seq(Events) /\ Len(queue') <= QueueCap /\ m \in Motions
  BY <1>1, PollType
<1>3. m.x \in Pixels /\ m.y \in Pixels
  BY <1>2, MotionsAssumption
<1>4. edgeShared \in AllEdges /\ det \in Detector /\ det.edge \in AllEdges
  BY <1>1, EdgesAssumption DEF TypeOK, Detector
<1>5. cursor' \in Points
  BY <1>3, <1>4, EntryPointInRange DEF HandleCrossing
<1>6. det' \in Detector /\ det'.site = "Remote" /\ det'.backPush = 0
  BY <1>4, DetectorMoves DEF HandleCrossing
<1>7. TypeOK'
  BY <1>1, <1>2, <1>4, <1>5, <1>6, KeysAssumption, HysteresisIsPositive
     DEF HandleCrossing, Poll, TypeOK, Events, Inputs, keyVars
<1>8. SuppressionFollowsSite'
  BY <1>1, <1>6 DEF HandleCrossing, Poll, SuppressionFollowsSite, Settled, Running
<1>9. HeldIsWhatWasTold'
  BY DEF HandleCrossing, keyVars, LoopInv, HeldIsWhatWasTold
<1>10. PushIsSustained'
  BY <1>6 DEF HandleCrossing, PushIsSustained
<1> QED BY <1>7, <1>8, <1>9, <1>10 DEF LoopInv

LEMMA EnteredInv ==
    ASSUME LoopInv, Entered
    PROVE  LoopInv'
<1>1. TypeOK /\ pc = "enter" /\ pc' = "top" /\ announced' = "Remote"
  BY DEF LoopInv, Entered, Announce
<1>2. heldModsLocal \subseteq Keys /\ heldRemote \subseteq Keys
  BY <1>1, KeysAssumption DEF TypeOK
<1>3. TypeOK'
  BY <1>1, <1>2 DEF Entered, TypeOK, Inputs, userVars, flagVars
<1>4. SuppressionFollowsSite'
  BY <1>1 DEF Entered, LoopInv, SuppressionFollowsSite, Settled, Running
<1>5. HeldIsWhatWasTold'
  <2>1. heldRemote = told \cap Keys /\ det'.site = "Remote"
    BY <1>1 DEF Entered, LoopInv, HeldIsWhatWasTold, SuppressionFollowsSite
  <2>2. heldRemote' = told' \cap Keys
    BY <1>2, <2>1 DEF Entered
  <2> QED BY <1>1, <2>1, <2>2 DEF HeldIsWhatWasTold
<1>6. PushIsSustained'
  BY DEF Entered, LoopInv, PushIsSustained
<1> QED BY <1>3, <1>4, <1>5, <1>6 DEF LoopInv

\* The two announcements of a way home.
LEMMA HomeAnnouncedInv ==
    ASSUME LoopInv, Left \/ SnappedHome
    PROVE  LoopInv'
<1>1. /\ TypeOK /\ pc \in {"leave", "snapped"} /\ pc' \in {"top", "poll"}
      /\ announced' = "Local" /\ uiRemote' \in BOOLEAN
  BY DEF LoopInv, TypeOK, Left, SnappedHome, Announce
<1>2. UNCHANGED <<userVars, flagVars, keyVars, det, suppress, cursor, entryEdge, streak>>
  BY DEF Left, SnappedHome
<1>3. TypeOK'
  BY <1>1, <1>2 DEF TypeOK, userVars, flagVars, keyVars
<1>4. SuppressionFollowsSite'
  BY <1>1, <1>2 DEF LoopInv, SuppressionFollowsSite, Settled, Running
<1> QED BY <1>1, <1>2, <1>3, <1>4 DEF LoopInv, HeldIsWhatWasTold, PushIsSustained, keyVars

\* What a motion on the remote does to the push, in the words of the invariant.
LEMMA RemoteMoveCases ==
    ASSUME LoopInv, HandleRemoteMove
    PROVE  /\ det' \in Detector /\ streak' \in 0 .. Hysteresis
           /\ det'.backPush <= streak'
           /\ det'.site = "Local" => det'.backPush = 0 /\ streak' = Hysteresis
<1> DEFINE m == Head(queue).move
           into == IntoDelta(det.edge, m.dx, m.dy)
           atSeam == AtReturnEdge(edgeShared, cursor')
<1>1. TypeOK /\ Poll /\ Head(queue).kind = "move"
  BY DEF LoopInv, HandleRemoteMove
<1>2. m.dx \in Int /\ m.dy \in Int
  BY <1>1, PollType, MotionsAssumption
<1>3. det \in Detector /\ det.edge \in AllEdges /\ edgeShared \in AllEdges
  BY <1>1, EdgesAssumption DEF TypeOK, Detector
<1>4. atSeam \in BOOLEAN
  BY <1>3 DEF AtReturnEdge, AllEdges
<1>5. /\ det.site = "Remote" /\ det' = UpdateRemote(det, m.dx, m.dy, atSeam)
      /\ streak' = Streak(m.dx, m.dy)
  BY DEF HandleRemoteMove
<1>6. /\ det' \in Detector
      /\ \/ det'.site = "Remote" /\ det'.backPush = 0
         \/ det'.site = "Remote" /\ into < 0 /\ det'.backPush = det.backPush - into
         \/ det'.site = "Local" /\ det'.backPush = 0 /\ into < 0
            /\ det.backPush - into >= Hysteresis
  BY <1>2, <1>3, <1>4, <1>5, UpdateRemoteCases
<1>7. into \in Int /\ det.backPush \in Nat /\ det'.backPush \in 0 .. Hysteresis - 1
  BY <1>2, <1>3, <1>6, IntoDeltaIsInt, HysteresisIsPositive DEF Detector
<1>8. streak \in 0 .. Hysteresis /\ det.backPush <= streak
  BY DEF LoopInv, TypeOK, PushIsSustained
<1>9. streak' = IF into >= 0 THEN 0
                ELSE IF streak - into >= Hysteresis THEN Hysteresis ELSE streak - into
  BY <1>5 DEF Streak
<1> HIDE DEF into, m, atSeam
<1> QED BY <1>6, <1>7, <1>8, <1>9, HysteresisIsPositive

LEMMA RemoteMoveInv ==
    ASSUME LoopInv, HandleRemoteMove
    PROVE  LoopInv'
<1> DEFINE m == Head(queue).move
<1>1. TypeOK /\ Poll /\ Head(queue).kind = "move"
  BY DEF LoopInv, HandleRemoteMove
<1>2. queue' \in Seq(Events) /\ Len(queue') <= QueueCap /\ m.dx \in Int /\ m.dy \in Int
  BY <1>1, PollType, MotionsAssumption
<1>3. cursor' \in Points
  BY <1>1, <1>2, MovedInRange DEF HandleRemoteMove, TypeOK
<1>4. /\ det' \in Detector /\ streak' \in 0 .. Hysteresis
      /\ det'.backPush <= streak'
      /\ det'.site = "Local" => det'.backPush = 0
  BY RemoteMoveCases
<1>5. PushIsSustained'
  BY <1>4 DEF PushIsSustained
<1>6. CASE det'.site = "Local"
  <2>1. ReleaseHeld /\ pc' = "leave" /\ UNCHANGED <<announced, uiRemote>>
    BY <1>6 DEF HandleRemoteMove
  <2>2. TypeOK'
    BY <1>1, <1>2, <1>3, <1>4, <2>1
       DEF HandleRemoteMove, Poll, TypeOK, Events, ReleaseHeld
  <2>3. SuppressionFollowsSite'
    BY <1>1, <1>6, <2>1 DEF Poll, ReleaseHeld, SuppressionFollowsSite, Settled, Running
  <2>4. HeldIsWhatWasTold'
    BY <2>1 DEF LoopInv, ReleaseHeld, HeldIsWhatWasTold
  <2> QED BY <1>5, <2>2, <2>3, <2>4 DEF LoopInv
<1>7. CASE det'.site # "Local"
  <2>0. det.site = "Remote" /\ det'.site = "Remote"
    BY <1>4, <1>7 DEF HandleRemoteMove, Detector
  <2>1. UNCHANGED <<suppress, told, heldRemote, announced, uiRemote>> /\ pc' = "top"
    BY <1>7 DEF HandleRemoteMove
  <2>2. TypeOK'
    BY <1>1, <1>2, <1>3, <1>4, <2>1 DEF HandleRemoteMove, Poll, TypeOK, Events
  <2>3. SuppressionFollowsSite'
    BY <1>1, <2>0, <2>1 DEF LoopInv, Poll, SuppressionFollowsSite, Settled, Running
  <2>4. HeldIsWhatWasTold'
    BY <1>1, <2>0, <2>1 DEF LoopInv, HeldIsWhatWasTold
  <2> QED BY <1>5, <2>2, <2>3, <2>4 DEF LoopInv
<1> QED BY <1>6, <1>7

LEMMA InputInv ==
    ASSUME LoopInv, HandleInput
    PROVE  LoopInv'
<1> DEFINE k == Head(queue).input
           pressed == Head(queue).pressed
<1>1. /\ TypeOK /\ Poll /\ Head(queue).kind = "input" /\ UNCHANGED siteVars
      /\ pc' = "top"
  BY DEF LoopInv, HandleInput
<1>2. /\ queue' \in Seq(Events) /\ Len(queue') <= QueueCap
      /\ k \in Inputs /\ pressed \in BOOLEAN
  BY <1>1, PollType
<1>3. /\ heldModsLocal' \subseteq Mods
      /\ told' \subseteq Inputs /\ heldRemote' \subseteq Keys
  BY <1>1, <1>2 DEF HandleInput, TypeOK, Track
<1>4. ctrl' \in BOOLEAN /\ alt' \in BOOLEAN /\ snapHome' \in BOOLEAN
  BY <1>1, <1>2 DEF HandleInput, TypeOK, IsChord
<1>5. TypeOK'
  BY <1>1, <1>2, <1>3, <1>4 DEF Poll, TypeOK, Events, siteVars
<1>6. SuppressionFollowsSite' /\ PushIsSustained'
  BY <1>1 DEF LoopInv, HandleInput, Poll, siteVars, SuppressionFollowsSite, PushIsSustained,
                Settled, Running
<1>7. HeldIsWhatWasTold'
  <2>1. heldRemote = told \cap Keys /\ (det.site = "Local" => heldRemote = {})
    BY DEF LoopInv, HeldIsWhatWasTold
  <2>2. CASE det.site = "Remote" /\ ~IsChord(k, pressed)
    <3>1. /\ told' = Track(told, k, pressed)
          /\ heldRemote' = IF k \in Keys THEN Track(heldRemote, k, pressed) ELSE heldRemote
      BY <2>2 DEF HandleInput
    <3>2. heldRemote' = told' \cap Keys
      BY <2>1, <3>1 DEF Track
    <3>3. det'.site = "Remote" /\ pc' = "top"
      BY <1>1, <2>2 DEF siteVars, HandleInput
    <3> QED BY <3>2, <3>3 DEF HeldIsWhatWasTold
  <2>3. CASE ~(det.site = "Remote" /\ ~IsChord(k, pressed))
    <3>1. told' = told /\ heldRemote' = heldRemote /\ det' = det /\ pc' = "top"
      BY <1>1, <2>3 DEF HandleInput, siteVars
    <3> QED BY <2>1, <3>1 DEF HeldIsWhatWasTold
  <2> QED BY <2>2, <2>3
<1> QED BY <1>5, <1>6, <1>7 DEF LoopInv

LEMMA StepInv == LoopInv /\ [Next]_vars => LoopInv'
<1> SUFFICES ASSUME LoopInv, [Next]_vars PROVE LoopInv'
  OBVIOUS
<1>0. /\ TypeOK /\ det \in Detector /\ edgeShared \in AllEdges
      /\ queue \in Seq(Events) /\ Len(queue) <= QueueCap /\ lost \in BOOLEAN
  BY EdgesAssumption DEF LoopInv, TypeOK, Events
<1>1. ASSUME NEW k \in Inputs, Press(k) \/ Release(k) PROVE LoopInv'
  <2>1. \A p, e \in BOOLEAN :
           [kind |-> "input", input |-> k, pressed |-> p, eaten |-> e] \in Events
    BY DEF Events, InputEvent
  <2>2. PICK ev \in Events : Capture(ev)
    BY <1>0, <1>1, <2>1 DEF Press, Release, TypeOK
  <2>3. TypeOK'
    BY <1>0, <1>1, <2>2, CaptureType
       DEF Press, Release, TypeOK, flagVars, siteVars, keyVars, Events
  <2> QED BY <1>1, <2>3, OutsideStep DEF Press, Release
<1>2. ASSUME NEW m \in Motions, MoveMouse(m) PROVE LoopInv'
  <2>1. [kind |-> "move", move |-> m] \in Events
    BY DEF Events, MoveEvent
  <2>2. TypeOK'
    BY <1>0, <1>2, <2>1, CaptureType
       DEF MoveMouse, TypeOK, flagVars, siteVars, keyVars, Events
  <2> QED BY <1>2, <2>2, OutsideStep DEF MoveMouse
<1>3. ASSUME NEW e \in Edges, ChooseEdge(e) PROVE LoopInv'
  <2>1. TypeOK'
    BY <1>0, <1>3 DEF ChooseEdge, TypeOK, userVars, siteVars, keyVars
  <2> QED BY <1>3, <2>1, OutsideStep DEF ChooseEdge
<1>4. ASSUME RequestSnapHome \/ RequestStop \/ Jam \/ Flow \/ Hangup PROVE LoopInv'
  <2>1. /\ UNCHANGED <<edgeShared, userVars, siteVars, keyVars, pc>>
        /\ snapHome' \in BOOLEAN /\ stop' \in BOOLEAN
        /\ outbox' \in {"room", "full", "closed"}
    <3>1. snapHome \in BOOLEAN /\ stop \in BOOLEAN /\ outbox \in {"room", "full", "closed"}
      BY <1>0 DEF TypeOK
    <3> QED BY <1>4, <3>1 DEF RequestSnapHome, RequestStop, Jam, Flow, Hangup, OutboxIs
  <2>2. TypeOK'
    BY <1>0, <2>1 DEF TypeOK, userVars, siteVars, keyVars
  <2> QED BY <2>1, <2>2, OutsideStep
<1>5. ASSUME LoopStop PROVE LoopInv'
  <2>1. TypeOK'
    BY <1>0, <1>5 DEF LoopStop, TypeOK, userVars, flagVars, keyVars
  <2> QED BY <1>5, <2>1 DEF LoopStop, LoopInv, SuppressionFollowsSite,
          HeldIsWhatWasTold, PushIsSustained, Settled, Running, keyVars
<1>6. ASSUME LoopSnapHome PROVE LoopInv'
  <2>1. det' \in Detector /\ det'.site = "Local" /\ det'.backPush = 0
    BY <1>0, <1>6, DetectorMoves DEF LoopSnapHome
  <2>2. TypeOK'
    BY <1>0, <1>6, <2>1 DEF LoopSnapHome, ReleaseHeld, TypeOK, userVars
  <2>3. SuppressionFollowsSite'
    BY <1>6, <2>1 DEF LoopSnapHome, ReleaseHeld, SuppressionFollowsSite, Settled, Running
  <2>4. HeldIsWhatWasTold'
    BY <1>6 DEF LoopInv, LoopSnapHome, ReleaseHeld, HeldIsWhatWasTold
  <2>5. PushIsSustained'
    BY <1>0, <1>6, <2>1, HysteresisIsPositive DEF LoopSnapHome, PushIsSustained, TypeOK
  <2> QED BY <2>2, <2>3, <2>4, <2>5 DEF LoopInv
<1>7. ASSUME LoopTop PROVE LoopInv'
  <2>1. det' \in Detector /\ det'.site = det.site /\ det'.backPush = det.backPush
    BY <1>0, <1>7, DetectorMoves DEF LoopTop
  <2>2. TypeOK'
    BY <1>0, <1>7, <2>1 DEF LoopTop, TypeOK, userVars, keyVars
  <2> QED BY <1>7, <2>1, <2>2 DEF LoopTop, LoopInv, SuppressionFollowsSite,
          HeldIsWhatWasTold, PushIsSustained, Settled, Running, keyVars
<1>8. ASSUME PollTimeout PROVE LoopInv'
  <2>1. TypeOK'
    BY <1>0, <1>8 DEF PollTimeout, TypeOK, userVars, flagVars, siteVars, keyVars
  <2> QED BY <1>8, <2>1 DEF PollTimeout, LoopInv, SuppressionFollowsSite,
          HeldIsWhatWasTold, PushIsSustained, Settled, Running, siteVars, keyVars
<1>9. ASSUME HandleIdleMove PROVE LoopInv'
  <2>1. queue' \in Seq(Events) /\ Len(queue') <= QueueCap
    BY <1>0, <1>9, PollType DEF HandleIdleMove
  <2>2. TypeOK'
    BY <1>0, <1>9, <2>1 DEF HandleIdleMove, Poll, TypeOK, siteVars, keyVars, Events
  <2> QED BY <1>9, <2>2 DEF HandleIdleMove, Poll, LoopInv, SuppressionFollowsSite,
          HeldIsWhatWasTold, PushIsSustained, Settled, Running, siteVars, keyVars
<1>10. CASE UNCHANGED vars
  <2>1. TypeOK'
    BY <1>0, <1>10 DEF vars, TypeOK, userVars, flagVars, siteVars, keyVars
  <2> QED BY <1>10, <2>1, OutsideStep DEF vars
<1> QED BY <1>1, <1>2, <1>3, <1>4, <1>5, <1>6, <1>7, <1>8, <1>9, <1>10,
           CrossingInv, EnteredInv, HomeAnnouncedInv, RemoteMoveInv, InputInv DEF Next, Loop

\* Suppression follows the site, held_remote is what the peer was told, and
\* pressure is never more than the user's unbroken push, in every reachable
\* state of the loop with its hooks, queue and session.
THEOREM LoopInvariant == Spec => []LoopInv
BY InitInv, StepInv, PTL DEF Spec

\* The host's keyboard and mouse are suppressed exactly while control is on
\* the remote, and not once the loop has ended.
THEOREM SuppressionIsExact == Spec => []SuppressionFollowsSite
<1>1. LoopInv => SuppressionFollowsSite
  BY DEF LoopInv
<1> QED BY <1>1, LoopInvariant, PTL

\* No key the peer was told is pressed is forgotten, and none is left pressed
\* when control is home.
THEOREM NoKeyIsForgotten == Spec => []HeldIsWhatWasTold
<1>1. LoopInv => HeldIsWhatWasTold
  BY DEF LoopInv
<1> QED BY <1>1, LoopInvariant, PTL

\* Motion brings control home only after an unbroken push of Hysteresis.
THEOREM ReturnIsSustained == Spec => ReturnNeedsPush
<1> DEFINE Return == pc = "poll" /\ det.site = "Remote" /\ det'.site = "Local"
<1>1. LoopInv /\ [Next]_vars => (Return => streak' = Hysteresis)
  <2> SUFFICES ASSUME LoopInv, [Next]_vars, Return PROVE streak' = Hysteresis
    OBVIOUS
  <2>1. CASE HandleRemoteMove
    BY <2>1, RemoteMoveCases
  <2>2. CASE det' = det
    BY <2>2
  <2>3. CASE HandleCrossing
    BY <2>3 DEF HandleCrossing
  <2>4. CASE LoopStop \/ LoopSnapHome \/ LoopTop
    BY <2>4 DEF LoopStop, LoopSnapHome, LoopTop
  <2>5. HandleRemoteMove \/ det' = det \/ HandleCrossing
        \/ LoopStop \/ LoopSnapHome \/ LoopTop
    BY DEF Next, Loop, vars, siteVars, Press, Release, MoveMouse, ChooseEdge,
           RequestSnapHome, RequestStop, Jam, Flow, Hangup, OutboxIs, PollTimeout,
           HandleIdleMove, HandleInput, Entered, Left, SnappedHome
  <2> QED BY <2>1, <2>2, <2>3, <2>4, <2>5
<1>2. LoopInv /\ [Next]_vars => [Return => streak' = Hysteresis]_vars
  BY <1>1
<1> QED BY <1>2, LoopInvariant, PTL DEF Spec, ReturnNeedsPush

(***************************************************************************)
(* The keyboard: what the hooks still have to say, and what the loop knows.*)
(***************************************************************************)
\* The event at i is about k; it is the last word on k; there is none.
Speaks(k, i) == queue[i].kind = "input" /\ queue[i].input = k
LastAt(k, i) == /\ i \in 1 .. Len(queue) /\ Speaks(k, i)
                /\ \A j \in 1 .. Len(queue) : Speaks(k, j) => j <= i
Silent(k) == \A j \in 1 .. Len(queue) : ~Speaks(k, j)

\* What the loop knows of k agrees with the hand on it.
Known(k) ==
    /\ k \in Mods => (k \in heldModsLocal <=> k \in phys)
    /\ k \in told => k \in phys
    /\ det.site = "Remote" /\ pc # "enter" /\ k \in Mods /\ k \in phys => k \in told

\* The last word on a key is true, and of a key without one the truth is known.
KeyInv(k) == \/ Silent(k) /\ Known(k)
             \/ \E i \in Nat : LastAt(k, i) /\ (queue[i].pressed <=> k \in phys)
KeyboardInv == Running /\ ~lost => \A k \in Keys : KeyInv(k)

LEMMA LastWordIs ==
    ASSUME NEW k, NEW known
    PROVE  /\ Silent(k) => (LastWord(k, k \in known) <=> k \in known)
           /\ \A i : LastAt(k, i) => (LastWord(k, k \in known) <=> queue[i].pressed)
<1> DEFINE about == {j \in 1 .. Len(queue) : queue[j].kind = "input" /\ queue[j].input \in {k}}
           c == CHOOSE i \in about : \A j \in about : j <= i
<1>1. ASSUME Silent(k) PROVE (LastWord(k, k \in known) <=> k \in known)
  <2>1. about = {}
    BY <1>1 DEF Silent, Speaks
  <2> QED BY <2>1 DEF LastWord, WordOf
<1>2. ASSUME NEW i, LastAt(k, i) PROVE (LastWord(k, k \in known) <=> queue[i].pressed)
  <2>1. i \in about /\ \A j \in about : j <= i
    BY <1>2 DEF LastAt, Speaks
  <2>2. c \in about /\ \A j \in about : j <= c
    BY <2>1
  <2>3. c = i
    <3>1. i <= c /\ c <= i /\ i \in Int /\ c \in Int
      BY <2>1, <2>2
    <3> QED BY <3>1
  <2>4. LastWord(k, k \in known) <=> queue[c].pressed
    BY <2>1 DEF LastWord, WordOf
  <2> QED BY <2>3, <2>4
<1> QED BY <1>1, <1>2

\* An event that joins the queue is the last word on its key, and leaves the
\* last word on every other key.
LEMMA CaptureSpeaks ==
    ASSUME queue \in Seq(Events), NEW ev \in Events, queue' = Append(queue, ev), NEW k
    PROVE  /\ ev.kind = "input" /\ ev.input = k
                => \E i \in Nat : LastAt(k, i)' /\ queue'[i] = ev
           /\ ~(ev.kind = "input" /\ ev.input = k) =>
                /\ Silent(k) => Silent(k)'
                /\ \A i \in Nat : LastAt(k, i) => LastAt(k, i)' /\ queue'[i] = queue[i]
<1>1. /\ Len(queue) \in Nat /\ Len(queue') = Len(queue) + 1
      /\ queue'[Len(queue) + 1] = ev
      /\ \A j \in 1 .. Len(queue) : queue'[j] = queue[j]
  OBVIOUS
<1>2. \A j \in 1 .. Len(queue) + 1 : j \in 1 .. Len(queue) \/ j = Len(queue) + 1
  BY <1>1
<1>3. ASSUME ev.kind = "input", ev.input = k
      PROVE  \E i \in Nat : LastAt(k, i)' /\ queue'[i] = ev
  <2>1. PICK i \in Nat : i = Len(queue')
    BY <1>1
  <2>2. queue'[i] = ev /\ i \in 1 .. Len(queue') /\ \A j \in 1 .. Len(queue') : j <= i
    BY <1>1, <2>1
  <2> QED BY <1>3, <2>2 DEF LastAt, Speaks
<1>4. ASSUME ~(ev.kind = "input" /\ ev.input = k), Silent(k)
      PROVE  Silent(k)'
  BY <1>1, <1>2, <1>4 DEF Silent, Speaks
<1>5. ASSUME ~(ev.kind = "input" /\ ev.input = k), NEW i \in Nat, LastAt(k, i)
      PROVE  LastAt(k, i)' /\ queue'[i] = queue[i]
  BY <1>1, <1>2, <1>5 DEF LastAt, Speaks
<1> QED BY <1>1, <1>3, <1>4, <1>5

\* An event that leaves the queue takes the last word on its key with it, or
\* leaves it one place nearer.
LEMMA PollSpeaks ==
    ASSUME queue \in Seq(Events), queue # <<>>, queue' = Tail(queue), NEW k
    PROVE  /\ Silent(k) => Silent(k)' /\ ~Speaks(k, 1)
           /\ LastAt(k, 1) => Silent(k)'
           /\ \A i \in Nat : LastAt(k, i) /\ i # 1
                => LastAt(k, i - 1)' /\ queue'[i - 1] = queue[i] /\ i - 1 \in Nat
<1>1. /\ Len(queue) \in Nat \ {0} /\ Len(queue') = Len(queue) - 1
      /\ \A j \in 1 .. Len(queue') : queue'[j] = queue[j + 1]
  OBVIOUS
<1>2. \A j \in 1 .. Len(queue') : j + 1 \in 1 .. Len(queue) /\ j + 1 # 1
  BY <1>1
<1>3. ASSUME Silent(k) PROVE Silent(k)' /\ ~Speaks(k, 1)
  BY <1>1, <1>2, <1>3 DEF Silent, Speaks
<1>4. ASSUME LastAt(k, 1) PROVE Silent(k)'
  <2>1. ASSUME NEW j \in 1 .. Len(queue'), Speaks(k, j)' PROVE FALSE
    <3>1. Speaks(k, j + 1) /\ j + 1 \in 1 .. Len(queue)
      BY <1>1, <1>2, <2>1 DEF Speaks
    <3>2. j + 1 <= 1
      BY <1>4, <3>1 DEF LastAt
    <3> QED BY <3>2
  <2> QED BY <2>1 DEF Silent
<1>5. ASSUME NEW i \in Nat, LastAt(k, i), i # 1
      PROVE  LastAt(k, i - 1)' /\ queue'[i - 1] = queue[i] /\ i - 1 \in Nat
  <2>1. i - 1 \in 1 .. Len(queue') /\ (i - 1) + 1 = i
    BY <1>1, <1>5 DEF LastAt
  <2>2. queue'[i - 1] = queue[i]
    BY <1>1, <2>1
  <2>3. ASSUME NEW j \in 1 .. Len(queue'), Speaks(k, j)' PROVE j <= i - 1
    <3>1. Speaks(k, j + 1) /\ j + 1 \in 1 .. Len(queue)
      BY <1>1, <1>2, <2>3 DEF Speaks
    <3>2. j + 1 <= i
      BY <1>5, <3>1 DEF LastAt
    <3> QED BY <3>2
  <2>4. Speaks(k, i - 1)'
    BY <1>5, <2>2 DEF LastAt, Speaks
  <2> QED BY <2>1, <2>2, <2>3, <2>4 DEF LastAt
<1> QED BY <1>3, <1>4, <1>5

\* The hand moves and the hook says so, or the queue is full.
LEMMA HookKeepsKeys ==
    ASSUME LoopInv, KeyboardInv, NEW h \in Inputs, NEW p \in BOOLEAN, NEW ev \in Events,
           ev.kind = "input", ev.input = h, ev.pressed = p,
           Capture(ev), phys' = (IF p THEN phys \cup {h} ELSE phys \ {h}),
           UNCHANGED <<siteVars, keyVars, pc>>
    PROVE  KeyboardInv'
<1> SUFFICES ASSUME Running', ~lost', NEW k \in Keys PROVE KeyInv(k)'
  BY DEF KeyboardInv
<1>1. queue' = Append(queue, ev) /\ ~lost /\ Running /\ queue \in Seq(Events)
  BY DEF Capture, Running, LoopInv, TypeOK, Events
<1>2. KeyInv(k)
  BY <1>1 DEF KeyboardInv
<1>3. CASE k = h
  <2>1. PICK i \in Nat : LastAt(k, i)' /\ queue'[i].pressed = p
    BY <1>1, <1>3, CaptureSpeaks
  <2>2. k \in phys' <=> p
    BY <1>3
  <2> QED BY <2>1, <2>2 DEF KeyInv
<1>4. CASE k # h
  <2>1. k \in phys' <=> k \in phys
    BY <1>4
  <2>2. CASE Silent(k) /\ Known(k)
    <3>1. Silent(k)'
      BY <1>1, <1>4, <2>2, CaptureSpeaks
    <3>2. Known(k)'
      BY <2>1, <2>2 DEF Known, siteVars, keyVars
    <3> QED BY <3>1, <3>2 DEF KeyInv
  <2>3. ASSUME NEW i \in Nat, LastAt(k, i), queue[i].pressed <=> k \in phys PROVE KeyInv(k)'
    <3>1. LastAt(k, i)' /\ queue'[i] = queue[i]
      BY <1>1, <1>4, <2>3, CaptureSpeaks
    <3> QED BY <2>1, <2>3, <3>1 DEF KeyInv
  <2> QED BY <1>2, <2>2, <2>3 DEF KeyInv
<1> QED BY <1>3, <1>4

\* The loop takes an event: what the queue says of other keys stays, and of
\* the event's key the loop knows what it said, unless there is more to come.
LEMMA PollKeepsKeys ==
    ASSUME LoopInv, KeyboardInv, Poll, NEW k \in Keys, Running, ~lost,
           Silent(k) /\ Known(k) => Known(k)',
           LastAt(k, 1) /\ (queue[1].pressed <=> k \in phys) => Known(k)'
    PROVE  KeyInv(k)'
<1>1. queue \in Seq(Events) /\ queue # <<>> /\ queue' = Tail(queue) /\ phys' = phys
  BY DEF Poll, LoopInv, TypeOK, Events
<1>2. KeyInv(k)
  BY DEF KeyboardInv
<1>3. CASE Silent(k) /\ Known(k)
  BY <1>1, <1>3, PollSpeaks DEF KeyInv
<1>4. CASE LastAt(k, 1) /\ (queue[1].pressed <=> k \in phys)
  BY <1>1, <1>4, PollSpeaks DEF KeyInv
<1>5. ASSUME NEW i \in Nat, LastAt(k, i), queue[i].pressed <=> k \in phys, i # 1
      PROVE  KeyInv(k)'
  BY <1>1, <1>5, PollSpeaks DEF KeyInv
<1> QED BY <1>2, <1>3, <1>4, <1>5 DEF KeyInv

LEMMA InputKeepsKeys ==
    ASSUME LoopInv, KeyboardInv, HandleInput, Running, ~lost
    PROVE  \A k \in Keys : KeyInv(k)'
<1> SUFFICES ASSUME NEW k \in Keys PROVE KeyInv(k)'
  OBVIOUS
<1> DEFINE h == Head(queue).input
           p == Head(queue).pressed
<1>1. /\ Poll /\ Head(queue).kind = "input" /\ det' = det /\ phys' = phys
      /\ queue # <<>> /\ Head(queue) = queue[1] /\ p \in BOOLEAN /\ pc = "poll"
      /\ queue \in Seq(Events) /\ queue' = Tail(queue)
  BY PollType DEF HandleInput, Poll, siteVars, LoopInv, TypeOK, Events
<1>2. /\ heldModsLocal' = IF h \in Mods THEN Track(heldModsLocal, h, p) ELSE heldModsLocal
      /\ told' = IF det.site = "Remote" /\ ~IsChord(h, p) THEN Track(told, h, p) ELSE told
  BY DEF HandleInput
<1>3. det.site \in {"Local", "Remote"} /\ (det.site = "Local" => k \notin told)
  BY DEF LoopInv, TypeOK, Detector, HeldIsWhatWasTold
<1>4. ASSUME Silent(k), Known(k) PROVE Known(k)'
  <2>1. k # h
    BY <1>1, <1>4, PollSpeaks DEF Speaks
  <2> QED BY <1>1, <1>2, <1>4, <2>1 DEF Known, Track
<1>5. ASSUME LastAt(k, 1), queue[1].pressed <=> k \in phys PROVE Known(k)'
  <2>1. k = h /\ (p <=> k \in phys)
    BY <1>1, <1>5 DEF LastAt, Speaks
  <2>2. k \in Mods => (k \in heldModsLocal' <=> p)
    BY <1>2, <2>1 DEF Track
  <2>3. CASE det.site = "Remote" /\ ~IsChord(h, p)
    <3>1. k \in told' <=> p
      BY <1>2, <2>1, <2>3 DEF Track
    <3> QED BY <1>1, <2>1, <2>2, <3>1 DEF Known
  <2>4. CASE det.site = "Remote" /\ IsChord(h, p)
    <3>1. p /\ k \notin Mods
      BY <2>1, <2>4, KeysAssumption DEF IsChord
    <3> QED BY <1>1, <2>1, <2>2, <3>1 DEF Known
  <2>5. CASE det.site = "Local"
    BY <1>1, <1>2, <1>3, <2>1, <2>2, <2>5 DEF Known
  <2> QED BY <1>3, <2>3, <2>4, <2>5
<1> QED BY <1>1, <1>4, <1>5, PollKeepsKeys

\* A motion, whatever it does to the site.
LEMMA MotionKeepsKeys ==
    ASSUME LoopInv, KeyboardInv, Running, ~lost,
           HandleIdleMove \/ HandleCrossing \/ HandleRemoteMove
    PROVE  \A k \in Keys : KeyInv(k)'
<1> SUFFICES ASSUME NEW k \in Keys PROVE KeyInv(k)'
  OBVIOUS
<1>1. /\ Poll /\ Head(queue).kind = "move" /\ Head(queue) = queue[1] /\ phys' = phys
      /\ pc = "poll" /\ heldModsLocal' = heldModsLocal
  BY DEF HandleIdleMove, HandleCrossing, HandleRemoteMove, Poll, keyVars, LoopInv, TypeOK
<1>2. ~LastAt(k, 1)
  BY <1>1 DEF LastAt, Speaks
<1>3. ASSUME Known(k) PROVE Known(k)'
  <2>1. CASE HandleIdleMove
    BY <1>1, <1>3, <2>1 DEF HandleIdleMove, siteVars, keyVars, Known
  <2>2. CASE HandleCrossing
    <3>1. pc' = "enter" /\ told' = told
      BY <2>2 DEF HandleCrossing, keyVars
    <3> QED BY <1>1, <1>3, <3>1 DEF Known
  <2>3. CASE HandleRemoteMove
    <3>1. det'.site = "Local" \/ (UNCHANGED told /\ det.site = "Remote")
      BY <2>3 DEF HandleRemoteMove
    <3>2. CASE det'.site = "Local"
      <4>1. told' \subseteq told
        BY <2>3, <3>2 DEF HandleRemoteMove, ReleaseHeld
      <4> QED BY <1>1, <1>3, <3>2, <4>1 DEF Known
    <3> QED BY <1>1, <1>3, <3>1, <3>2 DEF Known
  <2> QED BY <2>1, <2>2, <2>3
<1> QED BY <1>1, <1>2, <1>3, PollKeepsKeys

\* The rest of a turn leaves queue and keyboard alone.
LEMMA TurnKeepsKeys ==
    ASSUME LoopInv, KeyboardInv, Running, ~lost, UNCHANGED <<phys, queue, heldModsLocal>>,
           \/ UNCHANGED told /\ det'.site = det.site /\ (pc = "enter" => pc' = "enter")
           \/ told' \subseteq told /\ det'.site = "Local"
    PROVE  \A k \in Keys : KeyInv(k)'
<1> SUFFICES ASSUME NEW k \in Keys PROVE KeyInv(k)'
  OBVIOUS
<1>1. KeyInv(k)
  BY DEF KeyboardInv
<1>2. Known(k) => Known(k)'
  BY DEF Known
<1>3. Silent(k) => Silent(k)'
  BY DEF Silent, Speaks
<1>4. \A i \in Nat : LastAt(k, i) => LastAt(k, i)'
  BY DEF LastAt, Speaks
<1> QED BY <1>1, <1>2, <1>3, <1>4 DEF KeyInv

\* The seeding: the peer is told of every modifier the loop knows.
LEMMA EnteringKeepsKeys ==
    ASSUME LoopInv, KeyboardInv, Entered, Running, ~lost
    PROVE  \A k \in Keys : KeyInv(k)'
<1> SUFFICES ASSUME NEW k \in Keys PROVE KeyInv(k)'
  OBVIOUS
<1>1. UNCHANGED <<phys, queue, heldModsLocal, det>>
  BY DEF Entered, userVars
<1>2. KeyInv(k)
  BY DEF KeyboardInv
<1>3. Known(k) => Known(k)'
  <2>1. k \notin told /\ k \notin heldRemote
    BY DEF Entered, LoopInv, HeldIsWhatWasTold
  <2>2. k \in told' <=> k \in heldModsLocal
    BY <2>1 DEF Entered
  <2>3. k \in heldModsLocal => k \in Mods
    BY DEF LoopInv, TypeOK
  <2> QED BY <1>1, <2>2, <2>3 DEF Known
<1>4. Silent(k) => Silent(k)'
  BY <1>1 DEF Silent, Speaks
<1>5. \A i \in Nat : LastAt(k, i) => LastAt(k, i)'
  BY <1>1 DEF LastAt, Speaks
<1> QED BY <1>1, <1>2, <1>3, <1>4, <1>5 DEF KeyInv

LEMMA StepKeepsKeys == LoopInv /\ KeyboardInv /\ [Next]_vars => KeyboardInv'
<1> SUFFICES ASSUME LoopInv, KeyboardInv, [Next]_vars PROVE KeyboardInv'
  OBVIOUS
<1>0. det \in Detector /\ edgeShared \in AllEdges
  BY EdgesAssumption DEF LoopInv, TypeOK
<1>1. ASSUME NEW h \in Inputs, Press(h) PROVE KeyboardInv'
  <2> DEFINE ev == [kind |-> "input", input |-> h, pressed |-> TRUE, eaten |-> suppress]
  <2>1. /\ ev \in Events /\ ev.kind = "input" /\ ev.input = h /\ ev.pressed = TRUE
    BY DEF Events, InputEvent, LoopInv, TypeOK
  <2>2. /\ Capture(ev) /\ UNCHANGED <<siteVars, keyVars, pc>>
        /\ phys' = IF TRUE THEN phys \cup {h} ELSE phys \ {h}
    BY <1>1 DEF Press
  <2> HIDE DEF ev
  <2> QED BY <2>1, <2>2, HookKeepsKeys
<1>2. ASSUME NEW h \in Inputs, Release(h) PROVE KeyboardInv'
  <2> DEFINE ev == [kind |-> "input", input |-> h, pressed |-> FALSE, eaten |-> suppress]
  <2>1. /\ ev \in Events /\ ev.kind = "input" /\ ev.input = h /\ ev.pressed = FALSE
    BY DEF Events, InputEvent, LoopInv, TypeOK
  <2>2. /\ Capture(ev) /\ UNCHANGED <<siteVars, keyVars, pc>>
        /\ phys' = IF FALSE THEN phys \cup {h} ELSE phys \ {h}
    BY <1>2 DEF Release
  <2> HIDE DEF ev
  <2> QED BY <2>1, <2>2, HookKeepsKeys
<1>3. ASSUME NEW m \in Motions, MoveMouse(m) PROVE KeyboardInv'
  <2> SUFFICES ASSUME Running', ~lost', NEW k \in Keys PROVE KeyInv(k)'
    BY DEF KeyboardInv
  <2> DEFINE ev == [kind |-> "move", move |-> m]
  <2>1. /\ queue' = Append(queue, ev) /\ ev \in Events /\ queue \in Seq(Events)
        /\ phys' = phys /\ KeyInv(k) /\ ev.kind # "input"
    BY <1>3 DEF MoveMouse, Capture, Events, MoveEvent, LoopInv, TypeOK, KeyboardInv, Running
  <2>2. Known(k) => Known(k)'
    BY <1>3 DEF MoveMouse, Known, siteVars, keyVars
  <2>3. Silent(k) => Silent(k)'
    BY <2>1, CaptureSpeaks
  <2>4. \A i \in Nat : LastAt(k, i) => LastAt(k, i)' /\ queue'[i] = queue[i]
    BY <2>1, CaptureSpeaks
  <2> QED BY <2>1, <2>2, <2>3, <2>4 DEF KeyInv
<1>4. CASE HandleInput
  <2>1. lost' = lost /\ Running
    BY <1>4 DEF HandleInput, Poll, Running
  <2> QED BY <1>4, <2>1, InputKeepsKeys DEF KeyboardInv
<1>5. CASE HandleIdleMove \/ HandleCrossing \/ HandleRemoteMove
  <2>1. lost' = lost /\ Running
    BY <1>5 DEF HandleIdleMove, HandleCrossing, HandleRemoteMove, Poll, Running
  <2> QED BY <1>5, <2>1, MotionKeepsKeys DEF KeyboardInv
<1>6. CASE LoopStop
  BY <1>6 DEF LoopStop, KeyboardInv, Running
<1>7. CASE LoopSnapHome
  <2>1. det'.site = "Local"
    BY <1>0, <1>7, DetectorMoves DEF LoopSnapHome
  <2>2. /\ UNCHANGED <<phys, queue, lost, heldModsLocal>> /\ told' \subseteq told
        /\ Running
    BY <1>7 DEF LoopSnapHome, ReleaseHeld, userVars, Running
  <2> QED BY <2>1, <2>2, TurnKeepsKeys DEF KeyboardInv
<1>8. CASE LoopTop
  <2>1. det'.site = det.site
    BY <1>0, <1>8, DetectorMoves DEF LoopTop
  <2>2. UNCHANGED <<phys, queue, lost, heldModsLocal, told>> /\ pc = "top" /\ Running
    BY <1>8 DEF LoopTop, userVars, keyVars, Running
  <2> QED BY <2>1, <2>2, TurnKeepsKeys DEF KeyboardInv
<1>9. CASE \/ PollTimeout \/ UNCHANGED vars \/ RequestSnapHome \/ RequestStop
           \/ Jam \/ Flow \/ Hangup \/ Left \/ SnappedHome
           \/ \E e \in Edges : ChooseEdge(e)
  <2>1. /\ UNCHANGED <<phys, queue, lost, heldModsLocal, told, det>>
        /\ pc = "enter" => pc' = "enter"
        /\ Running' => Running
    BY <1>9 DEF PollTimeout, RequestSnapHome, RequestStop, ChooseEdge, Jam, Flow, Hangup,
                OutboxIs, Left, SnappedHome, vars, userVars, siteVars, keyVars, Running
  <2> QED BY <2>1, TurnKeepsKeys DEF KeyboardInv
<1>10. CASE Entered
  <2>1. lost' = lost /\ Running
    BY <1>10 DEF Entered, userVars, Running
  <2> QED BY <1>10, <2>1, EnteringKeepsKeys DEF KeyboardInv
<1> QED BY <1>1, <1>2, <1>3, <1>4, <1>5, <1>6, <1>7, <1>8, <1>9, <1>10 DEF Next, Loop

LEMMA KeyboardInvHolds == Spec => []KeyboardInv
<1>1. Init => KeyboardInv
  BY DEF Init, KeyboardInv, KeyInv, Silent, Known
<1> QED BY <1>1, StepKeepsKeys, LoopInvariant, PTL DEF Spec

\* Unless an event was dropped, the loop's view of the modifiers with the queue
\* applied is the user's hand.
THEOREM ModifiersAreTracked == Spec => []ModifiersTracked
<1>1. LoopInv /\ KeyboardInv => ModifiersTracked
  <2> SUFFICES ASSUME LoopInv, KeyboardInv, Running, ~lost, NEW k \in Mods
               PROVE  LastWord(k, k \in heldModsLocal) <=> k \in phys
    BY DEF ModifiersTracked
  <2>1. KeyInv(k)
    BY KeysAssumption DEF KeyboardInv
  <2>2. CASE Silent(k) /\ Known(k)
    BY <2>2, LastWordIs DEF Known
  <2>3. ASSUME NEW i \in Nat, LastAt(k, i), queue[i].pressed <=> k \in phys
        PROVE  LastWord(k, k \in heldModsLocal) <=> k \in phys
    BY <2>3, LastWordIs
  <2> QED BY <2>1, <2>2, <2>3 DEF KeyInv
<1> QED BY <1>1, LoopInvariant, KeyboardInvHolds, PTL

\* Unless an event was dropped, the peer has been told, once the queue is
\* handled, of all modifiers the user holds and of no key that is up.
THEOREM RemoteKeyboardIsTrue == Spec => []RemoteMirrorsKeyboard
<1>1. LoopInv /\ KeyboardInv => RemoteMirrorsKeyboard
  <2> SUFFICES ASSUME LoopInv, KeyboardInv, Running, ~lost, det.site = "Remote",
                      pc # "enter", NEW k \in Keys
               PROVE  /\ LastWord(k, k \in told) => k \in phys
                      /\ k \in Mods /\ k \in phys => LastWord(k, k \in told)
    BY KeysAssumption DEF RemoteMirrorsKeyboard
  <2>1. KeyInv(k)
    BY DEF KeyboardInv
  <2>2. CASE Silent(k) /\ Known(k)
    BY <2>2, LastWordIs DEF Known
  <2>3. ASSUME NEW i \in Nat, LastAt(k, i), queue[i].pressed <=> k \in phys
        PROVE  LastWord(k, k \in told) <=> k \in phys
    BY <2>3, LastWordIs
  <2> QED BY <2>1, <2>2, <2>3 DEF KeyInv
<1> QED BY <1>1, LoopInvariant, KeyboardInvHolds, PTL

(***************************************************************************)
(* The loop implements the abstract handover.                              *)
(***************************************************************************)
\* An input the loop handles is noted, passed on, or none of the peer's keys.
LEMMA InputIsHandover ==
    ASSUME LoopInv, HandleInput
    PROVE  Promise!Next \/ UNCHANGED Promise!vars
<1> DEFINE k == Head(queue).input
           pressed == Head(queue).pressed
<1>1. /\ TypeOK /\ Poll /\ Head(queue).kind = "input" /\ det' = det
      /\ pc = "poll" /\ pc' = "top"
  BY DEF LoopInv, HandleInput, Poll, siteVars
<1>2. k \in Inputs /\ pressed \in BOOLEAN /\ det.site \in {"Local", "Remote"}
  BY <1>1, PollType DEF TypeOK, Detector
<1>3. /\ heldModsLocal' = IF k \in Mods THEN Track(heldModsLocal, k, pressed)
                                        ELSE heldModsLocal
      /\ heldRemote' = IF (det.site = "Remote" /\ ~IsChord(k, pressed)) /\ k \in Keys
                         THEN Track(heldRemote, k, pressed) ELSE heldRemote
  BY DEF HandleInput
<1> HIDE DEF k, pressed
<1>4. CASE det.site = "Local" /\ k \in Mods
  <2>1. Promise!Note(k, pressed)
    BY <1>1, <1>3, <1>4 DEF Promise!Note, Promise!With, Track
  <2> QED BY <1>2, <1>4, <2>1 DEF Promise!Next
<1>5. CASE det.site = "Remote" /\ k \in Keys /\ ~IsChord(k, pressed)
  <2>1. Promise!Pass(k, pressed)
    BY <1>1, <1>3, <1>5 DEF Promise!Pass, Promise!With, Track
  <2> QED BY <1>2, <1>5, <2>1 DEF Promise!Next
<1>6. CASE /\ ~(det.site = "Local" /\ k \in Mods)
           /\ ~(det.site = "Remote" /\ k \in Keys /\ ~IsChord(k, pressed))
  <2>1. k \notin Mods
    BY <1>2, <1>6, KeysAssumption DEF IsChord
  <2>2. heldModsLocal' = heldModsLocal /\ heldRemote' = heldRemote
    BY <1>3, <1>6, <2>1
  <2> QED BY <1>1, <2>2 DEF Promise!vars
<1> QED BY <1>4, <1>5, <1>6

\* Hooks, queue, flags, detector and chord together implement Handover: every
\* relayed key is recorded, every crossing seeds exactly the modifiers held,
\* and every way home leaves nothing recorded.
THEOREM LoopImplementsHandover == Spec => ImplementsHandover
<1>1. Init => Promise!Init
  BY DEF Init, NewDetector, Promise!Init
<1>2. LoopInv /\ [Next]_vars => [Promise!Next]_(Promise!vars)
  <2> SUFFICES ASSUME LoopInv, [Next]_vars
               PROVE  Promise!Next \/ UNCHANGED Promise!vars
    OBVIOUS
  <2>0. /\ det \in Detector /\ edgeShared \in AllEdges
        /\ det.site = "Local" \/ pc = "enter" => heldRemote = {}
        /\ pc = "enter" => det.site = "Remote"
    BY EdgesAssumption DEF LoopInv, TypeOK, HeldIsWhatWasTold, SuppressionFollowsSite
  <2>1. ASSUME HandleCrossing PROVE UNCHANGED Promise!vars
    BY <2>1 DEF HandleCrossing, Poll, keyVars, Promise!vars
  <2>9. ASSUME Entered PROVE Promise!Next
    <3>1. pc = "enter" /\ pc' = "top" /\ det' = det /\ det.site = "Remote"
      BY <2>0, <2>9 DEF Entered
    <3>2. heldRemote' = heldModsLocal /\ heldModsLocal' = heldModsLocal
      BY <2>0, <2>9, <3>1 DEF Entered
    <3> QED BY <3>1, <3>2 DEF Promise!Leave, Promise!Next
  <2>2. ASSUME LoopSnapHome PROVE Promise!Next
    <3>1. det.site = "Remote" /\ det'.site = "Local"
      BY <2>0, <2>2, DetectorMoves DEF LoopSnapHome
    <3> QED BY <2>2, <3>1 DEF LoopSnapHome, ReleaseHeld, Promise!Return, Promise!Next
  <2>3. ASSUME HandleRemoteMove, det'.site = "Local" PROVE Promise!Next
    BY <2>3 DEF HandleRemoteMove, Poll, ReleaseHeld, Promise!Return, Promise!Next
  <2>4. ASSUME HandleRemoteMove, det'.site # "Local" PROVE UNCHANGED Promise!vars
    <3>1. det' \in Detector
      BY <2>4, RemoteMoveCases
    <3>2. det'.site = det.site
      BY <2>4, <3>1 DEF HandleRemoteMove, Detector
    <3> QED BY <2>4, <3>2 DEF HandleRemoteMove, Poll, Promise!vars
  <2>5. ASSUME LoopTop PROVE UNCHANGED Promise!vars
    BY <2>0, <2>5, DetectorMoves DEF LoopTop, keyVars, Promise!vars
  <2>6. CASE LoopStop \/ PollTimeout \/ HandleIdleMove \/ Left \/ SnappedHome
    BY <2>6 DEF LoopStop, PollTimeout, HandleIdleMove, Poll, Left, SnappedHome,
                keyVars, siteVars, Promise!vars
  <2>7. CASE \/ \E k \in Inputs : Press(k) \/ Release(k)
             \/ \E m \in Motions : MoveMouse(m)
             \/ \E e \in Edges : ChooseEdge(e)
             \/ RequestSnapHome \/ RequestStop \/ Jam \/ Flow \/ Hangup
    BY <2>7 DEF Press, Release, MoveMouse, ChooseEdge, RequestSnapHome, RequestStop,
                Jam, Flow, Hangup, OutboxIs, keyVars, siteVars, Promise!vars
  <2>8. CASE UNCHANGED vars
    BY <2>8 DEF vars, keyVars, siteVars, Promise!vars
  <2> QED BY <2>1, <2>2, <2>3, <2>4, <2>5, <2>6, <2>7, <2>8, <2>9,
             InputIsHandover DEF Next, Loop
<1> QED BY <1>1, <1>2, LoopInvariant, PTL DEF Spec, ImplementsHandover, Promise!Spec
=============================================================================
