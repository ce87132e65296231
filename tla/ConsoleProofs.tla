--------------------------- MODULE ConsoleProofs ----------------------------
(***************************************************************************)
(* For any number of peers and sessions and any capacity of the queues: no *)
(* interleaving of window, dispatcher and session leaves the session of an *)
(* unpaired peer without the Disconnect that ends it, or a session sharing *)
(* the screen with a peer the window says it is not shared with, unless    *)
(* the window dropped a command; and a row that will say connected has a   *)
(* session that is.                                                        *)
(***************************************************************************)
EXTENDS Console, FiniteSetTheorems, SequenceTheorems, TLAPS

(***************************************************************************)
(* What stays in a queue.                                                  *)
(***************************************************************************)
LEMMA HasAppended ==
    ASSUME NEW S, NEW s \in Seq(S), NEW y \in S
    PROVE  /\ Append(s, y) \in Seq(S) /\ Len(Append(s, y)) = Len(s) + 1
           /\ Has(Append(s, y), y)
           /\ \A x : Has(s, x) => Has(Append(s, y), x)
<1>1. Append(s, y) \in Seq(S) /\ Len(Append(s, y)) = Len(s) + 1
  OBVIOUS
<1>2. Append(s, y)[Len(s) + 1] = y /\ \A n \in 1 .. Len(s) : Append(s, y)[n] = s[n]
  OBVIOUS
<1>3. DOMAIN s = 1 .. Len(s) /\ DOMAIN Append(s, y) = 1 .. Len(s) + 1 /\ Len(s) \in Nat
  OBVIOUS
<1> QED BY <1>1, <1>2, <1>3 DEF Has

LEMMA HasJoined ==
    ASSUME NEW S, NEW s \in Seq(S), NEW t \in Seq(S), NEW x, Has(s, x)
    PROVE  Has(s \o t, x)
<1>1. DOMAIN s \subseteq DOMAIN (s \o t) /\ \A n \in DOMAIN s : (s \o t)[n] = s[n]
  OBVIOUS
<1> QED BY <1>1 DEF Has

LEMMA HasRemaining ==
    ASSUME NEW S, NEW s \in Seq(S), s # <<>>
    PROVE  /\ Head(s) \in S /\ Tail(s) \in Seq(S) /\ Len(Tail(s)) = Len(s) - 1
           /\ \A x : Has(s, x) /\ Head(s) # x => Has(Tail(s), x)
<1>1. Head(s) \in S /\ Tail(s) \in Seq(S) /\ Len(Tail(s)) = Len(s) - 1 /\ Head(s) = s[1]
  OBVIOUS
<1>2. \A n \in 1 .. Len(s) - 1 : Tail(s)[n] = s[n + 1]
  OBVIOUS
<1>3. ASSUME NEW x, NEW n \in DOMAIN s, s[n] = x, Head(s) # x PROVE Has(Tail(s), x)
  <2>1. n - 1 \in 1 .. Len(s) - 1 /\ n \in Nat
    BY <1>1, <1>3
  <2>2. Tail(s)[n - 1] = s[n]
    BY <1>2, <2>1
  <2>3. n - 1 \in DOMAIN Tail(s)
    BY <1>1, <2>1
  <2> QED BY <1>3, <2>2, <2>3 DEF Has
<1> QED BY <1>1, <1>3 DEF Has

(***************************************************************************)
(* Types.                                                                  *)
(***************************************************************************)
LEMMA CommandType ==
    ASSUME NEW op \in Ops, NEW to \in Peers \cup {NoPeer}
    PROVE  Command(op, to) \in Commands
BY DEF Command, Commands

\* What posting a command does.
LEMMA PostType ==
    ASSUME TypeOK, NEW cmd \in Commands, Post(cmd)
    PROVE  /\ cmds' \in Seq(Commands) /\ Len(cmds') <= QueueCap /\ dropped' \in BOOLEAN
           /\ \A x : Has(cmds, x) => Has(cmds', x)
           /\ dropped => dropped'
           /\ dropped' \/ Has(cmds', cmd)
<1>1. CASE Len(cmds) < QueueCap
  <2>1. cmds' = Append(cmds, cmd) /\ dropped' = dropped /\ cmds \in Seq(Commands)
    BY <1>1 DEF Post, TypeOK
  <2> QED BY <1>1, <2>1, HasAppended, CapsAssumption DEF TypeOK
<1>2. CASE ~(Len(cmds) < QueueCap)
  BY <1>2 DEF Post, TypeOK
<1> QED BY <1>1, <1>2

\* Reporting keeps the queue of events well formed.
LEMMA ReportType ==
    ASSUME TypeOK, NEW reports \in Seq(Events), Report(reports)
    PROVE  events' \in Seq(Events) /\ Len(events') <= EventCap
<1>1. events \in Seq(Events)
  BY DEF TypeOK
<1>2. events \o reports \in Seq(Events)
      /\ Len(events \o reports) = Len(events) + Len(reports)
  BY <1>1
<1> QED BY <1>2 DEF Report

LEMMA EventType ==
    ASSUME NEW fp \in Peers, NEW what \in {"Pairing", "Connected", "Disconnected", "Prompt", "Result"}
    PROVE  Event(fp, what) \in Events
BY DEF Event, Events

LEMMA IdleType == Idle \in [cmd : Commands, left : SUBSET Sessions]
BY DEF Idle, Command, Commands, Ops

LEMMA RoutingType ==
    ASSUME NEW cmd \in Commands, NEW left \in SUBSET Sessions
    PROVE  /\ Routing(cmd, left) \in [cmd : Commands, left : SUBSET Sessions]
           /\ Routing(cmd, left).left = left
           /\ left # {} => Routing(cmd, left).cmd = cmd
BY IdleType DEF Routing, Idle

\* What the end of a session leaves.
LEMMA LeaveType ==
    ASSUME TypeOK, NEW i \in Sessions, Leave(i)
    PROVE  /\ task' \in [Sessions -> Task] /\ inbox' \in [Sessions -> Seq(Ops)]
           /\ \A j \in Sessions : Len(inbox'[j]) <= InboxCap
           /\ task'[i].phase = "ended"
           /\ \A j \in Sessions \ {i} : task'[j] = task[j] /\ inbox'[j] = inbox[j]
<1>1. /\ task \in [Sessions -> Task] /\ inbox \in [Sessions -> Seq(Ops)]
      /\ \A j \in Sessions : Len(inbox[j]) <= InboxCap
  BY DEF TypeOK
<1>2. task' = [task EXCEPT ![i].phase = "ended", ![i].mirror = FALSE]
      /\ inbox' = [inbox EXCEPT ![i] = <<>>]
  BY DEF Leave
<1>3. task' \in [Sessions -> Task] /\ task'[i].phase = "ended"
      /\ \A j \in Sessions \ {i} : task'[j] = task[j]
  BY <1>1, <1>2 DEF Task, Phases
<1>4. <<>> \in Seq(Ops) /\ Len(<<>>) <= InboxCap
  BY CapsAssumption
<1>5. inbox' \in [Sessions -> Seq(Ops)] /\ inbox'[i] = <<>>
      /\ \A j \in Sessions \ {i} : inbox'[j] = inbox[j]
  BY <1>1, <1>2, <1>4
<1> QED BY <1>1, <1>3, <1>4, <1>5

\* Taking a command from an inbox.
LEMMA TakeType ==
    ASSUME TypeOK, NEW i \in Sessions, inbox[i] # <<>>,
           inbox' = [inbox EXCEPT ![i] = Tail(@)]
    PROVE  /\ Head(inbox[i]) \in Ops
           /\ inbox' \in [Sessions -> Seq(Ops)]
           /\ \A j \in Sessions : Len(inbox'[j]) <= InboxCap
           /\ \A j \in Sessions \ {i} : inbox'[j] = inbox[j]
           /\ \A x : Has(inbox[i], x) /\ Head(inbox[i]) # x => Has(inbox'[i], x)
<1>1. /\ inbox \in [Sessions -> Seq(Ops)] /\ inbox[i] \in Seq(Ops)
      /\ \A j \in Sessions : Len(inbox[j]) <= InboxCap
  BY DEF TypeOK
<1>2. /\ Head(inbox[i]) \in Ops /\ Tail(inbox[i]) \in Seq(Ops)
      /\ Len(Tail(inbox[i])) = Len(inbox[i]) - 1
      /\ \A x : Has(inbox[i], x) /\ Head(inbox[i]) # x => Has(Tail(inbox[i]), x)
  BY <1>1, HasRemaining
<1>3. inbox'[i] = Tail(inbox[i]) /\ \A j \in Sessions \ {i} : inbox'[j] = inbox[j]
  BY <1>1
<1>4. inbox' \in [Sessions -> Seq(Ops)]
  BY <1>1, <1>2
<1>5. Len(inbox'[i]) <= InboxCap
  BY <1>1, <1>2, <1>3, CapsAssumption
<1> QED BY <1>1, <1>2, <1>3, <1>4, <1>5

LEMMA InitType == Init => TypeOK
<1> SUFFICES ASSUME Init PROVE TypeOK
  OBVIOUS
<1>1. task \in [Sessions -> Task] /\ inbox \in [Sessions -> Seq(Ops)]
      /\ \A i \in Sessions : Len(inbox[i]) <= InboxCap
  BY CapsAssumption DEF Init, Task, Phases
<1>2. cmds \in Seq(Commands) /\ Len(cmds) <= QueueCap /\ events \in Seq(Events)
      /\ Len(events) <= EventCap
  BY CapsAssumption, BoundsAssumption DEF Init
<1>3. routing \in [cmd : Commands, left : SUBSET Sessions]
  BY IdleType DEF Init
<1>4. trust \subseteq Peers /\ sharing \subseteq Peers /\ prompt \in Peers \cup {NoPeer}
  BY DEF Init
<1>5. rows \in [Peers -> {"none", "Pairing", "Connected", "Disconnected"}]
  BY DEF Init
<1>6. clicks \in 0 .. MaxClicks
  BY BoundsAssumption DEF Init
<1>7. dropped \in BOOLEAN
  BY DEF Init
<1> QED BY <1>1, <1>2, <1>3, <1>4, <1>5, <1>6, <1>7 DEF TypeOK

\* A click changes what the window says and posts commands, and no more.
Clicked ==
    /\ cmds' \in Seq(Commands) /\ Len(cmds') <= QueueCap /\ dropped' \in BOOLEAN
    /\ \A x : Has(cmds, x) => Has(cmds', x)
    /\ dropped => dropped'
    /\ UNCHANGED <<routing, task, inbox, events, rows, prompt>>
    /\ sharing' \subseteq Peers /\ clicks' \in 0 .. MaxClicks

LEMMA ClickType == TypeOK /\ Window => Clicked /\ trust' \subseteq trust
<1> SUFFICES ASSUME TypeOK, Window PROVE Clicked /\ trust' \subseteq trust
  OBVIOUS
<1>1. Click => clicks' \in 0 .. MaxClicks
  BY BoundsAssumption DEF TypeOK, Click
<1>2. CASE ClickControl \/ ClickSnapHome
  <2>1. \E op \in Ops : Post(Command(op, NoPeer))
    BY <1>2 DEF ClickControl, ClickSnapHome, Ops
  <2>2. PICK cmd \in Commands : Post(cmd)
    BY <2>1, CommandType
  <2>3. /\ cmds' \in Seq(Commands) /\ Len(cmds') <= QueueCap /\ dropped' \in BOOLEAN
        /\ \A x : Has(cmds, x) => Has(cmds', x)
        /\ dropped => dropped'
    BY <2>2, PostType
  <2> QED BY <1>1, <1>2, <2>3 DEF ClickControl, ClickSnapHome, Clicked, TypeOK, windowVars
<1>3. CASE ClickPrompt
  <2>1. \E op \in Ops : Post(Command(op, prompt))
    BY <1>3 DEF ClickPrompt, Ops
  <2>2. PICK cmd \in Commands : Post(cmd)
    BY <2>1, CommandType DEF TypeOK
  <2>3. /\ cmds' \in Seq(Commands) /\ Len(cmds') <= QueueCap /\ dropped' \in BOOLEAN
        /\ \A x : Has(cmds, x) => Has(cmds', x)
        /\ dropped => dropped'
    BY <2>2, PostType
  <2> QED BY <1>1, <1>3, <2>3 DEF ClickPrompt, Clicked, TypeOK, windowVars
<1>4. ASSUME NEW p \in Peers, ClickShare(p) \/ ClickStopSharing(p) \/ ClickUnpair(p)
      PROVE  Clicked /\ trust' \subseteq trust
  <2>1. \E op \in Ops : Post(Command(op, p))
    BY <1>4 DEF ClickShare, ClickStopSharing, ClickUnpair, Ops
  <2>2. PICK cmd \in Commands : Post(cmd)
    BY <2>1, CommandType
  <2>3. /\ cmds' \in Seq(Commands) /\ Len(cmds') <= QueueCap /\ dropped' \in BOOLEAN
        /\ \A x : Has(cmds, x) => Has(cmds', x)
        /\ dropped => dropped'
    BY <2>2, PostType
  <2> QED BY <1>1, <1>4, <2>3 DEF ClickShare, ClickStopSharing, ClickUnpair, Clicked,
          TypeOK
<1>5. CASE ClickApply
  <2>a. PICK attempts \in SUBSET {NoPeer} :
          LET known == {p \in Peers : rows[p] # "none"} \cup attempts
              room == QueueCap - Len(cmds)
          IN  \E order \in [1 .. Cardinality(known) -> known] :
                LET pokes == [n \in 1 .. Cardinality(known) |-> Command("Poke", order[n])]
                IN  /\ known = {order[n] : n \in 1 .. Cardinality(known)}
                    /\ IF Cardinality(known) <= room
                         THEN cmds' = cmds \o pokes /\ UNCHANGED dropped
                         ELSE cmds' = cmds \o SubSeq(pokes, 1, room) /\ dropped' = TRUE
    BY <1>5 DEF ClickApply
  <2> DEFINE known == {p \in Peers : rows[p] # "none"} \cup attempts
             room == QueueCap - Len(cmds)
             pokes(order) == [n \in 1 .. Cardinality(known) |-> Command("Poke", order[n])]
  <2>1. cmds \in Seq(Commands) /\ room \in Nat
    BY CapsAssumption DEF TypeOK
  <2>2. PICK order \in [1 .. Cardinality(known) -> known] :
           /\ known = {order[n] : n \in 1 .. Cardinality(known)}
           /\ IF Cardinality(known) <= room
                THEN cmds' = cmds \o pokes(order) /\ UNCHANGED dropped
                ELSE cmds' = cmds \o SubSeq(pokes(order), 1, room) /\ dropped' = TRUE
    BY <2>a
  <2>3. Cardinality(known) \in Nat
    <3>1. IsFiniteSet({p \in Peers : rows[p] # "none"}) /\ IsFiniteSet(attempts)
      BY PeersAssumption, FS_Subset, FS_Singleton
    <3>2. IsFiniteSet(known)
      BY <3>1, FS_Union
    <3> QED BY <3>2, FS_CardinalityType
  <2>4. pokes(order) \in Seq(Commands) /\ Len(pokes(order)) = Cardinality(known)
    <3> DEFINE N == Cardinality(known)
               f == pokes(order)
    <3>1. \A n \in 1 .. N : f[n] \in Commands
      BY DEF Command, Commands, Ops
    <3>2. f \in [1 .. N -> Commands] /\ DOMAIN f = 1 .. N
      BY <3>1
    <3>3. N \in Nat
      BY <2>3
    <3> HIDE DEF f, N
    <3>4. f \in Seq(Commands) /\ Len(f) = N
      BY <3>2, <3>3
    <3> QED BY <3>4 DEF f, N
  <2> HIDE DEF known, room, pokes
  <2>5. CASE Cardinality(known) <= room
    <3>1. cmds' = cmds \o pokes(order) /\ dropped' = dropped
      BY <2>2, <2>5
    <3>2. cmds' \in Seq(Commands) /\ Len(cmds') = Len(cmds) + Cardinality(known)
      BY <2>1, <2>4, <3>1
    <3>3. Len(cmds') <= QueueCap
      BY <2>1, <2>3, <2>5, <3>2, CapsAssumption DEF room
    <3>4. \A x : Has(cmds, x) => Has(cmds', x)
      BY <2>1, <2>4, <3>1, HasJoined
    <3> QED BY <1>1, <1>5, <3>1, <3>2, <3>3, <3>4 DEF ClickApply, Clicked, TypeOK
  <2>6. CASE ~(Cardinality(known) <= room)
    <3>1. cmds' = cmds \o SubSeq(pokes(order), 1, room) /\ dropped' = TRUE
      BY <2>2, <2>6
    <3>2. SubSeq(pokes(order), 1, room) \in Seq(Commands)
          /\ Len(SubSeq(pokes(order), 1, room)) = room
      BY <2>1, <2>3, <2>4, <2>6
    <3>3. cmds' \in Seq(Commands) /\ Len(cmds') = Len(cmds) + room
      BY <2>1, <3>1, <3>2
    <3>4. Len(cmds') <= QueueCap
      BY <2>1, <3>3, CapsAssumption DEF room
    <3>5. \A x : Has(cmds, x) => Has(cmds', x)
      BY <2>1, <3>1, <3>2, HasJoined
    <3> QED BY <1>1, <1>5, <3>1, <3>3, <3>4, <3>5 DEF ClickApply, Clicked, TypeOK
  <2> QED BY <2>5, <2>6
<1> QED BY <1>2, <1>3, <1>4, <1>5 DEF Window

LEMMA WindowType == TypeOK /\ (Window \/ DrainEvent) => TypeOK'
<1>1. ASSUME TypeOK, Window PROVE TypeOK'
  BY <1>1, ClickType DEF Clicked, TypeOK
<1>2. ASSUME TypeOK, DrainEvent PROVE TypeOK'
  <2> DEFINE ev == Head(events)
  <2>1. events \in Seq(Events) /\ events # <<>> /\ events' = Tail(events)
    BY <1>2 DEF TypeOK, DrainEvent
  <2>2. ev \in Events /\ events' \in Seq(Events) /\ Len(events') = Len(events) - 1
    BY <2>1, HasRemaining
  <2>3. ev.about \in Peers
        /\ ev.what \in {"Pairing", "Connected", "Disconnected", "Prompt", "Result"}
    BY <2>2 DEF Events
  <2>4. Len(events') <= EventCap
    BY <1>2, <2>1, <2>2, BoundsAssumption DEF TypeOK
  <2>5. prompt' = ev.about \/ prompt' = NoPeer \/ prompt' = prompt
    BY <1>2 DEF DrainEvent
  <2>6. rows' = rows
        \/ (ev.what \notin {"Prompt", "Result"} /\ rows' = [rows EXCEPT ![ev.about] = ev.what])
    BY <1>2 DEF DrainEvent
  <2> HIDE DEF ev
  <2>7. prompt' \in Peers \cup {NoPeer}
    BY <1>2, <2>3, <2>5 DEF TypeOK
  <2>8. rows' \in [Peers -> {"none", "Pairing", "Connected", "Disconnected"}]
    BY <1>2, <2>3, <2>6 DEF TypeOK
  <2> QED BY <1>2, <2>2, <2>4, <2>7, <2>8 DEF DrainEvent, TypeOK, netVars
<1> QED BY <1>1, <1>2

\* The dispatcher and the accept loop push handles of sessions without a slot,
\* and hand out commands.
LEMMA MakeType ==
    ASSUME TypeOK, NEW controls \in BOOLEAN, Make(controls)
    PROVE  /\ task' \in [Sessions -> Task]
           /\ \A i \in Sessions :
                 \/ task'[i] = task[i]
                 \/ task[i].phase = "none" /\ task'[i].phase = "hello"
<1>1. PICK n \in Sessions :
         /\ task[n].phase = "none"
         /\ task' = [task EXCEPT ![n].phase = "hello", ![n].controls = controls]
  BY DEF Make
<1>2. task \in [Sessions -> Task]
  BY DEF TypeOK
<1>3. ASSUME NEW i \in Sessions
      PROVE  task'[i] = IF i = n THEN [task[i] EXCEPT !.phase = "hello", !.controls = controls]
                                 ELSE task[i]
  BY <1>1, <1>2
<1>4. ASSUME NEW i \in Sessions
      PROVE  /\ task'[i] \in Task
             /\ \/ task'[i] = task[i]
                \/ task[i].phase = "none" /\ task'[i].phase = "hello"
  <2>1. task[i] \in Task
    BY <1>2
  <2>2. CASE i = n
    <3> DEFINE t == [task[i] EXCEPT !.phase = "hello", !.controls = controls]
    <3>1. t \in Task /\ t.phase = "hello"
      BY <2>1 DEF Task, Phases
    <3>2. task'[i] = t
      BY <1>3, <2>2
    <3> QED BY <1>1, <2>2, <3>1, <3>2
  <2> QED BY <1>3, <2>1, <2>2
<1>5. task' = [i \in Sessions |-> task'[i]]
  BY <1>1, <1>2
<1> QED BY <1>4, <1>5

LEMMA DispatchType ==
    ASSUME TypeOK, Dispatch \/ Accept
    PROVE  TypeOK'
<1>0. cmds \in Seq(Commands) /\ Len(cmds) <= QueueCap
  BY DEF TypeOK
<1>1. ASSUME cmds # <<>>, cmds' = Tail(cmds)
      PROVE  Head(cmds) \in Commands /\ cmds' \in Seq(Commands) /\ Len(cmds') <= QueueCap
  BY <1>0, <1>1, HasRemaining, CapsAssumption
<1>2. CASE TakeConnect
  BY <1>1, <1>2, MakeType DEF TakeConnect, TypeOK, windowVars
<1>3. CASE TakeCommand
  <2>1. Targets(Head(cmds).to) \in SUBSET Sessions
    BY DEF Targets, Made
  <2>2. routing' \in [cmd : Commands, left : SUBSET Sessions]
    BY <1>1, <1>3, <2>1, RoutingType DEF TakeCommand
  <2> QED BY <1>1, <1>3, <2>2 DEF TakeCommand, TypeOK, windowVars
<1>4. CASE HandOut
  <2>1. PICK i \in routing.left :
           /\ routing' = Routing(routing.cmd, routing.left \ {i})
           /\ \/ inbox' = inbox
              \/ Len(inbox[i]) < InboxCap
                 /\ inbox' = [inbox EXCEPT ![i] = Append(@, routing.cmd.op)]
    BY <1>4 DEF HandOut
  <2>2. /\ routing.cmd \in Commands /\ routing.left \in SUBSET Sessions
        /\ i \in Sessions /\ routing.cmd.op \in Ops
    BY DEF TypeOK, Commands
  <2>3. routing' \in [cmd : Commands, left : SUBSET Sessions]
    BY <2>1, <2>2, RoutingType
  <2>4. /\ inbox' \in [Sessions -> Seq(Ops)]
        /\ \A j \in Sessions : Len(inbox'[j]) <= InboxCap
    <3>1. CASE inbox' = inbox
      BY <3>1 DEF TypeOK
    <3>2. CASE /\ Len(inbox[i]) < InboxCap
               /\ inbox' = [inbox EXCEPT ![i] = Append(@, routing.cmd.op)]
      <4>1. Append(inbox[i], routing.cmd.op) \in Seq(Ops)
            /\ Len(Append(inbox[i], routing.cmd.op)) = Len(inbox[i]) + 1
            /\ Len(inbox[i]) \in Nat
        BY <2>2, HasAppended DEF TypeOK
      <4> QED BY <2>2, <3>2, <4>1, CapsAssumption DEF TypeOK
    <3> QED BY <2>1, <3>1, <3>2
  <2> QED BY <1>4, <2>3, <2>4 DEF HandOut, TypeOK, windowVars
<1>5. CASE Accept
  BY <1>5, MakeType DEF Accept, TypeOK, netVars, windowVars
<1> QED BY <1>2, <1>3, <1>4, <1>5 DEF Dispatch

(***************************************************************************)
(* A step of a session, as far as the other actors can tell.               *)
(***************************************************************************)
\* What a session's step leaves alone, and what it leaves well formed.
Stepped(i) ==
    /\ task' \in [Sessions -> Task] /\ inbox' \in [Sessions -> Seq(Ops)]
    /\ \A j \in Sessions : Len(inbox'[j]) <= InboxCap
    /\ events' \in Seq(Events) /\ Len(events') <= EventCap
    /\ trust \subseteq trust' /\ trust' \subseteq Peers
    /\ \A j \in Sessions \ {i} : task'[j] = task[j] /\ inbox'[j] = inbox[j]
    /\ UNCHANGED <<cmds, dropped, routing, windowVars>>

\* A session is let in only by the trust in its peer, and drops no Disconnect.
LetIn(i) ==
    Authenticated(i)' =>
        \/ task'[i].fp \in trust'
        \/ /\ Authenticated(i) /\ task'[i].fp = task[i].fp
           /\ Has(inbox[i], "Disconnect") => Has(inbox'[i], "Disconnect")

\* A change of the fields of one task.
LEMMA FieldType ==
    ASSUME TypeOK, NEW i \in Sessions, NEW t \in Task, task' = [task EXCEPT ![i] = t]
    PROVE  /\ task' \in [Sessions -> Task] /\ task'[i] = t
           /\ \A j \in Sessions \ {i} : task'[j] = task[j]
BY DEF TypeOK

\* The changes of the session's task that the actions make.
LEMMA PhaseType ==
    ASSUME TypeOK, NEW i \in Sessions, NEW ph \in Phases,
           task' = [task EXCEPT ![i].phase = ph]
    PROVE  /\ task' \in [Sessions -> Task]
           /\ task'[i].phase = ph /\ task'[i].fp = task[i].fp
           /\ \A j \in Sessions \ {i} : task'[j] = task[j]
<1>1. task[i] \in Task
  BY DEF TypeOK
<1>2. [task[i] EXCEPT !.phase = ph] \in Task
  BY <1>1 DEF Task
<1>3. task' = [task EXCEPT ![i] = [task[i] EXCEPT !.phase = ph]]
  OBVIOUS
<1>4. /\ task' \in [Sessions -> Task] /\ task'[i] = [task[i] EXCEPT !.phase = ph]
      /\ \A j \in Sessions \ {i} : task'[j] = task[j]
  BY <1>2, <1>3, FieldType
<1> QED BY <1>1, <1>4 DEF Task

\* Leaving, whatever is reported.
LEMMA LeaveSteps ==
    ASSUME TypeOK, NEW i \in Sessions, Leave(i),
           trust \subseteq trust', trust' \subseteq Peers,
           events' \in Seq(Events), Len(events') <= EventCap,
           UNCHANGED <<cmds, dropped, routing, windowVars>>
    PROVE  Stepped(i) /\ LetIn(i)
BY LeaveType DEF Stepped, LetIn, Authenticated

LEMMA QuietReport ==
    ASSUME TypeOK
    PROVE  /\ trust \subseteq Peers
           /\ UNCHANGED trust => trust \subseteq trust' /\ trust' \subseteq Peers
           /\ UNCHANGED events => events' \in Seq(Events) /\ Len(events') <= EventCap
BY DEF TypeOK

\* A report about a peer.
LEMMA ReportOne ==
    ASSUME TypeOK, NEW fp \in Peers,
           NEW what \in {"Pairing", "Connected", "Disconnected", "Prompt", "Result"},
           Report(<<Event(fp, what)>>)
    PROVE  events' \in Seq(Events) /\ Len(events') <= EventCap
<1>1. Event(fp, what) \in Events
  BY EventType
<1>2. <<Event(fp, what)>> \in Seq(Events)
  BY <1>1
<1> QED BY <1>2, ReportType

\* A session past its peer's Hello has its slot set.
Slotted ==
    \A i \in Sessions : task[i].phase \notin {"none", "hello", "ended"} => task[i].fp \in Peers

\* What every step of a session comes to.
Sound(i) ==
    /\ Stepped(i) /\ LetIn(i)
    /\ task'[i].phase \notin {"none", "hello", "ended"} => task'[i].fp \in Peers

LEMMA PeerSteps ==
    ASSUME TypeOK, Slotted, NEW i \in Sessions, Peer(i)
    PROVE  Sound(i)
<1>t. /\ task[i] \in Task /\ task \in [Sessions -> Task]
      /\ inbox \in [Sessions -> Seq(Ops)] /\ \A j \in Sessions : Len(inbox[j]) <= InboxCap
      /\ trust \subseteq Peers /\ events \in Seq(Events) /\ Len(events) <= EventCap
  BY DEF TypeOK
<1>1. CASE Hello(i)
  <2>1. PICK p \in Peers : task' = [task EXCEPT ![i] = [task[i] EXCEPT !.phase = "greeted", !.fp = p]]
    BY <1>1 DEF Hello
  <2>2. [task[i] EXCEPT !.phase = "greeted", !.fp = p] \in Task
    BY <1>t DEF Task, Phases
  <2>3. /\ task' \in [Sessions -> Task] /\ task'[i].phase = "greeted" /\ task'[i].fp = p
        /\ \A j \in Sessions \ {i} : task'[j] = task[j]
    BY <1>t, <2>1, <2>2, FieldType DEF Task
  <2> QED BY <1>1, <1>t, <2>3 DEF Hello, Sound, Stepped, LetIn, Authenticated, netVars
<1>2. CASE HelloFails(i) \/ PeerBreaksOff(i)
  <2>1. Leave(i) /\ UNCHANGED <<netVars, events, windowVars>>
    BY <1>2 DEF HelloFails, PeerBreaksOff
  <2> QED BY <1>t, <2>1, LeaveSteps, LeaveType DEF Sound, netVars
<1>3. CASE PeerConfirms(i)
  <2>1. task' = [task EXCEPT ![i] = [task[i] EXCEPT !.remote = TRUE]]
    BY <1>3 DEF PeerConfirms
  <2>2. [task[i] EXCEPT !.remote = TRUE] \in Task
    BY <1>t DEF Task
  <2>3. /\ task' \in [Sessions -> Task] /\ task'[i].phase = "pairing" /\ task'[i].fp = task[i].fp
        /\ \A j \in Sessions \ {i} : task'[j] = task[j]
    BY <1>3, <1>t, <2>1, <2>2, FieldType DEF Task, PeerConfirms
  <2>4. task[i].fp \in Peers
    BY <1>3 DEF Slotted, PeerConfirms
  <2> QED BY <1>3, <1>t, <2>3, <2>4 DEF PeerConfirms, Sound, Stepped, LetIn, Authenticated, netVars
<1>4. CASE PeerCancels(i)
  <2>1. task[i].fp \in Peers
    BY <1>4 DEF Slotted, PeerCancels
  <2>2. events' \in Seq(Events) /\ Len(events') <= EventCap
    BY <1>4, <2>1, ReportOne DEF PeerCancels
  <2> QED BY <1>4, <1>t, <2>2, LeaveSteps, LeaveType DEF PeerCancels, Sound, netVars
<1>5. CASE PeerCloses(i)
  <2>1. task[i].fp \in Peers
    BY <1>5 DEF Slotted, PeerCloses
  <2>2. events' \in Seq(Events) /\ Len(events') <= EventCap
    BY <1>5, <2>1, ReportOne DEF PeerCloses, Teardown
  <2> QED BY <1>5, <1>t, <2>2, LeaveSteps, LeaveType DEF PeerCloses, Teardown, Sound, netVars
<1>6. CASE Jam(i) \/ Resume(i)
  <2>1. PICK ph \in {"active", "jammed"} : task' = [task EXCEPT ![i].phase = ph]
    BY <1>6 DEF Jam, Resume
  <2>2. /\ task' \in [Sessions -> Task]
        /\ task'[i].phase = ph /\ task'[i].fp = task[i].fp
        /\ \A j \in Sessions \ {i} : task'[j] = task[j]
    BY <2>1, PhaseType DEF Phases
  <2>3. Authenticated(i) /\ task[i].fp \in Peers
    BY <1>6 DEF Slotted, Jam, Resume, Authenticated
  <2> QED BY <1>6, <1>t, <2>2, <2>3 DEF Jam, Resume, Sound, Stepped, LetIn, netVars
<1> QED BY <1>1, <1>2, <1>3, <1>4, <1>5, <1>6 DEF Peer

LEMMA AdvanceSteps ==
    ASSUME TypeOK, Slotted, NEW i \in Sessions, Advance(i)
    PROVE  Sound(i)
<1>t. /\ task[i] \in Task /\ task \in [Sessions -> Task]
      /\ inbox \in [Sessions -> Seq(Ops)] /\ \A j \in Sessions : Len(inbox[j]) <= InboxCap
      /\ trust \subseteq Peers /\ events \in Seq(Events) /\ Len(events) <= EventCap
  BY DEF TypeOK
<1>1. CASE LookUpTrust(i)
  <2>1. task[i].fp \in Peers
    BY <1>1 DEF Slotted, LookUpTrust
  <2>2. CASE task[i].fp \in trust /\ task' = [task EXCEPT ![i].phase = "starting"]
             /\ UNCHANGED events
    <3>1. /\ task' \in [Sessions -> Task]
          /\ task'[i].phase = "starting" /\ task'[i].fp = task[i].fp
          /\ \A j \in Sessions \ {i} : task'[j] = task[j]
      BY <2>2, PhaseType DEF Phases
    <3> QED BY <1>1, <1>t, <2>1, <2>2, <3>1 DEF LookUpTrust, Sound, Stepped, LetIn, netVars
  <2>3. CASE task' = [task EXCEPT ![i].phase = "pairing"]
             /\ Report(<<Event(task[i].fp, "Pairing"), Event(task[i].fp, "Prompt")>>)
    <3>1. /\ task' \in [Sessions -> Task]
          /\ task'[i].phase = "pairing" /\ task'[i].fp = task[i].fp
          /\ \A j \in Sessions \ {i} : task'[j] = task[j]
      BY <2>3, PhaseType DEF Phases
    <3>2. Event(task[i].fp, "Pairing") \in Events /\ Event(task[i].fp, "Prompt") \in Events
      BY <2>1, EventType
    <3>3. <<Event(task[i].fp, "Pairing"), Event(task[i].fp, "Prompt")>> \in Seq(Events)
      BY <3>2
    <3>4. events' \in Seq(Events) /\ Len(events') <= EventCap
      BY <2>3, <3>3, ReportType
    <3> QED BY <1>1, <1>t, <2>1, <3>1, <3>4
            DEF LookUpTrust, Sound, Stepped, LetIn, Authenticated, netVars
  <2> QED BY <1>1, <2>2, <2>3 DEF LookUpTrust
<1>2. CASE TakeWhilePairing(i)
  <2>1. task[i].fp \in Peers
    BY <1>2 DEF Slotted, TakeWhilePairing
  <2>2. CASE Leave(i) /\ Report(<<Event(task[i].fp, "Result")>>)
    <3>1. events' \in Seq(Events) /\ Len(events') <= EventCap
      BY <2>1, <2>2, ReportOne
    <3> QED BY <1>2, <1>t, <2>2, <3>1, LeaveSteps, LeaveType DEF TakeWhilePairing, Sound, netVars
  <2>3. CASE /\ task' = [task EXCEPT ![i].local = (@ \/ Head(inbox[i]) = "Confirm")]
             /\ inbox' = [inbox EXCEPT ![i] = Tail(@)]
             /\ UNCHANGED events
    <3> DEFINE t == [task[i] EXCEPT !.local = (task[i].local \/ Head(inbox[i]) = "Confirm")]
    <3>1. t \in Task
      BY <1>t DEF Task
    <3>2. task' = [task EXCEPT ![i] = t] /\ t.phase = task[i].phase /\ t.fp = task[i].fp
      BY <1>t, <2>3 DEF Task
    <3> HIDE DEF t
    <3>3. /\ task' \in [Sessions -> Task] /\ task'[i] = t
          /\ \A j \in Sessions \ {i} : task'[j] = task[j]
      BY <3>1, <3>2, FieldType
    <3>4. /\ inbox' \in [Sessions -> Seq(Ops)]
          /\ \A j \in Sessions : Len(inbox'[j]) <= InboxCap
          /\ \A j \in Sessions \ {i} : inbox'[j] = inbox[j]
      BY <1>2, <2>3, TakeType DEF TakeWhilePairing
    <3> QED BY <1>2, <1>t, <2>1, <2>3, <3>2, <3>3, <3>4
            DEF TakeWhilePairing, Sound, Stepped, LetIn, Authenticated, netVars
  <2> QED BY <1>2, <2>2, <2>3 DEF TakeWhilePairing
<1>3. CASE ConcludePairing(i)
  <2>1. task[i].fp \in Peers
    BY <1>3 DEF Slotted, ConcludePairing
  <2>2. /\ task' \in [Sessions -> Task]
        /\ task'[i].phase = "starting" /\ task'[i].fp = task[i].fp
        /\ \A j \in Sessions \ {i} : task'[j] = task[j]
    BY <1>3, PhaseType DEF Phases, ConcludePairing
  <2>3. events' \in Seq(Events) /\ Len(events') <= EventCap
    BY <1>3, <2>1, ReportOne DEF ConcludePairing
  <2> QED BY <1>3, <1>t, <2>1, <2>2, <2>3 DEF ConcludePairing, Sound, Stepped, LetIn
<1>4. CASE ConcludeUnsaved(i)
  <2>1. task[i].fp \in Peers
    BY <1>4 DEF Slotted, ConcludeUnsaved
  <2>2. trust \subseteq trust' /\ trust' \subseteq Peers
    BY <1>4, <1>t, <2>1 DEF ConcludeUnsaved
  <2> QED BY <1>4, <1>t, <2>2, LeaveSteps, LeaveType DEF ConcludeUnsaved, Sound
<1>5. CASE Start(i)
  <2>1. task[i].fp \in Peers /\ Authenticated(i)
    BY <1>5 DEF Slotted, Start, Authenticated
  <2>2. /\ task' \in [Sessions -> Task]
        /\ task'[i].phase = "active" /\ task'[i].fp = task[i].fp
        /\ \A j \in Sessions \ {i} : task'[j] = task[j]
    BY <1>5, PhaseType DEF Phases, Start
  <2>3. events' \in Seq(Events) /\ Len(events') <= EventCap
    BY <1>5, <2>1, ReportOne DEF Start
  <2> QED BY <1>5, <1>t, <2>1, <2>2, <2>3 DEF Start, Sound, Stepped, LetIn, netVars
<1>6. CASE StartFails(i)
  BY <1>6, <1>t, LeaveSteps, LeaveType DEF StartFails, Sound, netVars
<1>7. CASE TakeWhileActive(i)
  <2>1. task[i].fp \in Peers /\ Authenticated(i)
    BY <1>7 DEF Slotted, TakeWhileActive, Authenticated
  <2>2. CASE Head(inbox[i]) = "Disconnect"
    <3>1. Leave(i) /\ events' \in Seq(Events) /\ Len(events') <= EventCap
      BY <1>7, <2>1, <2>2, ReportOne DEF TakeWhileActive, Teardown
    <3> QED BY <1>7, <1>t, <3>1, LeaveSteps, LeaveType DEF TakeWhileActive, Sound, netVars
  <2>3. CASE Head(inbox[i]) # "Disconnect"
    <3> DEFINE b == CASE Head(inbox[i]) = "Start" -> TRUE
                      [] Head(inbox[i]) = "Stop" -> FALSE
                      [] OTHER -> task[i].mirror
               t == [task[i] EXCEPT !.mirror = b]
    <3>1. b \in BOOLEAN
      BY <1>t DEF Task
    <3>2. task' = [task EXCEPT ![i] = t]
      BY <1>7, <2>3 DEF TakeWhileActive
    <3> HIDE DEF b
    <3>3. t \in Task /\ t.phase = task[i].phase /\ t.fp = task[i].fp
      BY <1>t, <3>1 DEF Task
    <3> HIDE DEF t
    <3>4. /\ task' \in [Sessions -> Task] /\ task'[i] = t
          /\ \A j \in Sessions \ {i} : task'[j] = task[j]
      BY <3>2, <3>3, FieldType
    <3>5. /\ inbox' \in [Sessions -> Seq(Ops)]
          /\ \A j \in Sessions : Len(inbox'[j]) <= InboxCap
          /\ \A j \in Sessions \ {i} : inbox'[j] = inbox[j]
          /\ Has(inbox[i], "Disconnect") => Has(inbox'[i], "Disconnect")
      BY <1>7, <2>3, TakeType DEF TakeWhileActive
    <3> QED BY <1>7, <1>t, <2>1, <2>3, <3>3, <3>4, <3>5
            DEF TakeWhileActive, Sound, Stepped, LetIn, netVars
  <2> QED BY <2>2, <2>3
<1> QED BY <1>1, <1>2, <1>3, <1>4, <1>5, <1>6, <1>7 DEF Advance

(***************************************************************************)
(* The inductive invariant.                                                *)
(***************************************************************************)
\* The Disconnect of a peer whose trust goes is posted or dropped.
LEMMA UnpairPosts ==
    ASSUME TypeOK, Window
    PROVE  \A q \in trust \ trust' : dropped' \/ Has(cmds', Command("Disconnect", q))
<1>1. ASSUME NEW p \in Peers, ClickUnpair(p)
      PROVE  \A q \in trust \ trust' : dropped' \/ Has(cmds', Command("Disconnect", q))
  <2>1. Command("Disconnect", p) \in Commands
    BY CommandType DEF Ops
  <2>2. Post(Command("Disconnect", p)) /\ trust' = trust \ {p}
    BY <1>1 DEF ClickUnpair
  <2>3. dropped' \/ Has(cmds', Command("Disconnect", p))
    BY <2>1, <2>2, PostType
  <2> QED BY <2>2, <2>3
<1>2. CASE trust' = trust
  BY <1>2
<1> QED BY <1>1, <1>2 DEF Window, ClickControl, ClickPrompt, ClickSnapHome, ClickApply,
          ClickShare, ClickStopSharing

\* A step that lets nobody in, takes no trust away and loses no Disconnect.
LEMMA Undisturbed ==
    ASSUME RevocationRouted, dropped => dropped',
           \A i \in Sessions :
              ~dropped' /\ Authenticated(i)' /\ task'[i].fp \notin trust' =>
                 \/ /\ Authenticated(i) /\ task[i].fp \notin trust
                    /\ DisconnectDue(i) => DisconnectDue(i)'
                 \/ DisconnectDue(i)'
    PROVE  RevocationRouted'
BY DEF RevocationRouted

IInv == TypeOK /\ Slotted /\ RevocationRouted

LEMMA WindowKeeps == IInv /\ (Window \/ DrainEvent) => IInv'
<1>1. ASSUME IInv, DrainEvent PROVE IInv'
  <2>1. TypeOK'
    BY <1>1, WindowType DEF IInv
  <2>2. UNCHANGED <<trust, cmds, dropped, routing, task, inbox>>
    BY <1>1 DEF DrainEvent, netVars
  <2> QED BY <1>1, <2>1, <2>2 DEF IInv, Slotted, RevocationRouted, DisconnectDue, Authenticated
<1>2. ASSUME IInv, Window PROVE IInv'
  <2>1. TypeOK'
    BY <1>2, WindowType DEF IInv
  <2>2. /\ dropped => dropped'
        /\ \A x : Has(cmds, x) => Has(cmds', x)
        /\ UNCHANGED <<routing, task, inbox>>
    BY <1>2, ClickType DEF IInv, Clicked
  <2>3. \A q \in trust \ trust' : dropped' \/ Has(cmds', Command("Disconnect", q))
    BY <1>2, UnpairPosts DEF IInv
  <2>4. Slotted'
    BY <1>2, <2>2 DEF IInv, Slotted
  <2>5. ASSUME NEW i \in Sessions, ~dropped', Authenticated(i)', task'[i].fp \notin trust'
        PROVE  \/ /\ Authenticated(i) /\ task[i].fp \notin trust
                  /\ DisconnectDue(i) => DisconnectDue(i)'
               \/ DisconnectDue(i)'
    <3>1. CASE task[i].fp \in trust
      <4>1. Has(cmds', Command("Disconnect", task[i].fp))
        BY <2>2, <2>3, <2>5, <3>1
      <4> QED BY <2>2, <4>1 DEF DisconnectDue
    <3>2. CASE task[i].fp \notin trust
      BY <2>2, <2>5, <3>2 DEF DisconnectDue, Authenticated
    <3> QED BY <3>1, <3>2
  <2>6. RevocationRouted'
    BY <1>2, <2>2, <2>5, Undisturbed DEF IInv
  <2> QED BY <2>1, <2>4, <2>6 DEF IInv
<1> QED BY <1>1, <1>2

LEMMA MakeKeeps ==
    ASSUME IInv, Dispatch \/ Accept, NEW controls \in BOOLEAN, Make(controls),
           UNCHANGED <<trust, dropped, routing, inbox>>,
           \A fp : Has(cmds, Command("Disconnect", fp)) => Has(cmds', Command("Disconnect", fp))
    PROVE  IInv'
<1>1. TypeOK'
  BY DispatchType DEF IInv
<1>2. \A i \in Sessions : task'[i] = task[i] \/ task'[i].phase = "hello"
  BY MakeType DEF IInv
<1>3. Slotted'
  BY <1>2 DEF IInv, Slotted
<1>4. RevocationRouted'
  BY <1>2, Undisturbed DEF IInv, Authenticated, DisconnectDue
<1> QED BY <1>1, <1>3, <1>4 DEF IInv

LEMMA DispatchKeeps == IInv /\ (Dispatch \/ Accept) => IInv'
<1>1. ASSUME IInv, TakeConnect PROVE IInv'
  <2>1. cmds \in Seq(Commands) /\ cmds # <<>> /\ cmds' = Tail(cmds)
        /\ Head(cmds).op = "Connect"
    BY <1>1 DEF IInv, TypeOK, TakeConnect
  <2>2. ASSUME NEW fp, Has(cmds, Command("Disconnect", fp))
        PROVE  Has(cmds', Command("Disconnect", fp))
    <3>1. Head(cmds) # Command("Disconnect", fp)
      BY <2>1 DEF Command
    <3> QED BY <2>1, <2>2, <3>1, HasRemaining
  <2> QED BY <1>1, <2>2, MakeKeeps DEF TakeConnect, Dispatch
<1>2. ASSUME IInv, Accept PROVE IInv'
  BY <1>2, MakeKeeps DEF Accept, netVars
<1>3. ASSUME IInv, TakeCommand PROVE IInv'
  <2>1. TypeOK' /\ Slotted'
    BY <1>3, DispatchType DEF IInv, Slotted, Dispatch, TakeCommand
  <2>2. /\ cmds \in Seq(Commands) /\ cmds # <<>> /\ cmds' = Tail(cmds)
        /\ routing.left = {} /\ Head(cmds) \in Commands
        /\ routing' = Routing(Head(cmds), Targets(Head(cmds).to))
        /\ UNCHANGED <<trust, dropped, task, inbox>>
    BY <1>3, HasRemaining DEF IInv, TypeOK, TakeCommand
  <2>3. ASSUME NEW i \in Sessions, Authenticated(i), DisconnectDue(i)
        PROVE  DisconnectDue(i)'
    <3>1. CASE Has(inbox[i], "Disconnect")
      BY <2>2, <3>1 DEF DisconnectDue
    <3>2. CASE Has(cmds, Command("Disconnect", task[i].fp))
      <4>1. CASE Head(cmds) = Command("Disconnect", task[i].fp)
        <5>1. Head(cmds).op = "Disconnect" /\ Head(cmds).to = task[i].fp
          BY <4>1 DEF Command
        <5>2. i \in Targets(Head(cmds).to) /\ Targets(Head(cmds).to) \in SUBSET Sessions
          BY <2>3, <5>1 DEF Targets, Made, Authenticated
        <5>3. i \in routing'.left /\ routing'.cmd = Head(cmds)
          BY <2>2, <5>2, RoutingType
        <5> QED BY <5>1, <5>3 DEF DisconnectDue
      <4>2. CASE Head(cmds) # Command("Disconnect", task[i].fp)
        BY <2>2, <3>2, <4>2, HasRemaining DEF DisconnectDue
      <4> QED BY <4>1, <4>2
    <3> QED BY <2>2, <2>3, <3>1, <3>2 DEF DisconnectDue
  <2>4. RevocationRouted'
    BY <1>3, <2>2, <2>3, Undisturbed DEF IInv, Authenticated
  <2> QED BY <2>1, <2>4 DEF IInv
<1>4. ASSUME IInv, HandOut PROVE IInv'
  <2>1. TypeOK' /\ Slotted'
    BY <1>4, DispatchType DEF IInv, Slotted, Dispatch, HandOut
  <2>2. PICK k \in routing.left :
           /\ routing' = Routing(routing.cmd, routing.left \ {k})
           /\ \/ task[k].phase = "ended" /\ inbox' = inbox
              \/ inbox' = [inbox EXCEPT ![k] = Append(@, routing.cmd.op)]
    BY <1>4 DEF HandOut
  <2>3. /\ routing.cmd \in Commands /\ routing.cmd.op \in Ops
        /\ routing.left \in SUBSET Sessions /\ k \in Sessions
        /\ inbox \in [Sessions -> Seq(Ops)]
        /\ UNCHANGED <<trust, cmds, dropped, task>>
    BY <1>4, <2>2 DEF IInv, TypeOK, Commands, HandOut
  <2>4. ASSUME NEW i \in Sessions, Authenticated(i), DisconnectDue(i)
        PROVE  DisconnectDue(i)'
    <3>1. CASE Has(inbox[i], "Disconnect")
      <4>1. CASE inbox'[i] = inbox[i]
        BY <3>1, <4>1 DEF DisconnectDue
      <4>2. CASE inbox'[i] = Append(inbox[i], routing.cmd.op)
        BY <2>3, <3>1, <4>2, HasAppended DEF DisconnectDue
      <4> QED BY <2>2, <2>3, <4>1, <4>2
    <3>2. CASE i \in routing.left /\ routing.cmd.op = "Disconnect"
      <4>1. CASE i = k
        <5>1. inbox'[i] = Append(inbox[i], "Disconnect") /\ inbox[i] \in Seq(Ops)
          BY <2>2, <2>3, <2>4, <3>2, <4>1 DEF Authenticated
        <5>2. Has(inbox'[i], "Disconnect")
          BY <5>1, HasAppended DEF Ops
        <5> QED BY <5>2 DEF DisconnectDue
      <4>2. CASE i # k
        <5>1. i \in routing.left \ {k} /\ routing.left \ {k} \in SUBSET Sessions
          BY <2>3, <3>2, <4>2
        <5> DEFINE rest == routing.left \ {k}
        <5>3. rest \in SUBSET Sessions /\ rest # {} /\ i \in rest
          BY <5>1
        <5>4. routing' = Routing(routing.cmd, rest) /\ routing.cmd \in Commands
          BY <2>2, <2>3
        <5> HIDE DEF rest
        <5>5. i \in routing'.left /\ routing'.cmd = routing.cmd
          BY <5>3, <5>4, RoutingType
        <5> QED BY <3>2, <5>5 DEF DisconnectDue
      <4> QED BY <4>1, <4>2
    <3>3. CASE Has(cmds, Command("Disconnect", task[i].fp))
      BY <2>3, <3>3 DEF DisconnectDue
    <3> QED BY <2>4, <3>1, <3>2, <3>3 DEF DisconnectDue
  <2>5. RevocationRouted'
    BY <1>4, <2>3, <2>4, Undisturbed DEF IInv, Authenticated
  <2> QED BY <2>1, <2>5 DEF IInv
<1> QED BY <1>1, <1>2, <1>3, <1>4 DEF Dispatch

LEMMA SessionKeeps ==
    ASSUME IInv, NEW i \in Sessions, Advance(i) \/ Peer(i)
    PROVE  IInv'
<1>1. Sound(i)
  BY AdvanceSteps, PeerSteps DEF IInv
<1>2. TypeOK'
  BY <1>1 DEF IInv, TypeOK, Sound, Stepped, windowVars
<1>3. Slotted'
  BY <1>1 DEF IInv, Slotted, Sound, Stepped
<1>4. ASSUME NEW j \in Sessions, ~dropped', Authenticated(j)', task'[j].fp \notin trust'
      PROVE  /\ Authenticated(j) /\ task[j].fp \notin trust
             /\ DisconnectDue(j) => DisconnectDue(j)'
  <2>1. CASE j = i
    BY <1>1, <1>4, <2>1 DEF Sound, LetIn, Stepped, DisconnectDue
  <2>2. CASE j # i
    BY <1>1, <1>4, <2>2 DEF Sound, Stepped, DisconnectDue, Authenticated
  <2> QED BY <2>1, <2>2
<1>5. RevocationRouted'
  BY <1>1, <1>4, Undisturbed DEF IInv, Sound, Stepped
<1> QED BY <1>2, <1>3, <1>5 DEF IInv

LEMMA IInvHolds == Spec => []IInv
<1>1. Init => IInv
  <2> SUFFICES ASSUME Init PROVE IInv
    OBVIOUS
  <2>1. \A i \in Sessions : task[i].phase = "none"
    BY DEF Init
  <2> QED BY <2>1, InitType DEF IInv, Slotted, RevocationRouted, Authenticated
<1>2. IInv /\ [Next]_vars => IInv'
  <2> SUFFICES ASSUME IInv, [Next]_vars PROVE IInv'
    OBVIOUS
  <2>1. CASE UNCHANGED vars
    BY <2>1 DEF IInv, TypeOK, Slotted, RevocationRouted, DisconnectDue, Authenticated,
        vars, netVars, windowVars
  <2> QED BY <2>1, WindowKeeps, DispatchKeeps, SessionKeeps DEF Next
<1> QED BY <1>1, <1>2, PTL DEF Spec

\* The types, for any number of peers and sessions and any queues.
THEOREM TypeCorrect == Spec => []TypeOK
<1>1. IInv => TypeOK
  BY DEF IInv
<1> QED BY <1>1, IInvHolds, PTL

\* However window, dispatcher and sessions interleave, the Disconnect of an
\* unpaired peer is on its way to every session that peer is let into, those
\* that looked the trust up just before included (paired_ui, route, run_session).
THEOREM RevocationIsRouted == Spec => []RevocationRouted
<1>1. IInv => RevocationRouted
  BY DEF IInv
<1> QED BY <1>1, IInvHolds, PTL

(***************************************************************************)
(* What the window will say.                                               *)
(***************************************************************************)
\* An event is about some row, or about none.
LEMMA JoinedReports ==
    ASSUME TypeOK, NEW reports \in Seq(Events), events' = events \o reports,
           rows' = rows, NEW p \in Peers, NEW state, WillSay(p, state)'
    PROVE  \/ WillSay(p, state)
           \/ \E n \in DOMAIN reports : reports[n].about = p /\ reports[n].what = state
<1>1. events \in Seq(Events) /\ Len(events) \in Nat /\ Len(reports) \in Nat
  BY DEF TypeOK
<1>2. /\ DOMAIN events = 1 .. Len(events) /\ DOMAIN reports = 1 .. Len(reports)
      /\ DOMAIN (events \o reports) = 1 .. Len(events) + Len(reports)
      /\ \A n \in 1 .. Len(events) : (events \o reports)[n] = events[n]
      /\ \A n \in Len(events) + 1 .. Len(events) + Len(reports) :
            (events \o reports)[n] = reports[n - Len(events)]
  BY <1>1
<1>3. Told(p) = Told(p)' \cap 1 .. Len(events)
  BY <1>1, <1>2 DEF Told
<1>4. CASE Told(p)' = {} /\ rows[p] = state
  BY <1>3, <1>4 DEF WillSay
<1>5. ASSUME NEW n \in Told(p)', events'[n].what = state, \A m \in Told(p)' : m <= n
      PROVE  \/ WillSay(p, state)
             \/ \E k \in DOMAIN reports : reports[k].about = p /\ reports[k].what = state
  <2>1. n \in 1 .. Len(events) + Len(reports) /\ events'[n].about = p
    BY <1>2, <1>5 DEF Told
  <2>2. CASE n <= Len(events)
    <3>1. n \in Told(p) /\ events[n].what = state
      BY <1>1, <1>2, <1>3, <1>5, <2>1, <2>2
    <3> QED BY <1>3, <1>5, <3>1 DEF WillSay
  <2>3. CASE n > Len(events)
    <3>1. n - Len(events) \in DOMAIN reports
          /\ events'[n] = reports[n - Len(events)]
      BY <1>1, <1>2, <2>1, <2>3
    <3> QED BY <1>5, <2>1, <3>1
  <2> QED BY <1>1, <2>1, <2>2, <2>3
<1> QED BY <1>4, <1>5 DEF WillSay

\* The last event about a row has the last word.
LEMMA LastReport ==
    ASSUME TypeOK, NEW e \in Events, e.what \notin {"Prompt", "Result"},
           events' = events \o <<e>>, NEW state, WillSay(e.about, state)'
    PROVE  state = e.what
<1>1. events \in Seq(Events) /\ Len(events) \in Nat
  BY DEF TypeOK
<1>2. /\ DOMAIN (events \o <<e>>) = 1 .. Len(events) + 1
      /\ (events \o <<e>>)[Len(events) + 1] = e
  BY <1>1
<1>3. Len(events) + 1 \in Told(e.about)'
  BY <1>1, <1>2 DEF Told
<1>4. \A m \in Told(e.about)' : m \in 1 .. Len(events) + 1
  BY <1>2 DEF Told
<1>5. PICK n \in Told(e.about)' : events'[n].what = state /\ \A m \in Told(e.about)' : m <= n
  BY <1>3 DEF WillSay
<1>6. n = Len(events) + 1
  BY <1>1, <1>3, <1>4, <1>5
<1> QED BY <1>2, <1>5, <1>6

\* Draining an event changes nothing of what the window will say.
LEMMA DrainedEvent ==
    ASSUME TypeOK, DrainEvent, NEW p \in Peers, NEW state, WillSay(p, state)'
    PROVE  WillSay(p, state)
<1> DEFINE ev == Head(events)
<1>1. /\ events \in Seq(Events) /\ events # <<>> /\ events' = Tail(events)
      /\ Len(events) \in Nat /\ Len(events) >= 1 /\ ev = events[1] /\ ev \in Events
  BY DEF TypeOK, DrainEvent
<1>2. /\ DOMAIN events = 1 .. Len(events) /\ DOMAIN Tail(events) = 1 .. Len(events) - 1
      /\ \A n \in 1 .. Len(events) - 1 : Tail(events)[n] = events[n + 1]
  BY <1>1
<1>3. \A n \in Told(p)' : n + 1 \in Told(p) /\ events'[n] = events[n + 1]
                          /\ n \in 1 .. Len(events) - 1
  BY <1>1, <1>2 DEF Told
<1>4. \A m \in Told(p) : m \in Nat /\ (m = 1 \/ m - 1 \in Told(p)')
  <2> SUFFICES ASSUME NEW m \in Told(p), m # 1 PROVE m \in Nat /\ m - 1 \in Told(p)'
    BY <1>1, <1>2 DEF Told
  <2>1. m \in 1 .. Len(events) /\ m - 1 \in 1 .. Len(events) - 1
    BY <1>1, <1>2 DEF Told
  <2>2. Tail(events)[m - 1] = events[m]
    BY <1>1, <1>2, <2>1
  <2> QED BY <1>1, <1>2, <2>1, <2>2 DEF Told
<1>5. ASSUME NEW n \in Told(p)', events'[n].what = state, \A m \in Told(p)' : m <= n
      PROVE  WillSay(p, state)
  <2>1. n + 1 \in Told(p) /\ events[n + 1].what = state /\ n \in Nat /\ n >= 1
    BY <1>1, <1>3, <1>5
  <2>2. \A m \in Told(p) : m <= n + 1
    BY <1>4, <1>5, <2>1
  <2> QED BY <2>1, <2>2 DEF WillSay
<1>6. ASSUME Told(p)' = {}, rows'[p] = state PROVE WillSay(p, state)
  <2>1. Told(p) \subseteq {1}
    BY <1>4, <1>6
  <2>2. CASE Told(p) = {}
    <3>1. ~(ev.about = p /\ ev.what \notin {"Prompt", "Result"})
      BY <1>1, <1>2, <2>2 DEF Told
    <3>2. rows' = IF ev.what \in {"Prompt", "Result"} THEN rows
                  ELSE [rows EXCEPT ![ev.about] = ev.what]
      BY DEF DrainEvent
    <3>3. rows'[p] = rows[p]
      BY <3>1, <3>2 DEF TypeOK
    <3> QED BY <1>6, <2>2, <3>3 DEF WillSay
  <2>3. CASE Told(p) = {1}
    <3>1. ev.about = p /\ ev.what \notin {"Prompt", "Result"}
      BY <1>1, <2>3 DEF Told
    <3>2. rows' = [rows EXCEPT ![ev.about] = ev.what]
      BY <3>1 DEF DrainEvent
    <3>3. state = ev.what
      BY <1>6, <3>1, <3>2 DEF TypeOK
    <3> QED BY <1>1, <2>3, <3>3 DEF WillSay
  <2> QED BY <2>1, <2>2, <2>3
<1> QED BY <1>5, <1>6 DEF WillSay

(***************************************************************************)
(* A row that says connected.                                              *)
(***************************************************************************)
\* What a session's step reports: nothing that the row would keep but for the
\* session's being live, and its end if it was.
LEMMA StepReports ==
    ASSUME IInv, ConnectedIsTrue, NEW i \in Sessions, Advance(i) \/ Peer(i),
           NEW p \in Peers, WillSay(p, "Connected")'
    PROVE  \E j \in Sessions : Live(j)' /\ task'[j].fp = p
<1>s. /\ Stepped(i) /\ TypeOK /\ Slotted /\ task \in [Sessions -> Task]
      /\ rows' = rows /\ \A j \in Sessions \ {i} : task'[j] = task[j]
  BY AdvanceSteps, PeerSteps DEF IInv, Sound, Stepped, TypeOK, windowVars
<1>1. CASE UNCHANGED events
  <2>1. WillSay(p, "Connected")
    BY <1>s, <1>1 DEF WillSay, Told
  <2>2. PICK j \in Sessions : Live(j) /\ task[j].fp = p
    BY <2>1 DEF ConnectedIsTrue
  <2>3. CASE j # i
    BY <1>s, <2>2, <2>3 DEF Live
  <2>4. CASE j = i
    <3>1. Live(i)' /\ task'[i].fp = task[i].fp
      <4>1. CASE Jam(i) \/ Resume(i)
        <5>1. PICK ph \in {"active", "jammed"} : task' = [task EXCEPT ![i].phase = ph]
          BY <4>1 DEF Jam, Resume
        <5> QED BY <1>s, <5>1, PhaseType DEF Phases, Live
      <4>2. CASE TakeWhileActive(i)
        <5>1. CASE Head(inbox[i]) = "Disconnect"
          <6>1. events \in Seq(Events) /\ events' = events \o <<Event(task[i].fp, "Disconnected")>>
            BY <4>2, <5>1 DEF TakeWhileActive, Teardown, Report, TypeOK, IInv
          <6>2. Event(task[i].fp, "Disconnected") \in Events
            BY <2>2, <2>4, EventType
          <6>3. Len(events') = Len(events) + 1 /\ Len(events) \in Nat
            BY <6>1, <6>2
          <6> QED BY <1>1, <6>3
        <5>2. CASE Head(inbox[i]) # "Disconnect"
          BY <1>s, <2>2, <2>4, <4>2, <5>2 DEF TakeWhileActive, Live, Task
        <5> QED BY <5>1, <5>2
      <4>3. CASE PeerCloses(i)
        <5>1. events \in Seq(Events) /\ events' = events \o <<Event(task[i].fp, "Disconnected")>>
          BY <4>3 DEF PeerCloses, Teardown, Report, TypeOK, IInv
        <5>2. Event(task[i].fp, "Disconnected") \in Events
          BY <2>2, <2>4, EventType
        <5>3. Len(events') = Len(events) + 1 /\ Len(events) \in Nat
          BY <5>1, <5>2
        <5> QED BY <1>1, <5>3
      <4> QED BY <2>2, <2>4, <4>1, <4>2, <4>3 DEF Live, Advance, Peer, LookUpTrust,
              TakeWhilePairing, ConcludePairing, ConcludeUnsaved, Start, StartFails, Hello,
              HelloFails, PeerConfirms, PeerCancels, PeerBreaksOff
    <3> QED BY <2>2, <2>4, <3>1
  <2> QED BY <2>3, <2>4
<1>2. ASSUME NEW reports \in Seq(Events), events' = events \o reports, ~Live(i),
             \A n \in DOMAIN reports : reports[n].what # "Connected"
      PROVE  \E j \in Sessions : Live(j)' /\ task'[j].fp = p
  <2>0. \/ WillSay(p, "Connected")
        \/ \E n \in DOMAIN reports : reports[n].about = p /\ reports[n].what = "Connected"
    BY <1>s, <1>2, JoinedReports
  <2>1. WillSay(p, "Connected")
    BY <1>2, <2>0
  <2>2. PICK j \in Sessions : Live(j) /\ task[j].fp = p
    BY <2>1 DEF ConnectedIsTrue
  <2> QED BY <1>s, <1>2, <2>2 DEF Live
<1>3. CASE Start(i)
  <2>1. task'[i].phase = "active" /\ task'[i].fp = task[i].fp /\ task[i].fp \in Peers
    BY <1>s, <1>3, PhaseType DEF Start, Phases, Slotted
  <2>2. Event(task[i].fp, "Connected") \in Events
    BY <2>1, EventType
  <2>3. <<Event(task[i].fp, "Connected")>> \in Seq(Events)
        /\ DOMAIN <<Event(task[i].fp, "Connected")>> = {1}
        /\ <<Event(task[i].fp, "Connected")>>[1].about = task[i].fp
    BY <2>2 DEF Event
  <2>r. events' = events \o <<Event(task[i].fp, "Connected")>>
    BY <1>3 DEF Start, Report
  <2> DEFINE said == <<Event(task[i].fp, "Connected")>>
  <2>0. /\ said \in Seq(Events) /\ events' = events \o said
        /\ \A n \in DOMAIN said : said[n].about = task[i].fp
    BY <2>3, <2>r
  <2> HIDE DEF said
  <2>c. \/ WillSay(p, "Connected")
        \/ \E n \in DOMAIN said : said[n].about = p /\ said[n].what = "Connected"
    BY <1>s, <2>0, JoinedReports
  <2>4. WillSay(p, "Connected") \/ task[i].fp = p
    BY <2>0, <2>c
  <2>5. CASE task[i].fp = p
    BY <2>1, <2>5 DEF Live
  <2>6. CASE WillSay(p, "Connected")
    <3>1. PICK j \in Sessions : Live(j) /\ task[j].fp = p
      BY <2>6 DEF ConnectedIsTrue
    <3> QED BY <1>s, <1>3, <3>1 DEF Live, Start
  <2> QED BY <2>4, <2>5, <2>6
<1>4. CASE task[i].phase = "active" /\ Report(<<Event(task[i].fp, "Disconnected")>>)
  <2> DEFINE e == Event(task[i].fp, "Disconnected")
  <2>1. task[i].fp \in Peers
    BY <1>s, <1>4 DEF Slotted
  <2>2. e \in Events /\ e.what = "Disconnected" /\ e.about = task[i].fp
    BY <2>1, EventType DEF Event
  <2>3. events' = events \o <<e>>
    BY <1>4 DEF Report
  <2> HIDE DEF e
  <2>4. p # task[i].fp
    BY <1>s, <2>2, <2>3, LastReport
  <2>5. <<e>> \in Seq(Events) /\ DOMAIN <<e>> = {1} /\ <<e>>[1] = e
    BY <2>2
  <2> DEFINE said == <<e>>
  <2>s. said \in Seq(Events) /\ events' = events \o said
        /\ \A n \in DOMAIN said : said[n].about = task[i].fp
    BY <2>2, <2>3, <2>5
  <2> HIDE DEF said
  <2>c. \/ WillSay(p, "Connected")
        \/ \E n \in DOMAIN said : said[n].about = p /\ said[n].what = "Connected"
    BY <1>s, <2>s, JoinedReports
  <2>6. WillSay(p, "Connected")
    BY <2>4, <2>s, <2>c
  <2>7. PICK j \in Sessions : Live(j) /\ task[j].fp = p
    BY <2>6 DEF ConnectedIsTrue
  <2> QED BY <1>s, <2>4, <2>7 DEF Live
<1>5. CASE ~Live(i) /\ Report(<<Event(task[i].fp, "Result")>>) /\ task[i].fp \in Peers
  <2> DEFINE e == Event(task[i].fp, "Result")
  <2>1. e \in Events /\ e.what = "Result"
    BY <1>5, EventType DEF Event
  <2>2. events' = events \o <<e>>
    BY <1>5 DEF Report
  <2> HIDE DEF e
  <2>3. <<e>> \in Seq(Events) /\ DOMAIN <<e>> = {1} /\ <<e>>[1] = e
    BY <2>1
  <2> QED BY <1>2, <1>5, <2>1, <2>2, <2>3
<1>6. CASE LookUpTrust(i) /\ Report(<<Event(task[i].fp, "Pairing"), Event(task[i].fp, "Prompt")>>)
  <2> DEFINE d == Event(task[i].fp, "Pairing")
             e == Event(task[i].fp, "Prompt")
  <2>1. task[i].fp \in Peers /\ ~Live(i)
    BY <1>s, <1>6 DEF Slotted, LookUpTrust, Live
  <2>2. d \in Events /\ e \in Events /\ d.what = "Pairing" /\ e.what = "Prompt"
    BY <2>1, EventType DEF Event
  <2>3. events' = events \o <<d, e>>
    BY <1>6 DEF Report
  <2> HIDE DEF d, e
  <2>4. <<d, e>> \in Seq(Events) /\ DOMAIN <<d, e>> = {1, 2} /\ <<d, e>>[1] = d /\ <<d, e>>[2] = e
    BY <2>2
  <2> QED BY <1>2, <2>1, <2>2, <2>3, <2>4
<1>7. CASE Advance(i)
  <2>1. CASE LookUpTrust(i)
    BY <1>1, <1>6, <2>1 DEF LookUpTrust
  <2>2. CASE TakeWhilePairing(i) \/ ConcludePairing(i)
    <3>1. task[i].fp \in Peers /\ ~Live(i)
      BY <1>s, <2>2 DEF Slotted, TakeWhilePairing, ConcludePairing, Live
    <3> QED BY <1>1, <1>5, <2>2, <3>1 DEF TakeWhilePairing, ConcludePairing
  <2>3. CASE ConcludeUnsaved(i) \/ StartFails(i)
    BY <1>1, <2>3 DEF ConcludeUnsaved, StartFails
  <2>4. CASE TakeWhileActive(i)
    BY <1>1, <1>4, <2>4 DEF TakeWhileActive, Teardown
  <2> QED BY <1>3, <1>7, <2>1, <2>2, <2>3, <2>4 DEF Advance
<1>8. CASE Peer(i)
  <2>1. CASE PeerCancels(i)
    <3>1. task[i].fp \in Peers /\ ~Live(i)
      BY <1>s, <2>1 DEF Slotted, PeerCancels, Live
    <3> QED BY <1>5, <2>1, <3>1 DEF PeerCancels
  <2>2. CASE PeerCloses(i)
    BY <1>4, <2>2 DEF PeerCloses, Teardown
  <2> QED BY <1>1, <1>8, <2>1, <2>2 DEF Peer, Hello, HelloFails, PeerConfirms, PeerBreaksOff,
          Jam, Resume
<1> QED BY <1>7, <1>8

\* A row that will say connected once the events are drained has a session that
\* is, whichever of the peer's sessions end meanwhile (drain_events, run_session).
THEOREM ConnectedRowsAreTrue == Spec => []ConnectedIsTrue
<1>1. Init => ConnectedIsTrue
  BY DEF Init, ConnectedIsTrue, WillSay, Told
<1>2. IInv /\ ConnectedIsTrue /\ [Next]_vars => ConnectedIsTrue'
  <2> SUFFICES ASSUME IInv, ConnectedIsTrue, [Next]_vars, NEW p \in Peers,
                      WillSay(p, "Connected")'
               PROVE  \E i \in Sessions : Live(i)' /\ task'[i].fp = p
    BY DEF ConnectedIsTrue
  <2>1. ASSUME NEW i \in Sessions, Advance(i) \/ Peer(i)
        PROVE  \E j \in Sessions : Live(j)' /\ task'[j].fp = p
    BY <2>1, StepReports
  <2>2. ASSUME WillSay(p, "Connected"), \A i \in Sessions : Live(i) => task'[i] = task[i]
        PROVE  \E i \in Sessions : Live(i)' /\ task'[i].fp = p
    BY <2>2 DEF ConnectedIsTrue, Live
  <2>3. CASE DrainEvent
    BY <2>2, <2>3, DrainedEvent DEF IInv, DrainEvent
  <2>4. CASE Window \/ UNCHANGED vars
    <3>1. UNCHANGED <<task, events, rows>>
      BY <2>4, ClickType DEF IInv, Clicked, vars, windowVars
    <3> QED BY <2>2, <3>1 DEF WillSay, Told
  <2>5. CASE Dispatch \/ Accept
    <3>1. UNCHANGED <<events, rows>>
      BY <2>5 DEF Dispatch, TakeConnect, TakeCommand, HandOut, Accept, windowVars
    <3>2. \A i \in Sessions : Live(i) => task'[i] = task[i]
      <4>1. CASE UNCHANGED task
        BY <4>1
      <4>2. CASE \E controls \in BOOLEAN : Make(controls)
        BY <4>2, MakeType DEF IInv, Live
      <4> QED BY <2>5, <4>1, <4>2 DEF Dispatch, TakeConnect, TakeCommand, HandOut, Accept
    <3> QED BY <2>2, <3>1, <3>2 DEF WillSay, Told
  <2> QED BY <2>1, <2>3, <2>4, <2>5 DEF Next
<1> QED BY <1>1, <1>2, IInvHolds, PTL DEF Spec

(***************************************************************************)
(* Sharing.  The last word a session will have on sharing is looked for    *)
(* along the queues it passes through: the commands that wait for the      *)
(* dispatcher, the one in its hand, the session's inbox, the session.      *)
(***************************************************************************)
\* A word at the end of a queue, and any other command.
LEMMA WordAppended ==
    ASSUME NEW s \in Seq(Ops), NEW op \in Ops
    PROVE  /\ op \in Words => /\ ~Wordless(Append(s, op))
                              /\ LastIsStart(Append(s, op)) <=> op = "Start"
           /\ op \notin Words => /\ Wordless(Append(s, op)) <=> Wordless(s)
                                 /\ LastIsStart(Append(s, op)) <=> LastIsStart(s)
<1> DEFINE t == Append(s, op)
           n == Len(s)
<1>1. /\ DOMAIN s = 1 .. n /\ DOMAIN t = 1 .. n + 1 /\ n \in Nat
      /\ t[n + 1] = op /\ \A k \in 1 .. n : t[k] = s[k]
  OBVIOUS
<1> HIDE DEF t, n
<1>2. ASSUME op \in Words
      PROVE  ~Wordless(t) /\ (LastIsStart(t) <=> op = "Start")
  <2>1. n + 1 \in DOMAIN t /\ t[n + 1] \in Words /\ \A k \in DOMAIN t : k <= n + 1
    BY <1>1, <1>2
  <2>2. ASSUME NEW k \in DOMAIN t, t[k] = "Start", \A m \in DOMAIN t : t[m] \in Words => m <= k
        PROVE  op = "Start"
    <3>1. k = n + 1
      BY <1>1, <2>1, <2>2
    <3> QED BY <1>1, <2>2, <3>1
  <2>3. ASSUME op = "Start" PROVE LastIsStart(t)
    BY <1>1, <2>1, <2>3 DEF LastIsStart
  <2> QED BY <2>1, <2>2, <2>3 DEF Wordless, LastIsStart
<1>3. ASSUME op \notin Words
      PROVE  (Wordless(t) <=> Wordless(s)) /\ (LastIsStart(t) <=> LastIsStart(s))
  <2>1. \A k \in DOMAIN t : t[k] \in Words => k \in DOMAIN s
    BY <1>1, <1>3
  <2>2. \A k \in DOMAIN s : k \in DOMAIN t /\ t[k] = s[k]
    BY <1>1
  <2>3. "Start" \in Words
    BY DEF Words
  <2>4. Wordless(t) <=> Wordless(s)
    BY <2>1, <2>2 DEF Wordless
  <2>5. LastIsStart(t) => LastIsStart(s)
    BY <2>1, <2>2, <2>3 DEF LastIsStart
  <2>6. LastIsStart(s) => LastIsStart(t)
    BY <2>1, <2>2, <2>3 DEF LastIsStart
  <2> QED BY <2>4, <2>5, <2>6
<1> QED BY <1>2, <1>3 DEF t

\* Commands that are no words change nothing.
LEMMA WordlessJoined ==
    ASSUME NEW s \in Seq(Ops), NEW t \in Seq(Ops), Wordless(t)
    PROVE  /\ Wordless(s \o t) <=> Wordless(s)
           /\ LastIsStart(s \o t) <=> LastIsStart(s)
<1> DEFINE u == s \o t
<1>1. /\ \A k \in DOMAIN s : k \in DOMAIN u /\ u[k] = s[k]
      /\ \A k \in DOMAIN u : k \in DOMAIN s \/ \E j \in DOMAIN t : u[k] = t[j]
  OBVIOUS
<1> HIDE DEF u
<1>2. \A k \in DOMAIN u : u[k] \in Words => k \in DOMAIN s
  BY <1>1 DEF Wordless
<1>3. "Start" \in Words
  BY DEF Words
<1>4. Wordless(u) <=> Wordless(s)
  BY <1>1, <1>2 DEF Wordless
<1>5. LastIsStart(u) => LastIsStart(s)
  BY <1>1, <1>2, <1>3 DEF LastIsStart
<1>6. LastIsStart(s) => LastIsStart(u)
  BY <1>1, <1>2, <1>3 DEF LastIsStart
<1> QED BY <1>4, <1>5, <1>6 DEF u

\* What is left when the head is gone.
LEMMA WordTaken ==
    ASSUME NEW s \in Seq(Ops), s # <<>>
    PROVE  /\ LastIsStart(Tail(s)) => LastIsStart(s) /\ ~Wordless(s)
           /\ ~Wordless(Tail(s)) => ~Wordless(s)
           /\ Wordless(Tail(s)) /\ ~Wordless(s)
                 => Head(s) \in Words /\ (Head(s) = "Start" => LastIsStart(s))
           /\ Wordless(Tail(s)) /\ Head(s) \notin Words => Wordless(s)
<1> DEFINE t == Tail(s)
           n == Len(s)
<1>1. /\ DOMAIN s = 1 .. n /\ DOMAIN t = 1 .. n - 1 /\ n \in Nat /\ n >= 1
      /\ Head(s) = s[1] /\ \A k \in 1 .. n - 1 : t[k] = s[k + 1]
  OBVIOUS
<1> HIDE DEF t, n
<1>2. \A k \in DOMAIN t : k + 1 \in DOMAIN s /\ t[k] = s[k + 1]
  BY <1>1
<1>3. \A k \in DOMAIN s : k = 1 \/ (k - 1 \in DOMAIN t /\ t[k - 1] = s[k])
  BY <1>1
<1>w. "Start" \in Words
  BY DEF Words
<1>4. ASSUME NEW k \in DOMAIN t, t[k] = "Start", \A m \in DOMAIN t : t[m] \in Words => m <= k
      PROVE  LastIsStart(s) /\ ~Wordless(s)
  <2>1. k + 1 \in DOMAIN s /\ s[k + 1] = "Start" /\ k \in Nat
    BY <1>1, <1>2, <1>4
  <2>2. ASSUME NEW m \in DOMAIN s, s[m] \in Words PROVE m <= k + 1
    <3>1. CASE m = 1
      BY <2>1, <3>1
    <3>2. CASE m # 1
      <4>1. m - 1 \in DOMAIN t /\ t[m - 1] \in Words /\ m \in Nat
        BY <1>1, <1>3, <2>2, <3>2
      <4>2. m - 1 <= k
        BY <1>4, <4>1
      <4> QED BY <2>1, <4>1, <4>2
    <3> QED BY <3>1, <3>2
  <2> QED BY <1>w, <2>1, <2>2 DEF LastIsStart, Wordless
<1>5. ~Wordless(t) => ~Wordless(s)
  BY <1>2 DEF Wordless
<1>6. ASSUME Wordless(t)
      PROVE  /\ \A k \in DOMAIN s : s[k] \in Words => k = 1
             /\ 1 \in DOMAIN s
  BY <1>1, <1>3, <1>6 DEF Wordless
<1>7. ASSUME Wordless(t), ~Wordless(s)
      PROVE  Head(s) \in Words /\ (Head(s) = "Start" => LastIsStart(s))
  <2>1. s[1] \in Words
    BY <1>6, <1>7 DEF Wordless
  <2>2. ASSUME s[1] = "Start" PROVE LastIsStart(s)
    <3>1. \A m \in DOMAIN s : s[m] \in Words => m <= 1
      BY <1>1, <1>6, <1>7
    <3> QED BY <1>6, <1>7, <2>2, <3>1 DEF LastIsStart
  <2> QED BY <1>1, <2>1, <2>2
<1>8. ASSUME Wordless(t), Head(s) \notin Words PROVE Wordless(s)
  BY <1>7, <1>8
<1> QED BY <1>4, <1>5, <1>7, <1>8 DEF LastIsStart, t

\* What the waiting commands say, as the queue changes.
LEMMA SaidType ==
    ASSUME TypeOK, NEW p
    PROVE  SaidTo(p) \in Seq(Ops) /\ Len(SaidTo(p)) = Len(cmds)
<1>1. cmds \in Seq(Commands) /\ Len(cmds) \in Nat /\ DOMAIN cmds = 1 .. Len(cmds)
  BY DEF TypeOK
<1>2. \A n \in 1 .. Len(cmds) : cmds[n].op \in Ops
  <2>1. \A n \in 1 .. Len(cmds) : cmds[n] \in Commands
    BY <1>1
  <2> QED BY <2>1 DEF Commands
<1>3. SaidTo(p) \in [1 .. Len(cmds) -> Ops]
  BY <1>1, <1>2 DEF SaidTo, Ops
<1> QED BY <1>1, <1>3

\* One command for p, as p hears it.
Heard(cmd, p) == IF cmd.to = p THEN cmd.op ELSE "Poke"

LEMMA SaidMore ==
    ASSUME TypeOK, NEW cmd \in Commands, cmds' = Append(cmds, cmd), NEW p
    PROVE  SaidTo(p)' = Append(SaidTo(p), Heard(cmd, p)) /\ Heard(cmd, p) \in Ops
<1> DEFINE s == SaidTo(p)
           f == SaidTo(p)'
           h == Heard(cmd, p)
           n == Len(cmds)
<1>1. /\ cmds \in Seq(Commands) /\ n \in Nat /\ DOMAIN cmds = 1 .. n
      /\ DOMAIN cmds' = 1 .. n + 1 /\ cmds'[n + 1] = cmd
      /\ \A k \in 1 .. n : cmds'[k] = cmds[k]
  BY DEF TypeOK
<1>2. h \in Ops
  BY DEF Heard, Commands, Ops
<1>3. s \in Seq(Ops) /\ Len(s) = n /\ \A k \in 1 .. n : s[k] = Heard(cmds[k], p)
  BY <1>1, SaidType DEF SaidTo, Heard
<1>4. f = [k \in 1 .. n + 1 |-> Heard(cmds'[k], p)]
  BY <1>1 DEF SaidTo, Heard
<1> HIDE DEF s, f, h, n
<1>5. \A k \in 1 .. n + 1 : f[k] = IF k <= n THEN s[k] ELSE h
  BY <1>1, <1>3, <1>4 DEF h
<1>6. \A k \in 1 .. n + 1 : f[k] \in Ops
  BY <1>2, <1>3, <1>5
<1>7. f \in Seq(Ops) /\ Len(f) = n + 1
  BY <1>1, <1>4, <1>6
<1>8. /\ Append(s, h) \in Seq(Ops) /\ Len(Append(s, h)) = n + 1
      /\ \A k \in 1 .. n + 1 : Append(s, h)[k] = IF k <= n THEN s[k] ELSE h
  BY <1>1, <1>2, <1>3
<1>9. f = Append(s, h)
  BY <1>5, <1>7, <1>8, SeqEqual
<1> QED BY <1>2, <1>9 DEF s, f, h

LEMMA SaidLess ==
    ASSUME TypeOK, cmds # <<>>, cmds' = Tail(cmds), NEW p
    PROVE  /\ SaidTo(p) # <<>> /\ Head(SaidTo(p)) = Heard(Head(cmds), p)
           /\ SaidTo(p)' = Tail(SaidTo(p))
<1> DEFINE s == SaidTo(p)
           f == SaidTo(p)'
           n == Len(cmds)
<1>1. /\ cmds \in Seq(Commands) /\ n \in Nat /\ n >= 1 /\ DOMAIN cmds = 1 .. n
      /\ DOMAIN cmds' = 1 .. n - 1 /\ Head(cmds) = cmds[1]
      /\ \A k \in 1 .. n - 1 : cmds'[k] = cmds[k + 1]
  BY DEF TypeOK
<1>2. s \in Seq(Ops) /\ Len(s) = n /\ \A k \in 1 .. n : s[k] = Heard(cmds[k], p)
  BY <1>1, SaidType DEF SaidTo, Heard
<1>3. f = [k \in 1 .. n - 1 |-> Heard(cmds'[k], p)]
  BY <1>1 DEF SaidTo, Heard
<1> HIDE DEF s, f, n
<1>4. \A k \in 1 .. n - 1 : f[k] = s[k + 1] /\ s[k + 1] \in Ops
  BY <1>1, <1>2, <1>3
<1>5. f \in Seq(Ops) /\ Len(f) = n - 1
  BY <1>1, <1>3, <1>4
<1>6. /\ s # <<>> /\ Head(s) = s[1]
      /\ Tail(s) \in Seq(Ops) /\ Len(Tail(s)) = n - 1
  BY <1>1, <1>2
<1>7. \A k \in 1 .. n - 1 : Tail(s)[k] = s[k + 1]
  BY <1>1, <1>2
<1>8. f = Tail(s)
  BY <1>4, <1>5, <1>6, <1>7, SeqEqual
<1>9. Head(s) = Heard(Head(cmds), p)
  BY <1>1, <1>2, <1>6
<1> QED BY <1>6, <1>8, <1>9 DEF s, f

LEMMA SaidJoined ==
    ASSUME TypeOK, NEW more \in Seq(Commands), \A n \in DOMAIN more : more[n].op \notin Words,
           cmds' = cmds \o more, NEW p
    PROVE  /\ Wordless(SaidTo(p))' <=> Wordless(SaidTo(p))
           /\ LastIsStart(SaidTo(p))' <=> LastIsStart(SaidTo(p))
<1> DEFINE s == SaidTo(p)
           f == SaidTo(p)'
           t == [k \in 1 .. Len(more) |-> Heard(more[k], p)]
           n == Len(cmds)
           m == Len(more)
<1>1. /\ cmds \in Seq(Commands) /\ n \in Nat /\ m \in Nat /\ DOMAIN more = 1 .. m
      /\ DOMAIN cmds' = 1 .. n + m
      /\ \A k \in 1 .. n + m : cmds'[k] = IF k <= n THEN cmds[k] ELSE more[k - n]
  <2>1. cmds \in Seq(Commands)
    BY DEF TypeOK
  <2>2. n \in Nat /\ m \in Nat /\ DOMAIN more = 1 .. m
    BY <2>1
  <2>3. /\ cmds \o more \in Seq(Commands) /\ Len(cmds \o more) = n + m
        /\ \A k \in 1 .. n + m : (cmds \o more)[k] = IF k <= n THEN cmds[k] ELSE more[k - n]
    BY <2>1, ConcatProperties
  <2>4. DOMAIN (cmds \o more) = 1 .. n + m
    BY <2>3
  <2> QED BY <2>1, <2>2, <2>3, <2>4
<1>2. s \in Seq(Ops) /\ Len(s) = n /\ \A k \in 1 .. n : s[k] = Heard(cmds[k], p)
  <2>1. s \in Seq(Ops) /\ Len(s) = n
    BY SaidType
  <2>2. \A k \in 1 .. n : s[k] = Heard(cmds[k], p)
    BY <1>1 DEF SaidTo, Heard
  <2> QED BY <2>1, <2>2
<1>3. \A k \in 1 .. m : more[k] \in Commands /\ more[k].op \notin Words
  BY <1>1
<1>4. \A k \in 1 .. m : Heard(more[k], p) \in Ops \ Words
  BY <1>3 DEF Heard, Commands, Ops, Words
<1>5. t \in Seq(Ops) /\ Len(t) = m /\ Wordless(t) /\ \A k \in 1 .. m : t[k] = Heard(more[k], p)
  BY <1>1, <1>4 DEF Wordless
<1>6. f = [k \in 1 .. n + m |-> Heard(cmds'[k], p)]
  BY <1>1 DEF SaidTo, Heard
<1> HIDE DEF s, f, t, n, m
<1>7. /\ s \o t \in Seq(Ops) /\ Len(s \o t) = n + m
      /\ \A k \in 1 .. n + m : (s \o t)[k] = IF k <= n THEN s[k] ELSE t[k - n]
  BY <1>2, <1>5, ConcatProperties
<1>8. \A k \in 1 .. n + m : f[k] = (s \o t)[k] /\ f[k] \in Ops
  <2> SUFFICES ASSUME NEW k \in 1 .. n + m PROVE f[k] = (s \o t)[k] /\ f[k] \in Ops
    OBVIOUS
  <2>1. f[k] = (s \o t)[k]
    <3>1. CASE k <= n
      BY <1>1, <1>2, <1>6, <1>7, <3>1
    <3>2. CASE k > n
      <4>1. k - n \in 1 .. m
        BY <1>1, <3>2
      <4> QED BY <1>1, <1>5, <1>6, <1>7, <3>2, <4>1
    <3>3. k <= n \/ k > n
      BY <1>1
    <3> QED BY <3>1, <3>2, <3>3
  <2>2. (s \o t)[k] \in Ops
    BY <1>7
  <2> QED BY <2>1, <2>2
<1>9. f \in Seq(Ops) /\ Len(f) = n + m
  BY <1>1, <1>6, <1>8
<1>10. f = s \o t
  BY <1>7, <1>8, <1>9, SeqEqual
<1>11. (Wordless(f) <=> Wordless(s)) /\ (LastIsStart(f) <=> LastIsStart(s))
  BY <1>2, <1>5, <1>10, WordlessJoined
<1> QED BY <1>11 DEF f, s

\* The words that wait are addressed to somebody, and the last one for a peer
\* is what the window's toggle for it says.
ToggleSaid ==
    /\ \A n \in DOMAIN cmds : cmds[n].op \in Words => cmds[n].to \in Peers
    /\ \A p \in Peers : LastIsStart(SaidTo(p)) => p \in sharing

\* What a click means to the words: nothing, or a new last one.
Spoken(p) ==
    \/ /\ Wordless(SaidTo(p))' <=> Wordless(SaidTo(p))
       /\ LastIsStart(SaidTo(p))' <=> LastIsStart(SaidTo(p))
       /\ p \in sharing => p \in sharing'
    \/ /\ ~Wordless(SaidTo(p))'
       /\ LastIsStart(SaidTo(p))' => p \in sharing'

\* One command that the queue has room for.
LEMMA PostSays ==
    ASSUME TypeOK, NEW cmd \in Commands, Post(cmd), ~dropped', ToggleSaid,
           cmd.op \in Words => cmd.to \in Peers,
           \A p \in Peers : (cmd.op \notin Words \/ cmd.to # p) => (p \in sharing => p \in sharing'),
           cmd.op = "Start" => cmd.to \in sharing'
    PROVE  ToggleSaid' /\ \A p \in Peers : Spoken(p)
<1>1. cmds' = Append(cmds, cmd) /\ cmds \in Seq(Commands)
  BY DEF Post, TypeOK
<1>2. \A n \in DOMAIN cmds' : cmds'[n].op \in Words => cmds'[n].to \in Peers
  <2>1. /\ DOMAIN cmds' = 1 .. Len(cmds) + 1 /\ DOMAIN cmds = 1 .. Len(cmds) /\ Len(cmds) \in Nat
        /\ cmds'[Len(cmds) + 1] = cmd /\ \A n \in 1 .. Len(cmds) : cmds'[n] = cmds[n]
    BY <1>1
  <2>2. ASSUME NEW n \in 1 .. Len(cmds) + 1, cmds'[n].op \in Words PROVE cmds'[n].to \in Peers
    <3>1. n \in 1 .. Len(cmds) \/ n = Len(cmds) + 1
      BY <2>1
    <3> QED BY <2>1, <2>2, <3>1 DEF ToggleSaid
  <2> QED BY <2>1, <2>2
<1>3. ASSUME NEW p \in Peers PROVE Spoken(p)
  <2>1. SaidTo(p)' = Append(SaidTo(p), Heard(cmd, p)) /\ Heard(cmd, p) \in Ops
    BY <1>1, SaidMore
  <2>2. SaidTo(p) \in Seq(Ops)
    BY SaidType
  <2>3. CASE cmd.op \in Words /\ cmd.to = p
    <3>1. Heard(cmd, p) = cmd.op
      BY <2>3 DEF Heard
    <3>2. ~Wordless(SaidTo(p)') /\ (LastIsStart(SaidTo(p)') <=> cmd.op = "Start")
      BY <2>1, <2>2, <2>3, <3>1, WordAppended
    <3> QED BY <2>3, <3>2 DEF Spoken
  <2>4. CASE cmd.op \notin Words \/ cmd.to # p
    <3>1. Heard(cmd, p) \notin Words
      BY <2>4 DEF Heard, Words
    <3>2. /\ Wordless(SaidTo(p)') <=> Wordless(SaidTo(p))
          /\ LastIsStart(SaidTo(p)') <=> LastIsStart(SaidTo(p))
      BY <2>1, <2>2, <3>1, WordAppended
    <3> QED BY <2>4, <3>2 DEF Spoken
  <2> QED BY <2>3, <2>4
<1> QED BY <1>2, <1>3 DEF ToggleSaid, Spoken

LEMMA ClickSays ==
    ASSUME TypeOK, Window, ~dropped', ToggleSaid
    PROVE  ToggleSaid' /\ \A p \in Peers : Spoken(p)
<1>1. CASE ClickControl \/ ClickSnapHome \/ ClickPrompt
  <2>1. PICK op \in Ops \ Words, to \in Peers \cup {NoPeer} : Post(Command(op, to))
    BY <1>1 DEF ClickControl, ClickSnapHome, ClickPrompt, Ops, Words, TypeOK
  <2>2. Command(op, to) \in Commands /\ Command(op, to).op = op /\ op # "Start"
    BY CommandType DEF Command, Words
  <2>3. sharing' = sharing
    BY <1>1 DEF ClickControl, ClickSnapHome, ClickPrompt
  <2> QED BY <2>1, <2>2, <2>3, PostSays
<1>2. ASSUME NEW p \in Peers, ClickShare(p) \/ ClickStopSharing(p) \/ ClickUnpair(p)
      PROVE  ToggleSaid' /\ \A q \in Peers : Spoken(q)
  <2>1. CASE ClickShare(p)
    <3>1. Command("Start", p) \in Commands /\ Command("Start", p).to = p /\ Command("Start", p).op = "Start"
      BY CommandType DEF Command, Ops
    <3> QED BY <2>1, <3>1, PostSays DEF ClickShare
  <2>2. CASE ClickStopSharing(p)
    <3>1. Command("Stop", p) \in Commands /\ Command("Stop", p).to = p /\ Command("Stop", p).op = "Stop"
      BY CommandType DEF Command, Ops
    <3> QED BY <2>2, <3>1, PostSays DEF ClickStopSharing, Words
  <2>3. CASE ClickUnpair(p)
    <3>1. /\ Command("Disconnect", p) \in Commands
          /\ Command("Disconnect", p).op = "Disconnect" /\ "Disconnect" \notin Words
      BY CommandType DEF Command, Ops, Words
    <3>2. Post(Command("Disconnect", p)) /\ sharing' = sharing
      BY <2>3 DEF ClickUnpair
    <3> QED BY <3>1, <3>2, PostSays
  <2> QED BY <1>2, <2>1, <2>2, <2>3
<1>3. CASE ClickApply
  <2>1. PICK N \in Nat : \E f \in [1 .. N -> Commands] :
           (\A n \in 1 .. N : f[n].op = "Poke") /\ cmds' = cmds \o f
    <3>1. PICK attempts \in SUBSET {NoPeer} :
            LET known == {q \in Peers : rows[q] # "none"} \cup attempts
                room == QueueCap - Len(cmds)
            IN  \E order \in [1 .. Cardinality(known) -> known] :
                  LET pokes == [n \in 1 .. Cardinality(known) |-> Command("Poke", order[n])]
                  IN  /\ known = {order[n] : n \in 1 .. Cardinality(known)}
                      /\ IF Cardinality(known) <= room
                           THEN cmds' = cmds \o pokes /\ UNCHANGED dropped
                           ELSE cmds' = cmds \o SubSeq(pokes, 1, room) /\ dropped' = TRUE
      BY <1>3 DEF ClickApply
    <3> DEFINE known == {q \in Peers : rows[q] # "none"} \cup attempts
    <3>2. PICK order \in [1 .. Cardinality(known) -> known] :
             cmds' = cmds \o [n \in 1 .. Cardinality(known) |-> Command("Poke", order[n])]
      BY <3>1
    <3>3. Cardinality(known) \in Nat
      <4>1. IsFiniteSet({q \in Peers : rows[q] # "none"}) /\ IsFiniteSet(attempts)
        BY PeersAssumption, FS_Subset, FS_Singleton
      <4>2. IsFiniteSet(known)
        BY <4>1, FS_Union
      <4> QED BY <4>2, FS_CardinalityType
    <3>4. \A n \in 1 .. Cardinality(known) :
             Command("Poke", order[n]) \in Commands /\ Command("Poke", order[n]).op = "Poke"
      BY DEF Command, Commands, Ops
    <3> HIDE DEF known
    <3> DEFINE f == [n \in 1 .. Cardinality(known) |-> Command("Poke", order[n])]
    <3>5. f \in [1 .. Cardinality(known) -> Commands] /\ \A n \in 1 .. Cardinality(known) : f[n].op = "Poke"
      BY <3>4
    <3> QED BY <3>2, <3>3, <3>5
  <2>2. PICK more \in Seq(Commands) :
           (\A n \in DOMAIN more : more[n].op \notin Words) /\ cmds' = cmds \o more
    <3>1. PICK f \in [1 .. N -> Commands] :
             (\A n \in 1 .. N : f[n].op = "Poke") /\ cmds' = cmds \o f
      BY <2>1
    <3>2. f \in Seq(Commands) /\ DOMAIN f = 1 .. N
      OBVIOUS
    <3>3. \A n \in DOMAIN f : f[n].op \notin Words
      BY <3>1, <3>2 DEF Words
    <3> QED BY <3>1, <3>2, <3>3
  <2>3. \A p \in Peers : Spoken(p)
    BY <1>3, <2>2, SaidJoined DEF Spoken, ClickApply
  <2>4. \A n \in DOMAIN cmds' : cmds'[n].op \in Words => cmds'[n].to \in Peers
    <3>1. cmds \in Seq(Commands)
      BY DEF TypeOK
    <3>2. \A n \in DOMAIN cmds' : (n \in DOMAIN cmds /\ cmds'[n] = cmds[n])
                                    \/ \E k \in DOMAIN more : cmds'[n] = more[k]
      BY <2>2, <3>1
    <3> QED BY <2>2, <3>2 DEF ToggleSaid
  <2> QED BY <1>3, <2>3, <2>4 DEF ToggleSaid, Spoken, ClickApply
<1> QED BY <1>1, <1>2, <1>3 DEF Window

InHand(i) == i \in routing.left /\ routing.cmd.op \in Words

\* A session that will share when it has what is in hand or in its inbox, and
\* to which nothing more waits to be said, shares as the toggle says.
SharesAsSaid(i) ==
    \A p \in Peers :
        task[i].fp = p /\ Wordless(SaidTo(p)) /\ NearlyShares(i) => p \in sharing

\* Words go to sessions that have said Hello, and only an active one shares.
WordsOf(i) ==
    /\ InHand(i) => task[i].fp = routing.cmd.to /\ routing.cmd.to \in Peers
    /\ task[i].phase \in {"none", "hello"} => task[i].fp = NoPeer /\ Wordless(inbox[i])
    /\ task[i].phase = "ended" => Wordless(inbox[i])
    /\ task[i].mirror => task[i].phase \in {"active", "jammed"}

ShareInv == ~dropped => ToggleSaid /\ \A i \in Sessions : SharesAsSaid(i) /\ WordsOf(i)

\* The window.
LEMMA WindowShares == IInv /\ ShareInv /\ (Window \/ DrainEvent) => ShareInv'
<1>1. ASSUME ShareInv, DrainEvent PROVE ShareInv'
  BY <1>1 DEF DrainEvent, netVars, ShareInv, ToggleSaid, SharesAsSaid, WordsOf, InHand, NearlyShares, SaidTo
<1>2. ASSUME IInv, ShareInv, Window, ~dropped'
      PROVE  ToggleSaid' /\ \A i \in Sessions : (SharesAsSaid(i) /\ WordsOf(i))'
  <2>1. TypeOK /\ ~dropped /\ UNCHANGED <<routing, task, inbox>>
    BY <1>2, ClickType DEF IInv, Clicked
  <2>2. ToggleSaid' /\ \A p \in Peers : Spoken(p)
    BY <1>2, <2>1, ClickSays DEF ShareInv
  <2>3. ASSUME NEW i \in Sessions PROVE WordsOf(i)'
    BY <1>2, <2>1 DEF ShareInv, WordsOf, InHand
  <2>4. ASSUME NEW i \in Sessions PROVE SharesAsSaid(i)'
    <3>1. NearlyShares(i)' = NearlyShares(i)
      BY <2>1 DEF NearlyShares
    <3>2. SharesAsSaid(i)
      BY <1>2, <2>1 DEF ShareInv
    <3> QED BY <2>1, <2>2, <3>1, <3>2 DEF SharesAsSaid, Spoken
  <2> QED BY <2>2, <2>3, <2>4
<1> QED BY <1>1, <1>2 DEF ShareInv

\* A new session knows no words.
LEMMA MakeShares ==
    ASSUME TypeOK, NEW controls \in BOOLEAN, Make(controls), UNCHANGED <<routing, inbox>>,
           NEW i \in Sessions, WordsOf(i)
    PROVE  /\ task'[i].fp = task[i].fp /\ WordsOf(i)'
           /\ NearlyShares(i)' = NearlyShares(i)
<1>1. PICK n \in Sessions :
         /\ task[n].phase = "none"
         /\ task' = [task EXCEPT ![n].phase = "hello", ![n].controls = controls]
  BY DEF Make
<1>2. task \in [Sessions -> Task]
  BY DEF TypeOK
<1>3. task'[i] = IF i = n THEN [task[i] EXCEPT !.phase = "hello", !.controls = controls] ELSE task[i]
  BY <1>1, <1>2
<1>4. /\ task'[i].fp = task[i].fp /\ task'[i].mirror = task[i].mirror
      /\ task'[i].phase = task[i].phase \/ (task[i].phase = "none" /\ task'[i].phase = "hello")
  BY <1>1, <1>2, <1>3 DEF Task
<1> QED BY <1>4 DEF WordsOf, InHand, NearlyShares

\* A command leaves the dispatcher's queue.
LEMMA TakenSays ==
    ASSUME TypeOK, ToggleSaid, cmds # <<>>, cmds' = Tail(cmds), UNCHANGED sharing
    PROVE  /\ ToggleSaid'
           /\ \A p \in Peers :
                 Wordless(SaidTo(p))' =>
                    \/ Wordless(SaidTo(p))
                    \/ /\ Head(cmds).to = p /\ Head(cmds).op \in Words
                       /\ Head(cmds).op = "Start" => p \in sharing
<1>1. ASSUME NEW p \in Peers
      PROVE  /\ LastIsStart(SaidTo(p))' => LastIsStart(SaidTo(p))
             /\ Wordless(SaidTo(p))' =>
                    \/ Wordless(SaidTo(p))
                    \/ /\ Head(cmds).to = p /\ Head(cmds).op \in Words
                       /\ Head(cmds).op = "Start" => LastIsStart(SaidTo(p))
  <2>1. /\ SaidTo(p) # <<>> /\ Head(SaidTo(p)) = Heard(Head(cmds), p)
        /\ SaidTo(p)' = Tail(SaidTo(p)) /\ SaidTo(p) \in Seq(Ops)
    BY SaidLess, SaidType
  <2>2. /\ LastIsStart(Tail(SaidTo(p))) => LastIsStart(SaidTo(p))
        /\ Wordless(Tail(SaidTo(p))) /\ ~Wordless(SaidTo(p)) =>
              /\ Head(SaidTo(p)) \in Words
              /\ Head(SaidTo(p)) = "Start" => LastIsStart(SaidTo(p))
    BY <2>1, WordTaken
  <2>3. Heard(Head(cmds), p) \in Words => Head(cmds).to = p /\ Heard(Head(cmds), p) = Head(cmds).op
    BY DEF Heard, Words
  <2> QED BY <2>1, <2>2, <2>3
<1>2. \A n \in DOMAIN cmds' : cmds'[n].op \in Words => cmds'[n].to \in Peers
  <2>1. cmds \in Seq(Commands) /\ cmds # <<>>
    BY DEF TypeOK
  <2>2. \A n \in DOMAIN Tail(cmds) : n + 1 \in DOMAIN cmds /\ Tail(cmds)[n] = cmds[n + 1]
    BY <2>1
  <2> QED BY <2>2 DEF ToggleSaid
<1> QED BY <1>1, <1>2 DEF ToggleSaid

\* The dispatcher and the accept loop.
LEMMA DispatchShares == IInv /\ ShareInv /\ (Dispatch \/ Accept) => ShareInv'
<1> SUFFICES ASSUME IInv, ShareInv, Dispatch \/ Accept, ~dropped'
             PROVE  ToggleSaid' /\ \A i \in Sessions : (SharesAsSaid(i) /\ WordsOf(i))'
  BY DEF ShareInv
<1>0. TypeOK /\ ~dropped /\ UNCHANGED sharing
  <2>1. UNCHANGED <<dropped, sharing>>
    <3>1. CASE TakeConnect
      BY <3>1 DEF TakeConnect, windowVars
    <3>2. CASE TakeCommand
      BY <3>2 DEF TakeCommand, windowVars
    <3>3. CASE HandOut
      BY <3>3 DEF HandOut, windowVars
    <3>4. CASE Accept
      BY <3>4 DEF Accept, netVars, windowVars
    <3> QED BY <3>1, <3>2, <3>3, <3>4 DEF Dispatch
  <2> QED BY <2>1 DEF IInv
<1>i. ToggleSaid /\ \A i \in Sessions : SharesAsSaid(i) /\ WordsOf(i)
  BY <1>0 DEF ShareInv
<1>1. CASE Accept
  <2>1. ToggleSaid'
    BY <1>0, <1>1, <1>i DEF Accept, netVars, ToggleSaid, SaidTo
  <2>2. ASSUME NEW i \in Sessions PROVE (SharesAsSaid(i) /\ WordsOf(i))'
    <3>1. task'[i].fp = task[i].fp /\ WordsOf(i)' /\ NearlyShares(i)' = NearlyShares(i)
      BY <1>0, <1>1, <1>i, MakeShares DEF Accept, netVars
    <3> QED BY <1>0, <1>1, <1>i, <3>1 DEF SharesAsSaid, SaidTo, Accept, netVars
  <2> QED BY <2>1, <2>2
<1>2. CASE TakeConnect
  <2>1. /\ cmds # <<>> /\ cmds' = Tail(cmds) /\ Head(cmds).op = "Connect"
        /\ Make(TRUE) /\ UNCHANGED <<routing, inbox>>
    BY <1>2 DEF TakeConnect
  <2>2. ToggleSaid' /\ \A p \in Peers : Wordless(SaidTo(p))' => Wordless(SaidTo(p))
    BY <1>0, <1>i, <2>1, TakenSays DEF Words
  <2>3. ASSUME NEW i \in Sessions PROVE (SharesAsSaid(i) /\ WordsOf(i))'
    <3>1. task'[i].fp = task[i].fp /\ WordsOf(i)' /\ NearlyShares(i)' = NearlyShares(i)
      BY <1>0, <1>i, <2>1, MakeShares
    <3> QED BY <1>0, <1>i, <2>2, <3>1 DEF SharesAsSaid
  <2> QED BY <2>2, <2>3
<1>3. CASE TakeCommand
  <2>1. /\ cmds # <<>> /\ cmds' = Tail(cmds) /\ routing.left = {}
        /\ routing' = Routing(Head(cmds), Targets(Head(cmds).to))
        /\ UNCHANGED <<task, inbox>> /\ Head(cmds) \in Commands
    BY <1>0, <1>3, HasRemaining DEF TakeCommand, TypeOK
  <2> DEFINE c == Head(cmds)
  <2>2. /\ ToggleSaid'
        /\ \A p \in Peers : Wordless(SaidTo(p))' =>
              \/ Wordless(SaidTo(p))
              \/ c.to = p /\ c.op \in Words /\ (c.op = "Start" => p \in sharing)
    BY <1>0, <1>i, <2>1, TakenSays
  <2>3. c.op \in Words => c.to \in Peers
    <3>1. 1 \in DOMAIN cmds /\ c = cmds[1]
      BY <1>0, <2>1 DEF TypeOK
    <3> QED BY <1>i, <3>1 DEF ToggleSaid
  <2>4. Targets(c.to) \in SUBSET Sessions
    BY DEF Targets, Made
  <2> HIDE DEF c
  <2>5. /\ routing'.left = Targets(c.to)
        /\ Targets(c.to) # {} => routing'.cmd = c
    BY <2>1, <2>4, RoutingType DEF c
  <2>6. ASSUME NEW i \in Sessions PROVE WordsOf(i)'
    <3>1. InHand(i)' => task[i].fp = c.to /\ c.to \in Peers
      <4> SUFFICES ASSUME i \in Targets(c.to), c.op \in Words PROVE task[i].fp = c.to /\ c.to \in Peers
        BY <2>5 DEF InHand
      <4> QED BY <2>3, PeersAssumption DEF Targets
    <3>2. InHand(i)' => routing'.cmd = c
      BY <2>5 DEF InHand
    <3> QED BY <1>i, <2>1, <3>1, <3>2 DEF WordsOf
  <2>7. ASSUME NEW i \in Sessions, NEW p \in Peers, task'[i].fp = p, Wordless(SaidTo(p))',
               NearlyShares(i)'
        PROVE  p \in sharing'
    <3>1. task[i].fp = p /\ i \in Sessions /\ task[i].phase # "none"
      <4>1. task[i].fp = p
        BY <2>1, <2>7
      <4> QED BY <1>i, <4>1, PeersAssumption DEF WordsOf
    <3>2. ~InHand(i)
      BY <2>1 DEF InHand
    <3>3. CASE InHand(i)'
      <4>1. routing'.cmd = c /\ c.op = "Start" /\ task[i].fp = c.to
        BY <2>5, <2>7, <3>3, <2>6, <2>1 DEF InHand, NearlyShares, WordsOf
      <4>2. Wordless(SaidTo(p)) \/ p \in sharing
        BY <2>2, <2>7, <4>1
      <4>3. ~Wordless(SaidTo(p))
        <5>1. 1 \in DOMAIN cmds /\ c = cmds[1]
          BY <1>0, <2>1 DEF TypeOK, c
        <5>2. 1 \in DOMAIN SaidTo(p) /\ SaidTo(p)[1] = "Start"
          BY <3>1, <4>1, <5>1 DEF SaidTo
        <5> QED BY <5>2 DEF Wordless, Words
      <4> QED BY <1>0, <4>2, <4>3
    <3>4. CASE ~InHand(i)'
      <4>1. NearlyShares(i)
        BY <2>1, <2>7, <3>2, <3>4 DEF NearlyShares, InHand
      <4>2. CASE Wordless(SaidTo(p))
        BY <1>0, <1>i, <3>1, <4>1, <4>2 DEF SharesAsSaid
      <4>3. CASE ~Wordless(SaidTo(p))
        <5>1. c.to = p /\ c.op \in Words
          BY <2>2, <2>7, <4>3
        <5>2. i \in Targets(c.to)
          BY <3>1, <5>1 DEF Targets, Made
        <5> QED BY <2>5, <3>4, <5>1, <5>2 DEF InHand
      <4> QED BY <4>2, <4>3
    <3> QED BY <3>3, <3>4
  <2> QED BY <2>2, <2>6, <2>7 DEF SharesAsSaid
<1>4. CASE HandOut
  <2>1. PICK k \in routing.left :
           /\ routing' = Routing(routing.cmd, routing.left \ {k})
           /\ \/ task[k].phase = "ended" /\ inbox' = inbox
              \/ /\ task[k].phase # "ended"
                 /\ inbox' = [inbox EXCEPT ![k] = Append(@, routing.cmd.op)]
    BY <1>4 DEF HandOut
  <2> DEFINE op == routing.cmd.op
             rest == routing.left \ {k}
  <2>2. /\ routing.cmd \in Commands /\ op \in Ops /\ rest \in SUBSET Sessions /\ k \in Sessions
        /\ inbox \in [Sessions -> Seq(Ops)] /\ UNCHANGED <<cmds, task>>
    BY <1>0, <1>4 DEF TypeOK, Commands, HandOut
  <2>3. routing' = Routing(routing.cmd, rest)
    BY <2>1
  <2> HIDE DEF rest
  <2>4. routing'.left = rest /\ (rest # {} => routing'.cmd = routing.cmd)
    BY <2>2, <2>3, RoutingType
  <2>5. /\ ~InHand(k)'
        /\ \A i \in Sessions \ {k} : InHand(i)' <=> InHand(i)
        /\ \A i \in Sessions : InHand(i)' => routing'.cmd = routing.cmd
    BY <2>4 DEF InHand, rest
  <2>6. ToggleSaid'
    BY <1>0, <1>i, <2>2 DEF ToggleSaid, SaidTo
  <2>7. \A i \in Sessions \ {k} : inbox'[i] = inbox[i]
    BY <2>1, <2>2
  <2>8. ASSUME NEW i \in Sessions \ {k} PROVE (SharesAsSaid(i) /\ WordsOf(i))'
    <3>1. NearlyShares(i)' = NearlyShares(i)
      BY <2>2, <2>5, <2>7, <2>8 DEF NearlyShares, InHand
    <3>2. SharesAsSaid(i) /\ WordsOf(i)
      BY <1>i, <2>8
    <3>3. WordsOf(i)'
      BY <2>2, <2>5, <2>7, <2>8, <3>2 DEF WordsOf
    <3>4. SharesAsSaid(i)'
      BY <1>0, <2>2, <3>1, <3>2 DEF SharesAsSaid, SaidTo
    <3> QED BY <3>3, <3>4
  <2>9. (SharesAsSaid(k) /\ WordsOf(k))'
    <3>1. SharesAsSaid(k) /\ WordsOf(k) /\ k \in routing.left /\ inbox[k] \in Seq(Ops)
      BY <1>i, <2>1, <2>2
    <3>2. CASE task[k].phase = "ended"
      <4>1. inbox'[k] = inbox[k] /\ Wordless(inbox[k]) /\ ~task[k].mirror
        BY <2>1, <3>1, <3>2 DEF WordsOf
      <4>2. ~NearlyShares(k)'
        BY <2>2, <2>5, <4>1 DEF NearlyShares, InHand
      <4> QED BY <2>2, <2>5, <3>1, <4>1, <4>2 DEF SharesAsSaid, WordsOf
    <3>3. CASE task[k].phase # "ended"
      <4>1. inbox'[k] = Append(inbox[k], op)
        BY <2>1, <2>2, <3>3
      <4>2. /\ op \in Words => ~Wordless(inbox'[k]) /\ (LastIsStart(inbox'[k]) <=> op = "Start")
            /\ op \notin Words => /\ Wordless(inbox'[k]) <=> Wordless(inbox[k])
                                  /\ LastIsStart(inbox'[k]) <=> LastIsStart(inbox[k])
        BY <2>2, <3>1, <4>1, WordAppended
      <4>3. NearlyShares(k)' => NearlyShares(k)
        <5>1. NearlyShares(k)' => IF Wordless(inbox'[k]) THEN task[k].mirror ELSE LastIsStart(inbox'[k])
          BY <2>2, <2>5 DEF NearlyShares, InHand
        <5>2. CASE op \in Words
          <6>1. NearlyShares(k)' => op = "Start"
            BY <4>2, <5>1, <5>2
          <6> QED BY <3>1, <5>2, <6>1 DEF NearlyShares
        <5>3. CASE op \notin Words
          <6>1. NearlyShares(k)' => IF Wordless(inbox[k]) THEN task[k].mirror ELSE LastIsStart(inbox[k])
            BY <4>2, <5>1, <5>3
          <6> QED BY <5>3, <6>1 DEF NearlyShares
        <5> QED BY <5>2, <5>3
      <4>4. WordsOf(k)'
        <5>1. task[k].phase \in {"none", "hello"} => op \notin Words
          BY <3>1, PeersAssumption DEF WordsOf, InHand
        <5> QED BY <2>2, <2>5, <3>1, <3>3, <4>2, <5>1 DEF WordsOf
      <4>5. SharesAsSaid(k)'
        BY <1>0, <2>2, <3>1, <4>3 DEF SharesAsSaid, SaidTo
      <4> QED BY <4>4, <4>5
    <3> QED BY <3>2, <3>3
  <2> QED BY <2>6, <2>8, <2>9
<1> QED BY <1>1, <1>2, <1>3, <1>4 DEF Dispatch

\* What a step of a session does to what it has heard.
Left(i) ==
    /\ task'[i].phase = "ended" /\ task'[i].fp = task[i].fp
    /\ ~task'[i].mirror /\ inbox'[i] = <<>>

Met(i) ==
    /\ task[i].phase = "hello" /\ task'[i].phase = "greeted" /\ task'[i].fp \in Peers
    /\ task'[i].mirror = task[i].mirror /\ inbox'[i] = inbox[i]

Quiet(i) ==
    /\ task'[i].phase \notin {"none", "hello", "ended"}
    /\ task[i].phase \in {"active", "jammed"} => task'[i].phase \in {"active", "jammed"}
    /\ task'[i].fp = task[i].fp /\ task'[i].mirror = task[i].mirror /\ inbox'[i] = inbox[i]

Took(i) ==
    /\ task'[i].phase = task[i].phase /\ task[i].phase \in {"pairing", "active"}
    /\ task'[i].fp = task[i].fp
    /\ inbox[i] # <<>> /\ inbox'[i] = Tail(inbox[i])
    /\ task[i].phase = "pairing" => task'[i].mirror = task[i].mirror
    /\ task[i].phase = "active" /\ task'[i].mirror =>
          Head(inbox[i]) = "Start" \/ (task[i].mirror /\ Head(inbox[i]) # "Stop")

LEMMA LeaveLeaves ==
    ASSUME TypeOK, NEW i \in Sessions, Leave(i)
    PROVE  Left(i)
<1>1. task[i] \in Task /\ task \in [Sessions -> Task] /\ inbox \in [Sessions -> Seq(Ops)]
  BY DEF TypeOK
<1>2. task'[i] = [task[i] EXCEPT !.phase = "ended", !.mirror = FALSE]
  BY <1>1 DEF Leave
<1>3. inbox'[i] = <<>>
  BY <1>1 DEF Leave
<1> QED BY <1>1, <1>2, <1>3 DEF Left, Task

\* A change of phase and of nothing else.
LEMMA PhaseIsQuiet ==
    ASSUME TypeOK, NEW i \in Sessions, NEW ph \in Phases \ {"none", "hello", "ended"},
           task' = [task EXCEPT ![i].phase = ph], UNCHANGED inbox,
           task[i].phase \in {"active", "jammed"} => ph \in {"active", "jammed"}
    PROVE  Quiet(i)
<1>1. task[i] \in Task /\ task \in [Sessions -> Task]
  BY DEF TypeOK
<1>2. task'[i] = [task[i] EXCEPT !.phase = ph]
  BY <1>1
<1> QED BY <1>1, <1>2 DEF Quiet, Task

LEMMA SessionMoves ==
    ASSUME TypeOK, NEW i \in Sessions, Advance(i) \/ Peer(i)
    PROVE  Left(i) \/ Met(i) \/ Quiet(i) \/ Took(i)
<1>t. task[i] \in Task /\ task \in [Sessions -> Task] /\ inbox \in [Sessions -> Seq(Ops)]
  BY DEF TypeOK
<1>1. CASE Hello(i)
  <2>1. PICK p \in Peers : task' = [task EXCEPT ![i].phase = "greeted", ![i].fp = p]
    BY <1>1 DEF Hello
  <2>2. task'[i] = [task[i] EXCEPT !.phase = "greeted", !.fp = p]
    BY <1>t, <2>1
  <2>3. task[i].phase = "hello" /\ inbox' = inbox
    BY <1>1 DEF Hello
  <2> QED BY <1>t, <2>2, <2>3 DEF Met, Task
<1>2. CASE HelloFails(i) \/ PeerCancels(i) \/ PeerBreaksOff(i) \/ PeerCloses(i)
              \/ ConcludeUnsaved(i) \/ StartFails(i)
  <2>1. Leave(i)
    BY <1>2 DEF HelloFails, PeerCancels, PeerBreaksOff, PeerCloses, ConcludeUnsaved, StartFails, Teardown
  <2> QED BY <2>1, LeaveLeaves DEF TypeOK
<1>3. CASE PeerConfirms(i)
  <2>1. task' = [task EXCEPT ![i].remote = TRUE] /\ inbox' = inbox /\ task[i].phase = "pairing"
    BY <1>3 DEF PeerConfirms
  <2>2. task'[i] = [task[i] EXCEPT !.remote = TRUE]
    BY <1>t, <2>1
  <2> QED BY <1>t, <2>1, <2>2 DEF Quiet, Task
<1>4. CASE Jam(i) \/ Resume(i) \/ ConcludePairing(i) \/ Start(i)
  <2>1. PICK ph \in {"active", "jammed", "starting"} : task' = [task EXCEPT ![i].phase = ph]
    BY <1>4 DEF Jam, Resume, ConcludePairing, Start
  <2>2. inbox' = inbox
    BY <1>4 DEF Jam, Resume, ConcludePairing, Start
  <2>3. task[i].phase \in {"active", "jammed"} => ph \in {"active", "jammed"}
    <3>1. task'[i].phase = ph
      BY <1>t, <2>1 DEF Task
    <3>2. CASE Jam(i)
      BY <1>t, <3>1, <3>2 DEF Jam, Task
    <3>3. CASE Resume(i)
      BY <1>t, <3>1, <3>3 DEF Resume, Task
    <3>4. CASE ConcludePairing(i)
      BY <3>4 DEF ConcludePairing
    <3>5. CASE Start(i)
      BY <3>5 DEF Start
    <3> QED BY <1>4, <3>2, <3>3, <3>4, <3>5
  <2>4. ph \in Phases \ {"none", "hello", "ended"}
    BY DEF Phases
  <2> QED BY <2>1, <2>2, <2>3, <2>4, PhaseIsQuiet
<1>5. CASE LookUpTrust(i)
  <2>1. PICK ph \in {"starting", "pairing"} : task' = [task EXCEPT ![i].phase = ph]
    BY <1>5 DEF LookUpTrust
  <2>2. inbox' = inbox /\ task[i].phase = "greeted"
    BY <1>5 DEF LookUpTrust
  <2>3. ph \in Phases \ {"none", "hello", "ended"}
    BY DEF Phases
  <2> QED BY <2>1, <2>2, <2>3, PhaseIsQuiet
<1>6. CASE TakeWhilePairing(i)
  <2>1. CASE Leave(i)
    BY <2>1, LeaveLeaves
  <2>2. CASE /\ task' = [task EXCEPT ![i].local = (@ \/ Head(inbox[i]) = "Confirm")]
             /\ inbox' = [inbox EXCEPT ![i] = Tail(@)]
    <3>1. task'[i] = [task[i] EXCEPT !.local = (task[i].local \/ Head(inbox[i]) = "Confirm")]
      BY <1>t, <2>2
    <3>2. /\ task'[i].phase = task[i].phase /\ task'[i].fp = task[i].fp
          /\ task'[i].mirror = task[i].mirror
      BY <1>t, <3>1 DEF Task
    <3>3. inbox'[i] = Tail(inbox[i])
      BY <1>t, <2>2
    <3>4. task[i].phase = "pairing" /\ inbox[i] # <<>>
      BY <1>6 DEF TakeWhilePairing
    <3> QED BY <3>2, <3>3, <3>4 DEF Took
  <2> QED BY <1>6, <2>1, <2>2 DEF TakeWhilePairing
<1>7. CASE TakeWhileActive(i)
  <2>1. CASE Head(inbox[i]) = "Disconnect"
    BY <1>7, <2>1, LeaveLeaves DEF TakeWhileActive, Teardown
  <2>2. CASE Head(inbox[i]) # "Disconnect"
    <3> DEFINE b == CASE Head(inbox[i]) = "Start" -> TRUE
                      [] Head(inbox[i]) = "Stop" -> FALSE
                      [] OTHER -> task[i].mirror
    <3>1. /\ task' = [task EXCEPT ![i] = [task[i] EXCEPT !.mirror = b]]
          /\ inbox' = [inbox EXCEPT ![i] = Tail(@)]
      BY <1>7, <2>2 DEF TakeWhileActive
    <3>2. b => Head(inbox[i]) = "Start" \/ (task[i].mirror /\ Head(inbox[i]) # "Stop")
      OBVIOUS
    <3> HIDE DEF b
    <3>3. task'[i] = [task[i] EXCEPT !.mirror = b] /\ inbox'[i] = Tail(inbox[i])
      BY <1>t, <3>1
    <3>4. /\ task'[i].phase = task[i].phase /\ task'[i].fp = task[i].fp
          /\ task'[i].mirror = b
      BY <1>t, <3>3 DEF Task
    <3>5. task[i].phase = "active" /\ inbox[i] # <<>>
      BY <1>7 DEF TakeWhileActive
    <3> QED BY <3>2, <3>3, <3>4, <3>5 DEF Took
  <2> QED BY <2>1, <2>2
<1> QED BY <1>1, <1>2, <1>3, <1>4, <1>5, <1>6, <1>7 DEF Advance, Peer

\* Whatever it does, it will share after it only if it would have before.
LEMMA NearlySharesLess ==
    ASSUME TypeOK, NEW i \in Sessions, WordsOf(i), UNCHANGED routing,
           Left(i) \/ Met(i) \/ Quiet(i) \/ Took(i)
    PROVE  /\ WordsOf(i)' /\ (NearlyShares(i)' => NearlyShares(i))
           /\ NearlyShares(i)' => task'[i].fp = task[i].fp
<1>i. /\ inbox[i] \in Seq(Ops) /\ Wordless(<<>>)
      /\ InHand(i)' <=> InHand(i)
  BY DEF TypeOK, InHand, Wordless
<1>1. CASE Left(i)
  <2>1. WordsOf(i)'
    BY <1>i, <1>1 DEF Left, WordsOf
  <2>2. NearlyShares(i)' => NearlyShares(i)
    BY <1>i, <1>1 DEF Left, NearlyShares, InHand
  <2> QED BY <1>1, <2>1, <2>2 DEF Left
<1>2. CASE Met(i)
  <2>1. ~InHand(i) /\ Wordless(inbox[i]) /\ ~task[i].mirror
    BY <1>2, PeersAssumption DEF Met, WordsOf
  <2>2. ~NearlyShares(i)'
    BY <1>i, <1>2, <2>1 DEF Met, NearlyShares, InHand
  <2>3. WordsOf(i)'
    BY <1>i, <1>2, <2>1 DEF Met, WordsOf
  <2> QED BY <2>2, <2>3
<1>3. CASE Quiet(i)
  <2>1. WordsOf(i)'
    BY <1>i, <1>3 DEF Quiet, WordsOf
  <2>2. NearlyShares(i)' => NearlyShares(i)
    BY <1>i, <1>3 DEF Quiet, NearlyShares, InHand
  <2> QED BY <1>3, <2>1, <2>2 DEF Quiet
<1>4. CASE Took(i)
  <2> DEFINE s == inbox[i]
             t == inbox'[i]
  <2>1. /\ s # <<>> /\ t = Tail(s)
        /\ task'[i].mirror => Head(s) = "Start" \/ (task[i].mirror /\ Head(s) # "Stop")
    BY <1>4 DEF Took, WordsOf
  <2>2. /\ LastIsStart(t) => LastIsStart(s)
        /\ ~Wordless(t) => ~Wordless(s)
        /\ Wordless(t) /\ ~Wordless(s) =>
              Head(s) \in Words /\ (Head(s) = "Start" => LastIsStart(s))
    BY <1>i, <2>1, WordTaken
  <2>3. Head(s) = "Start" => ~Wordless(s)
    <3>1. 1 \in DOMAIN s /\ s[1] = Head(s)
      BY <1>i, <2>1
    <3> QED BY <3>1 DEF Wordless, Words
  <2> HIDE DEF s, t
  <2>4. ASSUME ~InHand(i), IF ~Wordless(t) THEN LastIsStart(t) ELSE task'[i].mirror
        PROVE  IF ~Wordless(s) THEN LastIsStart(s) ELSE task[i].mirror
    <3>1. CASE ~Wordless(t)
      BY <2>2, <2>4, <3>1
    <3>2. CASE Wordless(t) /\ Head(s) = "Start"
      BY <2>2, <2>3, <3>2
    <3>3. CASE Wordless(t) /\ task[i].mirror /\ Head(s) # "Stop"
      <4>1. Head(s) \in Words => Head(s) = "Start"
        BY <3>3 DEF Words
      <4> QED BY <2>2, <3>3, <4>1
    <3> QED BY <2>1, <2>4, <3>1, <3>2, <3>3
  <2>5. NearlyShares(i)' => NearlyShares(i)
    BY <1>i, <2>4 DEF NearlyShares, InHand, s, t
  <2>6. WordsOf(i)'
    BY <1>i, <1>4 DEF Took, WordsOf
  <2> QED BY <1>4, <2>5, <2>6 DEF Took
<1> QED BY <1>1, <1>2, <1>3, <1>4

LEMMA SessionShares ==
    ASSUME IInv, ShareInv, NEW i \in Sessions, Advance(i) \/ Peer(i)
    PROVE  ShareInv'
<1>1. /\ TypeOK /\ UNCHANGED <<cmds, dropped, routing, sharing>>
      /\ \A j \in Sessions \ {i} : task'[j] = task[j] /\ inbox'[j] = inbox[j]
  BY AdvanceSteps, PeerSteps DEF IInv, Sound, Stepped, windowVars
<1> SUFFICES ASSUME ~dropped
             PROVE  ToggleSaid' /\ \A j \in Sessions : (SharesAsSaid(j) /\ WordsOf(j))'
  BY <1>1 DEF ShareInv
<1>i. ToggleSaid /\ \A j \in Sessions : SharesAsSaid(j) /\ WordsOf(j)
  BY DEF ShareInv
<1>2. ToggleSaid'
  BY <1>1, <1>i DEF ToggleSaid, SaidTo
<1>3. ASSUME NEW j \in Sessions \ {i} PROVE (SharesAsSaid(j) /\ WordsOf(j))'
  <2>1. SharesAsSaid(j) /\ WordsOf(j) /\ task'[j] = task[j] /\ inbox'[j] = inbox[j]
    BY <1>1, <1>i, <1>3
  <2>2. WordsOf(j)'
    BY <1>1, <2>1 DEF WordsOf, InHand
  <2>3. NearlyShares(j)' = NearlyShares(j)
    BY <1>1, <2>1 DEF NearlyShares
  <2> QED BY <1>1, <2>1, <2>2, <2>3 DEF SharesAsSaid, SaidTo
<1>4. (SharesAsSaid(i) /\ WordsOf(i))'
  <2>1. /\ WordsOf(i)' /\ (NearlyShares(i)' => NearlyShares(i))
        /\ NearlyShares(i)' => task'[i].fp = task[i].fp
    BY <1>1, <1>i, SessionMoves, NearlySharesLess
  <2> QED BY <1>1, <1>i, <2>1 DEF SharesAsSaid, SaidTo
<1> QED BY <1>2, <1>3, <1>4

LEMMA InitShares == Init => ShareInv
<1> SUFFICES ASSUME Init PROVE ToggleSaid /\ \A i \in Sessions : SharesAsSaid(i) /\ WordsOf(i)
  BY DEF ShareInv
<1>1. ToggleSaid
  BY DEF Init, ToggleSaid, SaidTo, LastIsStart
<1>2. ASSUME NEW i \in Sessions PROVE SharesAsSaid(i) /\ WordsOf(i)
  <2>1. /\ task[i].phase = "none" /\ task[i].fp = NoPeer /\ ~task[i].mirror
        /\ inbox[i] = <<>> /\ i \notin routing.left
    BY DEF Init, Idle
  <2> QED BY <2>1, PeersAssumption DEF SharesAsSaid, WordsOf, InHand, Wordless
<1> QED BY <1>1, <1>2

\* Unless a command was dropped, no session goes on sharing the screen with a
\* peer for which the window's toggle does not say so, once everything that
\* waits has arrived: every Stop reaches all the sessions a Start before it
\* reached (mirror_ui, route, run_session).
THEOREM SharingIsAlwaysKnown == Spec => []SharingIsKnown
<1>1. IInv /\ ShareInv /\ [Next]_vars => ShareInv'
  <2> SUFFICES ASSUME IInv, ShareInv, [Next]_vars PROVE ShareInv'
    OBVIOUS
  <2>1. CASE UNCHANGED vars
    BY <2>1 DEF vars, netVars, windowVars, ShareInv, ToggleSaid, SharesAsSaid, WordsOf, InHand,
        NearlyShares, SaidTo
  <2> QED BY <2>1, WindowShares, DispatchShares, SessionShares DEF Next
<1>2. IInv /\ ShareInv => SharingIsKnown
  <2> SUFFICES ASSUME IInv, ShareInv, ~dropped, NEW i \in Sessions,
                      task[i].fp # NoPeer, WillShare(i)
               PROVE  task[i].fp \in sharing
    BY DEF SharingIsKnown
  <2> DEFINE p == task[i].fp
  <2>1. p \in Peers
    BY DEF IInv, TypeOK, Task
  <2>2. ToggleSaid /\ SharesAsSaid(i)
    BY DEF ShareInv
  <2>3. CASE Wordless(SaidTo(p))
    BY <2>1, <2>2, <2>3 DEF WillShare, SharesAsSaid
  <2>4. CASE ~Wordless(SaidTo(p))
    BY <2>1, <2>2, <2>4 DEF WillShare, ToggleSaid
  <2> QED BY <2>3, <2>4
<1> QED BY <1>1, <1>2, InitShares, IInvHolds, PTL DEF Spec
=============================================================================
