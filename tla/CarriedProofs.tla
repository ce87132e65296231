---------------------------- MODULE CarriedProofs ---------------------------
(***************************************************************************)
(* What a session carries besides the input: the screen (Mirror) and the   *)
(* clipboard (Clipboard).                                                  *)
(*                                                                         *)
(* For any number of mirrors and of messages on their way: a thread that   *)
(* shares the screen can always be told to stop, and a picture on the      *)
(* screen always has the thread of its own stream behind it.               *)
(*                                                                         *)
(* For any texts and any number of copies and failures: no end pushes more *)
(* texts than it has reasons to, and at rest both hold the same text.      *)
(***************************************************************************)
EXTENDS Mirror, Clipboard, SequenceTheorems, TLAPS

(***************************************************************************)
(* The screen.                                                             *)
(***************************************************************************)
LEMMA FlagIsSet ==
    ASSUME NEW flags \in SUBSET Streams, NEW held \in {None} \cup Streams
    PROVE  /\ Flag(flags, held) \subseteq Streams
           /\ flags \subseteq Flag(flags, held)
           /\ held # None => held \in Flag(flags, held)
BY DEF Flag

\* What is left of the messages after the teardown is messages from before.
LEMMA PrefixOf ==
    ASSUME NEW q \in Seq(Messages), NEW n \in 0 .. Len(q)
    PROVE  /\ SubSeq(q, 1, n) \in Seq(Messages)
           /\ DOMAIN SubSeq(q, 1, n) \subseteq DOMAIN q
           /\ \A i \in DOMAIN SubSeq(q, 1, n) : SubSeq(q, 1, n)[i] = q[i]
OBVIOUS

LEMMA TailOf ==
    ASSUME NEW q \in Seq(Messages), q # <<>>
    PROVE  /\ Head(q) \in Messages /\ Head(q) = q[1] /\ 1 \in DOMAIN q
           /\ Tail(q) \in Seq(Messages)
           /\ \A i \in DOMAIN Tail(q) : i + 1 \in DOMAIN q /\ i + 1 # 1 /\ Tail(q)[i] = q[i + 1]
OBVIOUS

LEMMA AppendOf ==
    ASSUME NEW q \in Seq(Messages), NEW m \in Messages
    PROVE  /\ Append(q, m) \in Seq(Messages)
           /\ \A i \in DOMAIN Append(q, m) :
                 \/ i \in DOMAIN q /\ Append(q, m)[i] = q[i]
                 \/ i = Len(q) + 1 /\ Append(q, m)[i] = m
           /\ Len(q) + 1 \notin DOMAIN q
OBVIOUS
-----------------------------------------------------------------------------
LEMMA InitHolds == Init => MirrorInv
<1> SUFFICES ASSUME Init PROVE MirrorInv
  OBVIOUS
<1> USE DEF Init
<1>1. TypeOK
  <2>1. <<>> \in Seq(Messages) /\ started \in 0 .. MaxStreams
    BY BoundsAssumption
  <2> QED BY <2>1 DEF TypeOK, SenderStates, ReceiverStates
<1>2. SharingIsStoppable
  BY DEF SharingIsStoppable
<1>3. PictureHasReceiver
  BY DEF PictureHasReceiver
<1>4. ThreadsKeepApart
  BY DEF ThreadsKeepApart
<1>5. StartsAreFresh
  BY DEF StartsAreFresh
<1> QED BY <1>1, <1>2, <1>3, <1>4, <1>5 DEF MirrorInv

\* A step that neither starts a stream nor touches the messages or a thread's
\* way out of "idle" leaves the messages fresh.
LEMMA FreshUntouched ==
    ASSUME MirrorInv, UNCHANGED <<started, ctrl>>,
           \A s \in Streams : receiver[s] = "idle" => receiver'[s] = "idle"
    PROVE  StartsAreFresh'
<1>1. \A i \in DOMAIN ctrl : ctrl[i].type = "StartMirror" => ctrl[i].stream \in Streams
  BY BoundsAssumption DEF MirrorInv, StartsAreFresh, TypeOK, Streams
<1> QED BY <1>1 DEF MirrorInv, StartsAreFresh

LEMMA StartMirrorStep == MirrorInv /\ StartMirror => MirrorInv'
<1> SUFFICES ASSUME MirrorInv, StartMirror PROVE MirrorInv'
  OBVIOUS
<1> DEFINE m == [type |-> "StartMirror", stream |-> started']
<1>0. /\ started' = started + 1 /\ started \in Nat /\ started' \in Streams
      /\ ctrl \in Seq(Messages) /\ m \in Messages /\ ctrl' = Append(ctrl, m)
  BY BoundsAssumption DEF MirrorInv, TypeOK, StartMirror, Streams, Messages
<1>1. TypeOK'
  <2>1. ctrl' \in Seq(Messages)
    BY <1>0, AppendOf
  <2> QED BY <1>0, <2>1, BoundsAssumption
       DEF MirrorInv, TypeOK, StartMirror, Messages, Streams, SenderStates
<1>2. SharingIsStoppable'
  <2> SUFFICES ASSUME NEW s \in Streams, sender'[s] \in {"top", "sharing"}, s \notin txStop'
               PROVE  sharer' /\ tx' = s
    BY DEF SharingIsStoppable
  <2>1. CASE s = started'
    BY <2>1 DEF StartMirror
  <2>2. CASE s # started'
    <3>1. sender[s] \in {"top", "sharing"} /\ s \notin txStop
      BY <2>2 DEF StartMirror, MirrorInv, TypeOK
    <3>2. tx = s /\ tx = None
      BY <3>1 DEF MirrorInv, SharingIsStoppable, StartMirror
    <3> QED BY <3>2 DEF Streams, None
  <2> QED BY <2>1, <2>2
<1>3. PictureHasReceiver' /\ ThreadsKeepApart'
  BY DEF MirrorInv, PictureHasReceiver, ThreadsKeepApart, StartMirror
<1>4. StartsAreFresh'
  <2>1. receiver' = receiver /\ \A s \in Streams : s > started' => receiver[s] = "idle"
    BY <1>0 DEF StartMirror, MirrorInv, StartsAreFresh, Streams
  <2>2. receiver[started'] = "idle"
    BY <1>0 DEF MirrorInv, StartsAreFresh
  <2>3. ASSUME NEW i \in DOMAIN ctrl', ctrl'[i].type = "StartMirror"
        PROVE  /\ ctrl'[i].stream \in 1 .. started'
               /\ receiver'[ctrl'[i].stream] = "idle"
               /\ \A j \in DOMAIN ctrl' : j # i => ctrl'[j].stream # ctrl'[i].stream
    <3>1. \A k \in DOMAIN ctrl' : \/ k \in DOMAIN ctrl /\ ctrl'[k] = ctrl[k]
                                  \/ k = Len(ctrl) + 1 /\ ctrl'[k] = m
      BY <1>0, AppendOf
    <3>2. \A k \in DOMAIN ctrl : ctrl[k].stream # started'
      <4> SUFFICES ASSUME NEW k \in DOMAIN ctrl, ctrl[k].stream = started' PROVE FALSE
        OBVIOUS
      <4>1. ctrl[k] \in Messages
        BY <1>0
      <4>2. ctrl[k].stream \in 1 .. started
        BY <4>1, <1>0 DEF MirrorInv, StartsAreFresh, Messages, Streams, None
      <4> QED BY <4>2, <1>0
    <3>3. CASE i \in DOMAIN ctrl /\ ctrl'[i] = ctrl[i]
      BY <3>1, <3>2, <3>3, <2>1, <2>3, <1>0 DEF MirrorInv, StartsAreFresh
    <3>4. CASE i = Len(ctrl) + 1 /\ ctrl'[i] = m
      BY <3>1, <3>2, <3>4, <2>1, <2>2, <1>0
    <3> QED BY <3>1, <3>3, <3>4
  <2> QED BY <2>1, <2>3 DEF StartsAreFresh
<1> QED BY <1>1, <1>2, <1>3, <1>4 DEF MirrorInv

\* StopMirror messages add nothing to what has to be fresh.
LEMMA StopMirrorStep == MirrorInv /\ StopMirror => MirrorInv'
<1> SUFFICES ASSUME MirrorInv, StopMirror PROVE MirrorInv'
  OBVIOUS
<1> DEFINE m == [type |-> "StopMirror", stream |-> None]
<1>0. /\ ctrl \in Seq(Messages) /\ m \in Messages /\ ctrl' = Append(ctrl, m)
      /\ txStop \in SUBSET Streams /\ tx \in {None} \cup Streams
  BY DEF MirrorInv, TypeOK, StopMirror, Messages
<1>1. TypeOK'
  <2>1. ctrl' \in Seq(Messages) /\ txStop' \subseteq Streams
    BY <1>0, AppendOf, FlagIsSet DEF StopMirror
  <2> QED BY <2>1 DEF MirrorInv, TypeOK, StopMirror, threadVars
<1>2. SharingIsStoppable'
  <2>1. txStop \subseteq txStop' /\ (tx # None => tx \in txStop')
    BY <1>0, FlagIsSet DEF StopMirror
  <2>2. ~\E s \in Streams : sender'[s] \in {"top", "sharing"} /\ s \notin txStop'
    BY <2>1 DEF MirrorInv, SharingIsStoppable, StopMirror, threadVars, Streams, None
  <2> QED BY <2>2 DEF SharingIsStoppable
<1>3. PictureHasReceiver' /\ ThreadsKeepApart'
  BY DEF MirrorInv, PictureHasReceiver, ThreadsKeepApart, StopMirror, threadVars
<1>4. StartsAreFresh'
  <2>1. \A k \in DOMAIN ctrl' : \/ k \in DOMAIN ctrl /\ ctrl'[k] = ctrl[k]
                                \/ k = Len(ctrl) + 1 /\ ctrl'[k] = m
    BY <1>0, AppendOf
  <2>2. started' = started /\ receiver' = receiver /\ started \in Nat
    BY DEF StopMirror, threadVars, MirrorInv, TypeOK
  <2>3. ASSUME NEW i \in DOMAIN ctrl', ctrl'[i].type = "StartMirror"
        PROVE  /\ ctrl'[i].stream \in 1 .. started
               /\ receiver[ctrl'[i].stream] = "idle"
               /\ \A j \in DOMAIN ctrl' : j # i => ctrl'[j].stream # ctrl'[i].stream
    <3>1. i \in DOMAIN ctrl /\ ctrl'[i] = ctrl[i] /\ ctrl[i].stream \in 1 .. started
      BY <2>1, <2>3 DEF MirrorInv, StartsAreFresh
    <3>2. m.stream # ctrl[i].stream
      BY <3>1 DEF None
    <3> QED BY <2>1, <2>3, <3>1, <3>2 DEF MirrorInv, StartsAreFresh
  <2> QED BY <2>2, <2>3 DEF MirrorInv, StartsAreFresh
<1> QED BY <1>1, <1>2, <1>3, <1>4 DEF MirrorInv

LEMMA SharerEndsStep == MirrorInv /\ SharerEnds => MirrorInv'
<1> SUFFICES ASSUME MirrorInv, SharerEnds PROVE MirrorInv'
  OBVIOUS
<1>0. /\ ctrl \in Seq(Messages)
      /\ txStop \in SUBSET Streams /\ tx \in {None} \cup Streams
  BY DEF MirrorInv, TypeOK
<1>1. PICK n \in 0 .. Len(ctrl) : ctrl' = SubSeq(ctrl, 1, n)
  BY DEF SharerEnds
<1>2. /\ ctrl' \in Seq(Messages) /\ DOMAIN ctrl' \subseteq DOMAIN ctrl
      /\ \A i \in DOMAIN ctrl' : ctrl'[i] = ctrl[i]
  BY <1>0, <1>1, PrefixOf
<1>3. TypeOK'
  <2>1. txStop' \subseteq Streams
    BY <1>0, FlagIsSet DEF SharerEnds
  <2> QED BY <1>2, <2>1 DEF MirrorInv, TypeOK, SharerEnds, threadVars
<1>4. SharingIsStoppable'
  <2>1. txStop \subseteq txStop' /\ (tx # None => tx \in txStop')
    BY <1>0, FlagIsSet DEF SharerEnds
  <2>2. ~\E s \in Streams : sender'[s] \in {"top", "sharing"} /\ s \notin txStop'
    BY <2>1 DEF MirrorInv, SharingIsStoppable, SharerEnds, threadVars, Streams, None
  <2> QED BY <2>2 DEF SharingIsStoppable
<1>5. PictureHasReceiver' /\ ThreadsKeepApart'
  BY DEF MirrorInv, PictureHasReceiver, ThreadsKeepApart, SharerEnds, threadVars
<1>6. StartsAreFresh'
  BY <1>2 DEF MirrorInv, StartsAreFresh, SharerEnds, threadVars
<1> QED BY <1>3, <1>4, <1>5, <1>6 DEF MirrorInv

\* The thread that starts is new: it has no port and no picture, and no other
\* message is for it.
LEMMA HandleStartMirrorStep == MirrorInv /\ HandleStartMirror => MirrorInv'
<1> SUFFICES ASSUME MirrorInv, HandleStartMirror PROVE MirrorInv'
  OBVIOUS
<1> DEFINE s0 == Head(ctrl).stream
<1>0. /\ ctrl \in Seq(Messages) /\ ctrl # <<>> /\ ctrl' = Tail(ctrl)
      /\ Head(ctrl) \in Messages /\ Head(ctrl) = ctrl[1] /\ 1 \in DOMAIN ctrl
      /\ ctrl' \in Seq(Messages)
      /\ \A i \in DOMAIN ctrl' : i + 1 \in DOMAIN ctrl /\ i + 1 # 1 /\ ctrl'[i] = ctrl[i + 1]
  BY TailOf DEF MirrorInv, TypeOK, HandleStartMirror
<1>1. s0 \in Streams /\ s0 \in 1 .. started /\ receiver[s0] = "idle"
  BY <1>0, BoundsAssumption
  DEF MirrorInv, StartsAreFresh, HandleStartMirror, Messages
<1>2. rx' = s0 /\ receiver' = [receiver EXCEPT ![s0] = "starting"]
  BY DEF HandleStartMirror
<1>3. TypeOK'
  <2>1. rxStop' \subseteq Streams
    BY FlagIsSet DEF HandleStartMirror, MirrorInv, TypeOK
  <2> QED BY <1>0, <1>1, <1>2, <2>1
       DEF MirrorInv, TypeOK, HandleStartMirror, ReceiverStates
<1>4. SharingIsStoppable'
  BY DEF MirrorInv, SharingIsStoppable, HandleStartMirror
<1>5. PictureHasReceiver'
  BY <1>1, <1>2 DEF MirrorInv, PictureHasReceiver, HandleStartMirror, TypeOK
<1>6. ThreadsKeepApart'
  BY <1>1, <1>2 DEF MirrorInv, ThreadsKeepApart, HandleStartMirror, TypeOK
<1>7. StartsAreFresh'
  <2>1. started' = started /\ started \in Nat
    BY DEF HandleStartMirror, MirrorInv, TypeOK
  <2>2. \A s \in Streams : s > started' => receiver'[s] = "idle"
    BY <1>1, <1>2, <2>1 DEF MirrorInv, StartsAreFresh, TypeOK
  <2>3. ASSUME NEW i \in DOMAIN ctrl', ctrl'[i].type = "StartMirror"
        PROVE  /\ ctrl'[i].stream \in 1 .. started
               /\ receiver'[ctrl'[i].stream] = "idle"
               /\ \A j \in DOMAIN ctrl' : j # i => ctrl'[j].stream # ctrl'[i].stream
    <3>1. /\ i + 1 \in DOMAIN ctrl /\ ctrl'[i] = ctrl[i + 1]
          /\ ctrl[i + 1].type = "StartMirror" /\ i \in Nat
      BY <1>0, <2>3
    <3>2. /\ ctrl[i + 1].stream \in 1 .. started
          /\ receiver[ctrl[i + 1].stream] = "idle"
          /\ \A j \in DOMAIN ctrl : j # i + 1 => ctrl[j].stream # ctrl[i + 1].stream
      BY <3>1 DEF MirrorInv, StartsAreFresh
    <3>3. ctrl[i + 1].stream # s0
      BY <1>0, <3>1, <3>2
    <3>4. receiver'[ctrl[i + 1].stream] = "idle"
      <4>1. ctrl[i + 1].stream \in Streams
        BY <3>2, <2>1, BoundsAssumption DEF MirrorInv, TypeOK, Streams
      <4> QED BY <3>2, <3>3, <4>1, <1>2 DEF MirrorInv, TypeOK
    <3>5. ASSUME NEW j \in DOMAIN ctrl', j # i PROVE ctrl'[j].stream # ctrl'[i].stream
      <4>1. j \in Nat /\ j + 1 \in DOMAIN ctrl /\ ctrl'[j] = ctrl[j + 1] /\ j + 1 # i + 1
        BY <1>0, <3>1, <3>5
      <4> QED BY <3>1, <3>2, <4>1
    <3> QED BY <3>1, <3>2, <3>4, <3>5
  <2> QED BY <2>1, <2>2, <2>3 DEF StartsAreFresh
<1> QED BY <1>3, <1>4, <1>5, <1>6, <1>7 DEF MirrorInv

LEMMA HandleStopMirrorStep == MirrorInv /\ HandleStopMirror => MirrorInv'
<1> SUFFICES ASSUME MirrorInv, HandleStopMirror PROVE MirrorInv'
  OBVIOUS
<1>0. /\ ctrl' \in Seq(Messages)
      /\ \A i \in DOMAIN ctrl' :
            i \in Nat /\ i + 1 \in DOMAIN ctrl /\ ctrl'[i] = ctrl[i + 1]
  BY TailOf DEF MirrorInv, TypeOK, HandleStopMirror
<1>1. TypeOK'
  <2>1. rxStop' \subseteq Streams
    BY FlagIsSet DEF HandleStopMirror, MirrorInv, TypeOK
  <2> QED BY <1>0, <2>1 DEF MirrorInv, TypeOK, HandleStopMirror, threadVars
<1>2. SharingIsStoppable' /\ PictureHasReceiver' /\ ThreadsKeepApart'
  BY DEF MirrorInv, SharingIsStoppable, PictureHasReceiver, ThreadsKeepApart,
         HandleStopMirror, threadVars
<1>3. StartsAreFresh'
  <2>1. started' = started /\ receiver' = receiver
    BY DEF HandleStopMirror, threadVars
  <2>2. \A i, j \in DOMAIN ctrl' : j # i => j + 1 # i + 1
    BY <1>0
  <2> QED BY <1>0, <2>1, <2>2 DEF MirrorInv, StartsAreFresh
<1> QED BY <1>1, <1>2, <1>3 DEF MirrorInv

LEMMA ViewerEndsStep == MirrorInv /\ ViewerEnds => MirrorInv'
<1> SUFFICES ASSUME MirrorInv, ViewerEnds PROVE MirrorInv'
  OBVIOUS
<1>1. rxStop' \subseteq Streams
  BY FlagIsSet DEF ViewerEnds, MirrorInv, TypeOK
<1>2. TypeOK'
  <2>1. ctrl' \in Seq(Messages) /\ slot' \in {None} \cup Streams
    BY DEF ViewerEnds, MirrorInv, TypeOK
  <2> QED BY <1>1, <2>1 DEF MirrorInv, TypeOK, ViewerEnds, threadVars
<1>3. SharingIsStoppable' /\ ThreadsKeepApart' /\ StartsAreFresh'
  BY DEF MirrorInv, SharingIsStoppable, ThreadsKeepApart, StartsAreFresh,
         ViewerEnds, threadVars
<1>4. PictureHasReceiver'
  <2>1. slot' \in {slot, None} /\ UNCHANGED <<port, receiver>>
    BY DEF ViewerEnds, threadVars
  <2> QED BY <2>1 DEF MirrorInv, PictureHasReceiver
<1> QED BY <1>2, <1>3, <1>4 DEF MirrorInv

LEMMA ConnectStep == MirrorInv /\ Connect => MirrorInv'
BY DEF MirrorInv, TypeOK, SharingIsStoppable, PictureHasReceiver, ThreadsKeepApart,
       StartsAreFresh, Connect, threadVars
-----------------------------------------------------------------------------
LEMMA SenderStep ==
    ASSUME MirrorInv, NEW s \in Streams, Sender(s)
    PROVE  MirrorInv'
<1>0. /\ UNCHANGED <<sessionVars, receiver, got, port, slot>>
      /\ sender[s] \in {"top", "sharing"} /\ air' \in SUBSET Streams
      /\ \E next \in {"top", "sharing", "ended"} : sender' = [sender EXCEPT ![s] = next]
  BY DEF Sender, SenderTop, SendFrame, MirrorInv, TypeOK
<1>1. TypeOK'
  BY <1>0 DEF MirrorInv, TypeOK, sessionVars, SenderStates
<1>2. SharingIsStoppable'
  BY <1>0 DEF MirrorInv, TypeOK, SharingIsStoppable, sessionVars
<1>3. PictureHasReceiver' /\ ThreadsKeepApart' /\ StartsAreFresh'
  BY <1>0 DEF MirrorInv, PictureHasReceiver, ThreadsKeepApart, StartsAreFresh, sessionVars
<1> QED BY <1>1, <1>2, <1>3 DEF MirrorInv

\* A receiving thread touches the screen only while it holds the port, and
\* gives up the port only after it has cleared the screen.
LEMMA ReceiverStep ==
    ASSUME MirrorInv, NEW s \in Streams, Receiver(s)
    PROVE  MirrorInv'
<1>0. UNCHANGED <<sessionVars, sender>> /\ receiver[s] # "idle"
  BY DEF Receiver, Bind, ReceiverTop, TimeOut, Receive, Store, CloseSocket, sessionVars
<1>1. SharingIsStoppable'
  BY <1>0 DEF MirrorInv, SharingIsStoppable, sessionVars
<1>2. StartsAreFresh'
  <2>1. \A t \in Streams : receiver[t] = "idle" => receiver'[t] = "idle"
    BY <1>0 DEF Receiver, Bind, ReceiverTop, TimeOut, Receive, Store, CloseSocket,
                MirrorInv, TypeOK
  <2> QED BY <1>0, <2>1, FreshUntouched DEF sessionVars
<1>3. TypeOK'
  BY <1>0 DEF MirrorInv, TypeOK, sessionVars, ReceiverStates, Receiver, Bind, ReceiverTop,
              TimeOut, Receive, Store, CloseSocket
<1>4. PictureHasReceiver' /\ ThreadsKeepApart'
  <2> USE DEF MirrorInv, TypeOK, PictureHasReceiver, ThreadsKeepApart, Streams, None
  <2>1. CASE Bind(s)
    <3>0. slot' = slot /\ got' = got /\ slot # s
      BY <2>1 DEF Bind
    <3>1. \A t \in Streams : t # s => receiver'[t] = receiver[t]
      BY <2>1 DEF Bind
    <3>2. CASE port = None /\ port' = s /\ receiver' = [receiver EXCEPT ![s] = "top"]
      <4>1. None \notin Streams
        BY BoundsAssumption
      <4>2. slot = None
        BY <3>2
      <4>3. \A t \in Streams :
              receiver[t] \notin {"top", "waiting", "decoded", "closing"}
        BY <3>2, <4>1
      <4> QED BY <3>0, <3>1, <3>2, <4>2, <4>3
    <3>3. CASE port' = port /\ receiver' = [receiver EXCEPT ![s] = "ended"]
      BY <3>0, <3>1, <3>3
    <3> QED BY <2>1, <3>2, <3>3 DEF Bind
  <2>2. CASE ReceiverTop(s)
    BY <2>2 DEF ReceiverTop
  <2>3. CASE TimeOut(s)
    BY <2>3 DEF TimeOut
  <2>4. CASE Receive(s)
    BY <2>4 DEF Receive
  <2>5. CASE Store(s)
    BY <2>5 DEF Store
  <2>6. CASE CloseSocket(s)
    BY <2>6 DEF CloseSocket
  <2> QED BY <2>1, <2>2, <2>3, <2>4, <2>5, <2>6 DEF Receiver
<1> QED BY <1>1, <1>2, <1>3, <1>4 DEF MirrorInv

LEMMA QuietStep == MirrorInv /\ (Lose \/ UNCHANGED vars) => MirrorInv'
BY DEF MirrorInv, TypeOK, SharingIsStoppable, PictureHasReceiver, ThreadsKeepApart,
       StartsAreFresh, Lose, vars, sessionVars, threadVars
-----------------------------------------------------------------------------
\* The inductive invariant of the mirror, for any number of streams and of
\* messages on their way (mirror.rs, and net.rs:584-606, 631-650, 664-674).
THEOREM MirrorInvariant == Spec => []MirrorInv
<1>1. MirrorInv /\ [Next]_vars => MirrorInv'
  <2> SUFFICES ASSUME MirrorInv, [Next]_vars PROVE MirrorInv'
    OBVIOUS
  <2>1. CASE SharerSession
    BY <2>1, StartMirrorStep, StopMirrorStep, SharerEndsStep DEF SharerSession
  <2>2. CASE ViewerSession
    BY <2>2, HandleStartMirrorStep, HandleStopMirrorStep, ViewerEndsStep DEF ViewerSession
  <2>3. CASE Connect
    BY <2>3, ConnectStep
  <2>4. CASE \E s \in Streams : Sender(s) \/ Receiver(s)
    BY <2>4, SenderStep, ReceiverStep
  <2>5. CASE Lose \/ UNCHANGED vars
    BY <2>5, QuietStep
  <2> QED BY <2>1, <2>2, <2>3, <2>4, <2>5 DEF Next
<1> QED BY <1>1, InitHolds, PTL DEF Spec

\* A thread that shares the screen and was not told to stop is the one whose
\* flag a running session holds (net.rs:632-650, 668-670).
THEOREM SharingCanBeStopped == Spec => []SharingIsStoppable
<1>1. MirrorInv => SharingIsStoppable
  BY DEF MirrorInv
<1> QED BY <1>1, MirrorInvariant, PTL

\* A picture on the screen has the thread of its own stream behind it
\* (mirror.rs:99-105, 144-152).
THEOREM PicturesAreOwned == Spec => []PictureHasReceiver
<1>1. MirrorInv => PictureHasReceiver
  BY DEF MirrorInv
<1> QED BY <1>1, MirrorInvariant, PTL

(***************************************************************************)
(* The clipboard.                                                          *)
(***************************************************************************)
LEMMA TheEnds ==
    /\ A \in Ends /\ B \in Ends
    /\ \A p \in Ends : Other(p) \in Ends /\ Other(p) # p /\ Other(Other(p)) = p
    /\ \A p, q \in Ends : q = p \/ q = Other(p)
<1>1. A # B /\ Other(A) = B /\ Other(B) = A
  BY ValuesAssumption DEF Other
<1>2. ASSUME NEW p \in Ends PROVE Other(p) \in Ends /\ Other(p) # p /\ Other(Other(p)) = p
  <2>1. CASE p = A
    BY <1>1, <2>1 DEF Ends
  <2>2. CASE p = B
    BY <1>1, <2>2 DEF Ends
  <2> QED BY <2>1, <2>2 DEF Ends
<1>3. ASSUME NEW p \in Ends, NEW q \in Ends PROVE q = p \/ q = Other(p)
  BY <1>1 DEF Ends, Other
<1>4. A \in Ends /\ B \in Ends
  BY DEF Ends
<1> QED BY <1>2, <1>3, <1>4

LEMMA InitType == ClipboardInit => ClipboardTypeOK
<1>1. <<>> \in Seq(Texts)
  OBVIOUS
<1>2. ASSUME ClipboardInit PROVE toward \in [Ends -> Seq(Texts)]
  BY <1>1, <1>2 DEF ClipboardInit
<1>3. ASSUME ClipboardInit PROVE copies \in [Ends -> Nat] /\ failures \in [Ends -> Nat] /\ pushes \in [Ends -> Nat]
  BY <1>3 DEF ClipboardInit
<1>4. ASSUME ClipboardInit
      PROVE  /\ lastSeen \in [Ends -> Texts \cup {Unseen}] /\ crossed \in BOOLEAN
             /\ pc \in [Ends -> {"apply", "poll", "stopped"}]
  BY <1>4 DEF ClipboardInit
<1> QED BY <1>2, <1>3, <1>4 DEF ClipboardInit, ClipboardTypeOK

\* The newest of the texts on their way.
Newest(s) == s[Len(s)]

LEMMA NewestText ==
    ASSUME NEW s \in Seq(Texts)
    PROVE  /\ \A x \in Texts : Append(s, x) # <<>> /\ Newest(Append(s, x)) = x
           /\ s # <<>> /\ Tail(s) = <<>> => Newest(s) = Head(s)
           /\ s # <<>> /\ Tail(s) # <<>> => Newest(Tail(s)) = Newest(s)
<1>1. ASSUME NEW x \in Texts PROVE Append(s, x) # <<>> /\ Newest(Append(s, x)) = x
  BY <1>1 DEF Newest
<1>2. ASSUME s # <<>> PROVE Len(Tail(s)) = Len(s) - 1 /\ Tail(s) \in Seq(Texts) /\ Head(s) = s[1]
  BY <1>2
<1>3. ASSUME s # <<>>, Tail(s) = <<>> PROVE Newest(s) = Head(s)
  <2>1. Len(<<>>) = 0 /\ Len(s) \in Nat
    OBVIOUS
  <2>2. Len(s) - 1 = Len(<<>>)
    BY <1>2, <1>3, Zenon
  <2>3. Len(s) = 1
    BY <2>1, <2>2
  <2> QED BY <1>2, <1>3, <2>3 DEF Newest
<1>4. ASSUME s # <<>>, Tail(s) # <<>> PROVE Newest(Tail(s)) = Newest(s)
  <2> DEFINE u == Tail(s)
  <2>1. u \in Seq(Texts) /\ u # <<>> /\ Len(u) = Len(s) - 1 /\ Len(s) \in Nat
        /\ \A k \in 1 .. Len(s) - 1 : u[k] = s[k + 1]
    BY <1>2, <1>4
  <2>2. Len(u) >= 1
    <3>1. Len(u) # 0
      BY <2>1, EmptySeq
    <3> QED BY <2>1, <3>1
  <2>3. Len(s) - 1 \in 1 .. Len(s) - 1 /\ (Len(s) - 1) + 1 = Len(s)
    BY <2>1, <2>2
  <2> HIDE DEF u
  <2>4. u[Len(u)] = s[Len(s)]
    BY <2>1, <2>3
  <2> QED BY <2>4 DEF Newest, u
<1> QED BY <1>1, <1>3, <1>4

\* What each step of an end does, with the types of what it changes.
LEMMA CopyStep ==
    ASSUME ClipboardTypeOK, NEW p \in Ends, NEW text \in Texts, UserCopy(p, text)
    PROVE  /\ clip'[p] = text /\ copies'[p] = copies[p] + 1
           /\ \A q \in Ends \ {p} : clip'[q] = clip[q] /\ copies'[q] = copies[q]
           /\ cleared' = cleared \ {p}
           /\ ClipboardTypeOK' /\ UNCHANGED <<lastSeen, toward, pc, failures, pushes, crossed>>
<1>1. /\ clip' = [clip EXCEPT ![p] = text] /\ copies' = [copies EXCEPT ![p] = @ + 1]
      /\ cleared' = cleared \ {p}
      /\ UNCHANGED <<lastSeen, toward, pc, failures, pushes, crossed>>
  BY DEF UserCopy
<1>2. /\ clip' \in [Ends -> Texts \cup {NoText}] /\ copies' \in [Ends -> Nat]
      /\ clip'[p] = text /\ copies'[p] = copies[p] + 1
      /\ \A q \in Ends \ {p} : clip'[q] = clip[q] /\ copies'[q] = copies[q]
  BY <1>1 DEF ClipboardTypeOK
<1> QED BY <1>1, <1>2 DEF ClipboardTypeOK

LEMMA ClearStep ==
    ASSUME ClipboardTypeOK, NEW p \in Ends, UserClears(p)
    PROVE  /\ clip'[p] = NoText /\ cleared' = cleared \cup {p}
           /\ \A q \in Ends \ {p} : clip'[q] = clip[q]
           /\ ClipboardTypeOK'
           /\ UNCHANGED <<lastSeen, toward, pc, copies, failures, pushes, crossed>>
<1>1. /\ clip' = [clip EXCEPT ![p] = NoText] /\ cleared' = cleared \cup {p}
      /\ UNCHANGED <<lastSeen, toward, pc, copies, failures, pushes, crossed>>
  BY DEF UserClears
<1>2. clip' \in [Ends -> Texts \cup {NoText}] /\ cleared' \subseteq Ends
  BY <1>1 DEF ClipboardTypeOK
<1> QED BY <1>1, <1>2 DEF ClipboardTypeOK

LEMMA ApplyStep ==
    ASSUME ClipboardTypeOK, NEW p \in Ends, ApplyRemote(p)
    PROVE  /\ toward[p] # <<>> /\ toward'[p] = Tail(toward[p]) /\ lastSeen'[p] = Head(toward[p])
           /\ \/ clip'[p] = Head(toward[p]) /\ failures' = failures
              \/ clip' = clip /\ failures'[p] = failures[p] + 1
           /\ cleared \ {p} \subseteq cleared'
           /\ \A q \in Ends \ {p} : /\ clip'[q] = clip[q] /\ lastSeen'[q] = lastSeen[q]
                                    /\ toward'[q] = toward[q] /\ failures'[q] = failures[q]
           /\ ClipboardTypeOK' /\ UNCHANGED <<pc, copies, pushes, crossed>>
<1>1. /\ toward[p] # <<>> /\ toward[p] \in Seq(Texts)
      /\ toward' = [toward EXCEPT ![p] = Tail(@)]
      /\ lastSeen' = [lastSeen EXCEPT ![p] = Head(toward[p])]
      /\ UNCHANGED <<pc, copies, pushes, crossed>>
  BY DEF ApplyRemote, ClipboardTypeOK
<1>2. Head(toward[p]) \in Texts /\ Tail(toward[p]) \in Seq(Texts)
  BY <1>1
<1>3. /\ toward' \in [Ends -> Seq(Texts)] /\ toward'[p] = Tail(toward[p])
      /\ \A q \in Ends \ {p} : toward'[q] = toward[q]
  BY <1>1, <1>2 DEF ClipboardTypeOK
<1>4. /\ lastSeen' \in [Ends -> Texts \cup {Unseen}] /\ lastSeen'[p] = Head(toward[p])
      /\ \A q \in Ends \ {p} : lastSeen'[q] = lastSeen[q]
  BY <1>1, <1>2 DEF ClipboardTypeOK
<1>5. CASE clip' = [clip EXCEPT ![p] = Head(toward[p])] /\ failures' = failures /\ cleared' = cleared \ {p}
  BY <1>1, <1>2, <1>3, <1>4, <1>5 DEF ClipboardTypeOK
<1>6. CASE failures' = [failures EXCEPT ![p] = @ + 1] /\ clip' = clip /\ cleared' = cleared
  BY <1>1, <1>2, <1>3, <1>4, <1>6 DEF ClipboardTypeOK
<1> QED BY <1>5, <1>6 DEF ApplyRemote

LEMMA PushStep ==
    ASSUME ClipboardTypeOK, NEW p \in Ends, Poll(p), Changed(p)
    PROVE  /\ clip[p] \in Texts /\ lastSeen'[p] = clip[p] /\ pushes'[p] = pushes[p] + 1
           /\ toward'[Other(p)] = Append(toward[Other(p)], clip[p])
           /\ crossed' = (toward[p] # <<>> \/ (crossed /\ toward[Other(p)] # <<>>))
           /\ \A q \in Ends \ {p} : lastSeen'[q] = lastSeen[q] /\ pushes'[q] = pushes[q]
           /\ \A q \in Ends \ {Other(p)} : toward'[q] = toward[q]
           /\ ClipboardTypeOK' /\ UNCHANGED <<clip, copies, failures, cleared>>
<1>1. clip[p] \in Texts
  BY DEF ClipboardTypeOK, Changed
<1>2. /\ pc' = [pc EXCEPT ![p] = "apply"]
      /\ lastSeen' = [lastSeen EXCEPT ![p] = clip[p]]
      /\ toward' = [toward EXCEPT ![Other(p)] = Append(@, clip[p])]
      /\ pushes' = [pushes EXCEPT ![p] = @ + 1]
      /\ crossed' = (toward[p] # <<>> \/ (crossed /\ toward[Other(p)] # <<>>))
      /\ UNCHANGED <<clip, copies, failures, cleared>>
  BY DEF Poll
<1>3. Other(p) \in Ends
  BY TheEnds
<1>4. toward[Other(p)] \in Seq(Texts)
  BY <1>3 DEF ClipboardTypeOK
<1>5. Append(toward[Other(p)], clip[p]) \in Seq(Texts)
  BY <1>1, <1>4
<1>6. /\ toward' \in [Ends -> Seq(Texts)]
      /\ toward'[Other(p)] = Append(toward[Other(p)], clip[p])
      /\ \A q \in Ends \ {Other(p)} : toward'[q] = toward[q]
  BY <1>2, <1>3, <1>5 DEF ClipboardTypeOK
<1>7. crossed' \in BOOLEAN
  BY <1>2
<1>8. /\ lastSeen' \in [Ends -> Texts \cup {Unseen}] /\ pushes' \in [Ends -> Nat]
      /\ pc' \in [Ends -> {"apply", "poll", "stopped"}]
      /\ lastSeen'[p] = clip[p] /\ pushes'[p] = pushes[p] + 1
      /\ \A q \in Ends \ {p} : lastSeen'[q] = lastSeen[q] /\ pushes'[q] = pushes[q]
  BY <1>1, <1>2 DEF ClipboardTypeOK
<1> QED BY <1>1, <1>2, <1>6, <1>7, <1>8 DEF ClipboardTypeOK

\* The steps that touch no text.
LEMMA IdleStep ==
    ASSUME ClipboardTypeOK,
           \/ UNCHANGED clipboardVars
           \/ \E p \in Ends : Drained(p) \/ Stop(p) \/ (Poll(p) /\ ~Changed(p))
    PROVE  ClipboardTypeOK' /\ UNCHANGED <<clip, lastSeen, toward, copies, failures, pushes, crossed, cleared>>
<1>1. CASE UNCHANGED clipboardVars
  BY <1>1 DEF clipboardVars, ClipboardTypeOK
<1>2. ASSUME NEW p \in Ends, Drained(p) \/ Stop(p) \/ (Poll(p) /\ ~Changed(p))
      PROVE  ClipboardTypeOK' /\ UNCHANGED <<clip, lastSeen, toward, copies, failures, pushes, crossed, cleared>>
  BY <1>2 DEF Drained, Stop, Poll, ClipboardTypeOK
<1> QED BY <1>1, <1>2

\* Every text an end pushes is accounted for.
Accounted(p) == pushes[p] + (IF Changed(p) THEN 1 ELSE 0) <= copies[p] + 1 + failures[p]

\* A clipboard that had a text has one, unless its user took it away.
KeepsText(p) ==
    failures[p] = 0 /\ p \notin cleared => lastSeen[p] = Unseen \/ clip[p] # NoText

\* While texts do not cross, those on their way end with what their sender saw
\* last, and once they have arrived both ends saw the same last.
Follows(p) ==
    ~crossed =>
        IF toward[p] # <<>>
          THEN toward[Other(p)] = <<>> /\ lastSeen[Other(p)] = Newest(toward[p])
          ELSE toward[Other(p)] = <<>> => lastSeen[p] = lastSeen[Other(p)]

ClipInv == ClipboardTypeOK /\ \A p \in Ends : Accounted(p) /\ KeepsText(p) /\ Follows(p)

LEMMA AccountsAtFirst == ClipboardInit => ClipInv
BY InitType, TheEnds DEF ClipboardInit, ClipInv, Accounted, KeepsText, Follows

LEMMA CopyKeeps ==
    ASSUME ClipInv, NEW p \in Ends, NEW text \in Texts, UserCopy(p, text)
    PROVE  ClipInv'
<1>1. /\ clip'[p] = text /\ copies'[p] = copies[p] + 1
      /\ \A q \in Ends \ {p} : clip'[q] = clip[q] /\ copies'[q] = copies[q]
      /\ cleared' = cleared \ {p}
      /\ ClipboardTypeOK' /\ UNCHANGED <<lastSeen, toward, pc, failures, pushes, crossed>>
  BY CopyStep DEF ClipInv
<1>2. ASSUME NEW q \in Ends PROVE Accounted(q)' /\ KeepsText(q)' /\ Follows(q)'
  <2>1. Accounted(q) /\ KeepsText(q) /\ Follows(q)
    BY DEF ClipInv
  <2>2. /\ pushes[q] \in Nat /\ copies[q] \in Nat /\ failures[q] \in Nat
    BY DEF ClipInv, ClipboardTypeOK
  <2>3. Accounted(q)'
    BY <1>1, <2>1, <2>2 DEF Accounted, Changed
  <2>4. KeepsText(q)'
    BY <1>1, <2>1, ValuesAssumption DEF KeepsText
  <2>5. Follows(q)'
    BY <1>1, <2>1 DEF Follows
  <2> QED BY <2>3, <2>4, <2>5
<1> QED BY <1>1, <1>2 DEF ClipInv

LEMMA ClearKeeps ==
    ASSUME ClipInv, NEW p \in Ends, UserClears(p)
    PROVE  ClipInv'
<1>1. /\ clip'[p] = NoText /\ cleared' = cleared \cup {p}
      /\ \A q \in Ends \ {p} : clip'[q] = clip[q]
      /\ ClipboardTypeOK'
      /\ UNCHANGED <<lastSeen, toward, pc, copies, failures, pushes, crossed>>
  BY ClearStep DEF ClipInv
<1>2. ASSUME NEW q \in Ends PROVE Accounted(q)' /\ KeepsText(q)' /\ Follows(q)'
  <2>1. Accounted(q) /\ KeepsText(q) /\ Follows(q)
    BY DEF ClipInv
  <2>2. pushes[q] \in Nat /\ copies[q] \in Nat /\ failures[q] \in Nat
    BY DEF ClipInv, ClipboardTypeOK
  <2>3. CASE q = p
    BY <1>1, <2>1, <2>2, <2>3 DEF Accounted, Changed, KeepsText, Follows
  <2>4. CASE q # p
    BY <1>1, <2>1, <2>4 DEF Accounted, Changed, KeepsText, Follows
  <2> QED BY <2>3, <2>4
<1> QED BY <1>1, <1>2 DEF ClipInv

LEMMA ApplyKeeps ==
    ASSUME ClipInv, NEW p \in Ends, ApplyRemote(p)
    PROVE  ClipInv'
<1> DEFINE t == Head(toward[p])
           r == Other(p)
<1>1. /\ toward[p] # <<>> /\ toward'[p] = Tail(toward[p]) /\ lastSeen'[p] = t
      /\ \/ clip'[p] = t /\ failures' = failures
         \/ clip' = clip /\ failures'[p] = failures[p] + 1
      /\ cleared \ {p} \subseteq cleared'
      /\ \A q \in Ends \ {p} : /\ clip'[q] = clip[q] /\ lastSeen'[q] = lastSeen[q]
                               /\ toward'[q] = toward[q] /\ failures'[q] = failures[q]
      /\ ClipboardTypeOK' /\ UNCHANGED <<pc, copies, pushes, crossed>>
  BY ApplyStep DEF ClipInv
<1>2. toward[p] \in Seq(Texts) /\ t \in Texts
  BY <1>1 DEF ClipInv, ClipboardTypeOK
<1>3. ASSUME NEW q \in Ends PROVE Accounted(q)' /\ KeepsText(q)'
  <2>1. Accounted(q) /\ KeepsText(q)
    BY DEF ClipInv
  <2>2. pushes[q] \in Nat /\ copies[q] \in Nat /\ failures[q] \in Nat
    BY DEF ClipInv, ClipboardTypeOK
  <2> HIDE DEF t
  <2>3. CASE q = p
    <3>1. CASE clip'[p] = t /\ failures' = failures
      BY <1>1, <1>2, <2>1, <2>2, <2>3, <3>1, ValuesAssumption DEF Accounted, KeepsText, Changed
    <3>2. CASE clip' = clip /\ failures'[p] = failures[p] + 1
      <4>1. failures'[q] # 0 /\ KeepsText(q)'
        BY <2>2, <2>3, <3>2 DEF KeepsText
      <4>2. Accounted(q)'
        BY <1>1, <2>1, <2>2, <2>3, <3>2 DEF Accounted, Changed
      <4> QED BY <4>1, <4>2
    <3> QED BY <1>1, <3>1, <3>2
  <2>4. CASE q # p
    BY <1>1, <2>1, <2>4 DEF Accounted, KeepsText, Changed
  <2> QED BY <2>3, <2>4
<1>4. ASSUME ~crossed'
      PROVE  Follows(p)' /\ Follows(r)'
  <2>1. r \in Ends /\ r # p /\ Other(r) = p
    BY TheEnds
  <2>2. toward[r] = <<>> /\ lastSeen[r] = Newest(toward[p])
    BY <1>1, <1>4 DEF ClipInv, Follows
  <2>3. toward'[r] = <<>> /\ lastSeen'[r] = lastSeen[r]
    BY <1>1, <2>1, <2>2
  <2>4. CASE toward'[p] = <<>>
    <3>1. Newest(toward[p]) = t
      BY <1>1, <1>2, <2>4, NewestText
    <3> QED BY <1>1, <2>1, <2>2, <2>3, <2>4, <3>1 DEF Follows
  <2>5. CASE toward'[p] # <<>>
    <3>1. Newest(toward'[p]) = Newest(toward[p])
      BY <1>1, <1>2, <2>5, NewestText
    <3> QED BY <1>1, <2>1, <2>2, <2>3, <2>5, <3>1 DEF Follows
  <2> QED BY <2>4, <2>5
<1>5. \A q \in Ends : Follows(q)'
  BY <1>4, TheEnds DEF Follows
<1> QED BY <1>1, <1>3, <1>5 DEF ClipInv

LEMMA PushKeeps ==
    ASSUME ClipInv, NEW p \in Ends, Poll(p), Changed(p)
    PROVE  ClipInv'
<1> DEFINE r == Other(p)
<1>1. /\ clip[p] \in Texts /\ lastSeen'[p] = clip[p] /\ pushes'[p] = pushes[p] + 1
      /\ toward'[r] = Append(toward[r], clip[p])
      /\ crossed' = (toward[p] # <<>> \/ (crossed /\ toward[r] # <<>>))
      /\ \A q \in Ends \ {p} : lastSeen'[q] = lastSeen[q] /\ pushes'[q] = pushes[q]
      /\ \A q \in Ends \ {r} : toward'[q] = toward[q]
      /\ ClipboardTypeOK' /\ UNCHANGED <<clip, copies, failures, cleared>>
  BY PushStep DEF ClipInv
<1>2. r \in Ends /\ r # p /\ Other(r) = p
  BY TheEnds
<1>3. ASSUME NEW q \in Ends PROVE Accounted(q)' /\ KeepsText(q)'
  <2>1. Accounted(q) /\ KeepsText(q)
    BY DEF ClipInv
  <2>2. pushes[q] \in Nat /\ copies[q] \in Nat /\ failures[q] \in Nat
    BY DEF ClipInv, ClipboardTypeOK
  <2>3. CASE q = p
    BY <1>1, <2>1, <2>2, <2>3, ValuesAssumption DEF Accounted, KeepsText, Changed
  <2>4. CASE q # p
    BY <1>1, <2>1, <2>4 DEF Accounted, KeepsText, Changed
  <2> QED BY <2>3, <2>4
<1>4. ASSUME ~crossed'
      PROVE  Follows(p)' /\ Follows(r)'
  <2>1. toward'[p] = <<>> /\ toward[r] \in Seq(Texts)
    BY <1>1, <1>2, <1>4 DEF ClipInv, ClipboardTypeOK
  <2>2. toward'[r] # <<>> /\ Newest(toward'[r]) = clip[p]
    BY <1>1, <2>1, NewestText
  <2> QED BY <1>1, <1>2, <2>1, <2>2 DEF Follows
<1>5. \A q \in Ends : Follows(q)'
  BY <1>4, TheEnds DEF Follows
<1> QED BY <1>1, <1>3, <1>5 DEF ClipInv

LEMMA ClipInvHolds == ClipboardSpec => []ClipInv
<1>1. ClipInv /\ [ClipboardNext]_clipboardVars => ClipInv'
  <2> SUFFICES ASSUME ClipInv, [ClipboardNext]_clipboardVars PROVE ClipInv'
    OBVIOUS
  <2>1. ASSUME UNCHANGED clipboardVars \/ \E p \in Ends : Drained(p) \/ Stop(p) \/ (Poll(p) /\ ~Changed(p))
        PROVE  ClipInv'
    <3>1. ClipboardTypeOK' /\ UNCHANGED <<clip, lastSeen, toward, copies, failures, pushes, crossed, cleared>>
      BY <2>1, IdleStep DEF ClipInv
    <3> QED BY <3>1 DEF ClipInv, Accounted, KeepsText, Follows, Changed
  <2> QED BY <2>1, CopyKeeps, ClearKeeps, ApplyKeeps, PushKeeps DEF ClipboardNext, Sync
<1> QED BY <1>1, AccountsAtFirst, PTL DEF ClipboardSpec

\* No echo loop: an end pushes a text only because its user copied one, because
\* it was there when the session began, or, once each, because setting the
\* peer's text failed (clipboard/src/lib.rs, apply_remote, poll_local_change).
THEOREM EchoesAreBounded == ClipboardSpec => []EchoIsBounded
<1>1. ClipInv => EchoIsBounded
  BY DEF ClipInv, Accounted, EchoIsBounded
<1> QED BY <1>1, ClipInvHolds, PTL

\* Once both threads are done, the clipboards agree, unless texts crossed on the
\* way, setting one failed or a user has taken the text away since (clipboardsync.rs, clipboard/src/lib.rs).
THEOREM ClipboardsAgreeAtRest == ClipboardSpec => []AgreeAtRest
<1>1. ASSUME ClipInv, AtRest, ~crossed, cleared = {}, \A p \in Ends : failures[p] = 0
      PROVE  clip[A] = clip[B]
  <2>1. lastSeen[A] = lastSeen[B] /\ A \in Ends /\ B \in Ends
    BY <1>1, ValuesAssumption DEF ClipInv, Follows, AtRest, Ends, Other
  <2>2. \A p \in Ends : /\ clip[p] \in {NoText, lastSeen[p]}
                        /\ lastSeen[p] = Unseen \/ clip[p] # NoText
                        /\ clip[p] \in Texts \cup {NoText}
    BY <1>1 DEF ClipInv, KeepsText, AtRest, Changed, ClipboardTypeOK
  <2> QED BY <2>1, <2>2, ValuesAssumption
<1>2. ClipInv => AgreeAtRest
  BY <1>1 DEF AgreeAtRest
<1> QED BY <1>2, ClipInvHolds, PTL
=============================================================================
