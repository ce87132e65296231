------------------------------- MODULE Mirror -------------------------------
(***************************************************************************)
(* Mirroring a screen: the threads that share and view it, and how the two *)
(* sessions start and stop them (crates/app/src/mirror.rs, and the mirror  *)
(* commands and messages of run_session in crates/app/src/net.rs).         *)
(*                                                                         *)
(* Streams are numbered in the order in which they are started; the number *)
(* stands for the stream's epoch and video key, a sending thread, and the  *)
(* receiving thread its StartMirror starts.  A thread outlives the stop    *)
(* flag it is given, and the session that gave it: every step between two  *)
(* looks at the flag is a step of its own.  A picture is modelled by the   *)
(* stream it belongs to; Reassembler has the chunks.                       *)
(***************************************************************************)
EXTENDS Naturals, Sequences

CONSTANTS
    MaxStreams,   \* bound: mirrors started
    MaxQueue      \* bound: mirror messages on their way

ASSUME BoundsAssumption == MaxStreams \in Nat /\ MaxQueue \in Nat

Streams == 1 .. MaxStreams
None == 0

Messages == [type : {"StartMirror"}, stream : Streams]
            \cup [type : {"StopMirror"}, stream : {None}]

VARIABLES
    sharer,      \* the sharing end's session is running
    viewer,      \* the viewing end's session is running
    started,     \* the streams started so far
    tx,          \* mirror_tx_stop: the stream whose flag the sharer holds
    rx,          \* mirror_rx_stop: the stream whose flag the viewer holds
    txStop,      \* the streams whose sending thread is told to stop
    rxStop,      \* the streams whose receiving thread is told to stop
    sender,      \* where each sending thread is
    receiver,    \* where each receiving thread is
    ctrl,        \* StartMirror and StopMirror messages on their way
    air,         \* streams of which video is on its way
    got,         \* the stream of the picture a receiving thread has decoded
    port,        \* the receiving thread bound to the video port
    slot         \* video_frame: the stream of the picture on the screen

sessionVars == <<sharer, viewer, started, tx, rx, txStop, rxStop, ctrl>>
threadVars == <<sender, receiver, air, got, port>>
vars == <<sessionVars, threadVars, slot>>

Init ==
    /\ sharer = FALSE /\ viewer = FALSE /\ started = 0
    /\ tx = None /\ rx = None /\ txStop = {} /\ rxStop = {}
    /\ sender = [s \in Streams |-> "idle"] /\ receiver = [s \in Streams |-> "idle"]
    /\ ctrl = <<>> /\ air = {} /\ got = [s \in Streams |-> None]
    /\ port = None /\ slot = None

\* Option::take of a stop handle, and setting the flag behind it.
Flag(flags, held) == IF held = None THEN flags ELSE flags \cup {held}
-----------------------------------------------------------------------------
(***************************************************************************)
(* The sharing end's session.                                              *)
(***************************************************************************)
\* Mutant of StartMirror: a mirror that is already running is not minded.
StartMirrorAgain ==
    /\ sharer /\ started < MaxStreams /\ Len(ctrl) < MaxQueue
    /\ started' = started + 1
    /\ ctrl' = Append(ctrl, [type |-> "StartMirror", stream |-> started'])
    /\ sender' = [sender EXCEPT ![started'] = "top"]
    /\ tx' = started'
    /\ UNCHANGED <<sharer, viewer, rx, txStop, rxStop, receiver, air, got, port, slot>>

\* SessionCmd::StartMirror
StartMirror ==
    /\ sharer /\ tx = None /\ started < MaxStreams /\ Len(ctrl) < MaxQueue
    /\ started' = started + 1
    /\ ctrl' = Append(ctrl, [type |-> "StartMirror", stream |-> started'])
    /\ sender' = [sender EXCEPT ![started'] = "top"]
    /\ tx' = started'
    /\ UNCHANGED <<sharer, viewer, rx, txStop, rxStop, receiver, air, got, port, slot>>

\* SessionCmd::StopMirror: the peer is told in any case.
StopMirror ==
    /\ sharer /\ Len(ctrl) < MaxQueue
    /\ txStop' = Flag(txStop, tx) /\ tx' = None
    /\ ctrl' = Append(ctrl, [type |-> "StopMirror", stream |-> None])
    /\ UNCHANGED <<sharer, viewer, started, rx, rxStop, threadVars, slot>>

\* Mutant of SharerEnds: the sending thread is forgotten.
SharerEndsQuietly ==
    /\ sharer /\ sharer' = FALSE
    /\ tx' = None
    /\ \E n \in 0 .. Len(ctrl) : ctrl' = SubSeq(ctrl, 1, n)
    /\ UNCHANGED <<viewer, started, rx, txStop, rxStop, threadVars, slot>>

\* The teardown, after a disconnect or when the peer is gone.  What the writer
\* had not sent is lost.
SharerEnds ==
    /\ sharer /\ sharer' = FALSE
    /\ txStop' = Flag(txStop, tx) /\ tx' = None
    /\ \E n \in 0 .. Len(ctrl) : ctrl' = SubSeq(ctrl, 1, n)
    /\ UNCHANGED <<viewer, started, rx, rxStop, threadVars, slot>>
-----------------------------------------------------------------------------
(***************************************************************************)
(* The viewing end's session.                                              *)
(***************************************************************************)
\* ControlMsg::StartMirror
HandleStartMirror ==
    /\ viewer /\ ctrl # <<>> /\ Head(ctrl).type = "StartMirror"
    /\ ctrl' = Tail(ctrl)
    /\ rxStop' = Flag(rxStop, rx)
    /\ rx' = Head(ctrl).stream
    /\ receiver' = [receiver EXCEPT ![rx'] = "starting"]
    /\ UNCHANGED <<sharer, viewer, started, tx, txStop, sender, air, got, port, slot>>

\* ControlMsg::StopMirror
HandleStopMirror ==
    /\ viewer /\ ctrl # <<>> /\ Head(ctrl).type = "StopMirror"
    /\ ctrl' = Tail(ctrl)
    /\ rxStop' = Flag(rxStop, rx) /\ rx' = None
    /\ slot' = None
    /\ UNCHANGED <<sharer, viewer, started, tx, txStop, threadVars>>

\* The teardown, after a disconnect or when the peer is gone.
ViewerEnds ==
    /\ viewer /\ viewer' = FALSE
    /\ rxStop' = Flag(rxStop, rx) /\ rx' = None
    /\ slot' = IF rx = None THEN slot ELSE None
    /\ ctrl' = <<>>
    /\ UNCHANGED <<sharer, started, tx, txStop, threadVars>>

\* A new connection of the two devices.
Connect ==
    /\ ~sharer /\ ~viewer
    /\ sharer' = TRUE /\ viewer' = TRUE /\ ctrl' = <<>>
    /\ UNCHANGED <<started, tx, rx, txStop, rxStop, threadVars, slot>>
-----------------------------------------------------------------------------
(***************************************************************************)
(* spawn_sender's thread: look at the flag, then capture, send and sleep.  *)
(* It also ends when capturing fails, at its start or later.               *)
(***************************************************************************)
SenderTop(s) ==
    /\ sender[s] = "top"
    /\ sender' = [sender EXCEPT ![s] = IF s \in txStop THEN "ended" ELSE "sharing"]
    /\ UNCHANGED <<sessionVars, receiver, air, got, port, slot>>

SendFrame(s) ==
    /\ sender[s] = "sharing"
    /\ \/ /\ sender' = [sender EXCEPT ![s] = "top"] /\ air' \in {air, air \cup {s}}
       \/ /\ sender' = [sender EXCEPT ![s] = "ended"] /\ UNCHANGED air
    /\ UNCHANGED <<sessionVars, receiver, got, port, slot>>

Sender(s) == SenderTop(s) \/ SendFrame(s)
-----------------------------------------------------------------------------
(***************************************************************************)
(* spawn_receiver's thread.                                                *)
(***************************************************************************)
\* The bind fails while another thread holds the port, or for reasons of its own.
Bind(s) ==
    /\ receiver[s] = "starting"
    /\ \/ /\ port = None
          /\ port' = s /\ receiver' = [receiver EXCEPT ![s] = "top"]
       \/ /\ receiver' = [receiver EXCEPT ![s] = "ended"] /\ UNCHANGED port
    /\ UNCHANGED <<sessionVars, sender, air, got, slot>>

\* Mutant of ReceiverTop: a thread that stops leaves its picture on the screen.
ReceiverTopLeaves(s) ==
    /\ receiver[s] = "top"
    /\ receiver' = [receiver EXCEPT ![s] = IF s \in rxStop THEN "closing" ELSE "waiting"]
    /\ UNCHANGED <<sessionVars, sender, air, got, port, slot>>

\* The loop's condition; a thread that is told to stop clears the screen.
ReceiverTop(s) ==
    /\ receiver[s] = "top"
    /\ receiver' = [receiver EXCEPT ![s] = IF s \in rxStop THEN "closing" ELSE "waiting"]
    /\ slot' = IF s \in rxStop THEN None ELSE slot
    /\ UNCHANGED <<sessionVars, sender, air, got, port>>

\* recv_from times out.
TimeOut(s) ==
    /\ receiver[s] = "waiting"
    /\ receiver' = [receiver EXCEPT ![s] = "top"]
    /\ UNCHANGED <<sessionVars, sender, air, got, port, slot>>

\* Mutant of Receive: video of any stream opens.
ReceiveAny(s) ==
    /\ receiver[s] = "waiting"
    /\ \E e \in air :
          /\ air' = air \ {e}
          /\ receiver' = [receiver EXCEPT ![s] = "decoded"]
          /\ got' = [got EXCEPT ![s] = e]
    /\ UNCHANGED <<sessionVars, sender, port, slot>>

\* Video arrives on the port.  It opens only under its own key and epoch, and
\* it may complete a picture.
Receive(s) ==
    /\ receiver[s] = "waiting"
    /\ \E e \in air :
          /\ air' = air \ {e}
          /\ \/ /\ e = s
                /\ receiver' = [receiver EXCEPT ![s] = "decoded"]
                /\ got' = [got EXCEPT ![s] = e]
             \/ receiver' = [receiver EXCEPT ![s] = "top"] /\ UNCHANGED got
    /\ UNCHANGED <<sessionVars, sender, port, slot>>

Store(s) ==
    /\ receiver[s] = "decoded"
    /\ receiver' = [receiver EXCEPT ![s] = "top"]
    /\ slot' = got[s] /\ got' = [got EXCEPT ![s] = None]
    /\ UNCHANGED <<sessionVars, sender, air, port>>

\* The thread returns and its socket is dropped, after the screen was cleared.
CloseSocket(s) ==
    /\ receiver[s] = "closing"
    /\ receiver' = [receiver EXCEPT ![s] = "ended"] /\ port' = None
    /\ UNCHANGED <<sessionVars, sender, air, got, slot>>

Receiver(s) ==
    Bind(s) \/ ReceiverTop(s) \/ TimeOut(s) \/ Receive(s) \/ Store(s) \/ CloseSocket(s)

\* The network drops video.
Lose ==
    /\ \E e \in air : air' = air \ {e}
    /\ UNCHANGED <<sessionVars, sender, receiver, got, port, slot>>
-----------------------------------------------------------------------------
SharerSession == StartMirror \/ StopMirror \/ SharerEnds
ViewerSession == HandleStartMirror \/ HandleStopMirror \/ ViewerEnds

Next ==
    \/ Connect \/ SharerSession \/ ViewerSession
    \/ \E s \in Streams : Sender(s) \/ Receiver(s)
    \/ Lose

\* The operating system runs every thread, and the session's task handles the
\* messages that have arrived.  What users do and what the network drops is
\* not to be relied on.
Fairness ==
    /\ \A s \in Streams : WF_vars(Sender(s)) /\ WF_vars(Receiver(s))
    /\ WF_vars(HandleStartMirror \/ HandleStopMirror)

Spec == Init /\ [][Next]_vars /\ Fairness
-----------------------------------------------------------------------------
SenderStates == {"idle", "top", "sharing", "ended"}
ReceiverStates == {"idle", "starting", "top", "waiting", "decoded", "closing", "ended"}

\* Types of the variables.
TypeOK ==
    /\ sharer \in BOOLEAN /\ viewer \in BOOLEAN
    /\ started \in 0 .. MaxStreams
    /\ tx \in {None} \cup Streams /\ rx \in {None} \cup Streams
    /\ txStop \subseteq Streams /\ rxStop \subseteq Streams
    /\ sender \in [Streams -> SenderStates] /\ receiver \in [Streams -> ReceiverStates]
    /\ ctrl \in Seq(Messages)
    /\ air \subseteq Streams
    /\ got \in [Streams -> {None} \cup Streams]
    /\ port \in {None} \cup Streams /\ slot \in {None} \cup Streams

\* Sharing can always be stopped: a thread that sends this screen and was not
\* told to stop is the one a running session holds the flag of
\* (net.rs:632-650, 668-670).  A second start, or a session that ends, must
\* leave no thread behind that nobody can reach.
SharingIsStoppable ==
    \A s \in Streams : sender[s] \in {"top", "sharing"} /\ s \notin txStop => sharer /\ tx = s

\* A picture on the screen has the thread of its own stream behind it, which
\* holds the port and has not begun to close: it is going to replace the
\* picture or to take it away, and no other thread can touch it
\* (mirror.rs:99-105, 144-152).
PictureHasReceiver ==
    slot # None => port = slot /\ receiver[slot] \in {"top", "waiting", "decoded"}

\* The port is held by the one thread that is past its bind and not returned,
\* and a picture a thread has decoded is of its own stream.
ThreadsKeepApart ==
    \A s \in Streams :
        /\ receiver[s] \in {"top", "waiting", "decoded", "closing"} => port = s
        /\ receiver[s] = "decoded" => got[s] = s

\* Every StartMirror on its way is for a receiving thread of its own, which
\* does not exist yet.
StartsAreFresh ==
    /\ \A s \in Streams : s > started => receiver[s] = "idle"
    /\ \A i \in DOMAIN ctrl : ctrl[i].type = "StartMirror" =>
          /\ ctrl[i].stream \in 1 .. started
          /\ receiver[ctrl[i].stream] = "idle"
          /\ \A j \in DOMAIN ctrl : j # i => ctrl[j].stream # ctrl[i].stream

\* The inductive invariant behind the two.
MirrorInv ==
    /\ TypeOK
    /\ SharingIsStoppable
    /\ PictureHasReceiver
    /\ ThreadsKeepApart
    /\ StartsAreFresh

\* When the viewing session no longer wants a picture the screen ends up empty,
\* though a thread may still store the picture it was decoding when the
\* session cleared the screen (net.rs:601-606, 671-674, mirror.rs:152).
QuietAfterStop == <>[](rx = None) => <>[](slot = None)
=============================================================================
