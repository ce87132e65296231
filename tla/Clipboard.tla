----------------------------- MODULE Clipboard ------------------------------
(***************************************************************************)
(* Clipboard synchronisation between the two ends of a session: the sync   *)
(* thread of each end (crates/app/src/clipboardsync.rs) and its            *)
(* ClipboardManager (crates/clipboard/src/lib.rs).  A thread applies what  *)
(* the peer sent until nothing is waiting, then polls the clipboard once   *)
(* for a local change and pushes it, and sleeps.  Texts reach the peer in  *)
(* order (toward stands for the control channel and the command queue).    *)
(*                                                                         *)
(* CarriedProofs is about Mirror and this module together: Init, Next and  *)
(* Spec have the clipboard's name.                                         *)
(***************************************************************************)
EXTENDS Naturals, Sequences

CONSTANTS
    A, B,          \* the two ends
    Texts,         \* what users copy
    NoText,        \* an empty clipboard, or one without text
    Unseen,        \* last_seen = None
    MaxCopies,     \* bound: how often users copy
    MaxFailures    \* bound: how often set_text fails

ASSUME ValuesAssumption == A # B /\ NoText \notin Texts /\ Unseen \notin Texts \cup {NoText}
ASSUME ClipboardBoundsAssumption == MaxCopies \in Nat /\ MaxFailures \in Nat

Ends == {A, B}
Other(p) == IF p = A THEN B ELSE A

VARIABLES
    clip,        \* the clipboard of each end's operating system
    lastSeen,    \* ClipboardManager.last_seen
    toward,      \* texts on their way to each end's thread
    pc,          \* "apply", "poll" or "stopped"
    copies,      \* history: how often each user copied,
    failures,    \* how often each end failed to set its clipboard,
    pushes,      \* how often each end pushed a text
    crossed,     \* history: a text was pushed while one came the other way, and
                 \* texts have been on their way ever since
    cleared      \* history: the ends whose user took the text away since it came

clipboardVars ==
    <<clip, lastSeen, toward, pc, copies, failures, pushes, crossed, cleared>>

ClipboardInit ==
    /\ clip \in [Ends -> Texts \cup {NoText}]
    /\ lastSeen = [p \in Ends |-> Unseen]
    /\ toward = [p \in Ends |-> <<>>]
    /\ pc = [p \in Ends |-> "apply"]
    /\ copies = [p \in Ends |-> 0]
    /\ failures = [p \in Ends |-> 0]
    /\ pushes = [p \in Ends |-> 0]
    /\ crossed = FALSE
    /\ cleared = {}

UserCopy(p, text) ==
    /\ copies[A] + copies[B] < MaxCopies
    /\ text # clip[p]
    /\ clip' = [clip EXCEPT ![p] = text]
    /\ copies' = [copies EXCEPT ![p] = @ + 1]
    /\ cleared' = cleared \ {p}
    /\ UNCHANGED <<lastSeen, toward, pc, failures, pushes, crossed>>

\* The user copies something that is not text, or empties the clipboard.
UserClears(p) ==
    /\ clip[p] # NoText
    /\ clip' = [clip EXCEPT ![p] = NoText]
    /\ cleared' = cleared \cup {p}
    /\ UNCHANGED <<lastSeen, toward, pc, copies, failures, pushes, crossed>>

\* Mutant of ApplyRemote: the text is set and not remembered.
ApplyRemoteForgets(p) ==
    /\ pc[p] = "apply" /\ toward[p] # <<>>
    /\ toward' = [toward EXCEPT ![p] = Tail(@)]
    /\ clip' = [clip EXCEPT ![p] = Head(toward[p])]
    /\ cleared' = cleared \ {p}
    /\ UNCHANGED <<lastSeen, pc, copies, failures, pushes, crossed>>

\* Mutant of ApplyRemote: of several texts waiting, the oldest is kept.
ApplyRemoteOldest(p) ==
    /\ pc[p] = "apply" /\ toward[p] # <<>>
    /\ toward' = [toward EXCEPT ![p] = <<>>]
    /\ lastSeen' = [lastSeen EXCEPT ![p] = Head(toward[p])]
    /\ clip' = [clip EXCEPT ![p] = Head(toward[p])]
    /\ cleared' = cleared \ {p}
    /\ UNCHANGED <<pc, copies, failures, pushes, crossed>>

\* apply_remote remembers the text before it tries to set it.
ApplyRemote(p) ==
    /\ pc[p] = "apply" /\ toward[p] # <<>>
    /\ toward' = [toward EXCEPT ![p] = Tail(@)]
    /\ lastSeen' = [lastSeen EXCEPT ![p] = Head(toward[p])]
    /\ \/ /\ clip' = [clip EXCEPT ![p] = Head(toward[p])]
          /\ cleared' = cleared \ {p}
          /\ UNCHANGED failures
       \/ /\ failures[A] + failures[B] < MaxFailures
          /\ failures' = [failures EXCEPT ![p] = @ + 1]
          /\ UNCHANGED <<clip, cleared>>
    /\ UNCHANGED <<pc, copies, pushes, crossed>>

\* Mutant of Drained: the thread waits for the peer before it polls.
DrainedBlocking(p) ==
    /\ pc[p] = "apply" /\ toward[p] # <<>>
    /\ pc' = [pc EXCEPT ![p] = "poll"]
    /\ UNCHANGED <<clip, lastSeen, toward, copies, failures, pushes, crossed, cleared>>

\* try_recv finds nothing waiting.
Drained(p) ==
    /\ pc[p] = "apply" /\ toward[p] = <<>>
    /\ pc' = [pc EXCEPT ![p] = "poll"]
    /\ UNCHANGED <<clip, lastSeen, toward, copies, failures, pushes, crossed, cleared>>

\* poll_local_change has a text to report.
Changed(p) == clip[p] \notin {NoText, lastSeen[p]}

\* Poll the clipboard, push what changed, sleep.
Poll(p) ==
    /\ pc[p] = "poll"
    /\ pc' = [pc EXCEPT ![p] = "apply"]
    /\ IF Changed(p)
         THEN /\ lastSeen' = [lastSeen EXCEPT ![p] = clip[p]]
              /\ toward' = [toward EXCEPT ![Other(p)] = Append(@, clip[p])]
              /\ pushes' = [pushes EXCEPT ![p] = @ + 1]
              /\ crossed' = (toward[p] # <<>> \/ (crossed /\ toward[Other(p)] # <<>>))
         ELSE UNCHANGED <<lastSeen, toward, pushes, crossed, cleared>>
    /\ UNCHANGED <<clip, copies, failures, cleared>>

\* The session ends: the thread finds Stop, or its channel closed.
Stop(p) ==
    /\ pc[p] = "apply"
    /\ pc' = [pc EXCEPT ![p] = "stopped"]
    /\ UNCHANGED <<clip, lastSeen, toward, copies, failures, pushes, crossed, cleared>>

Sync(p) == ApplyRemote(p) \/ Drained(p) \/ Poll(p)

ClipboardNext ==
    \E p \in Ends :
        \/ Sync(p) \/ Stop(p)
        \/ UserClears(p) \/ \E text \in Texts : UserCopy(p, text)

\* Each thread wakes up every 400 ms.
ClipboardSpec ==
    /\ ClipboardInit
    /\ [][ClipboardNext]_clipboardVars
    /\ \A p \in Ends : WF_clipboardVars(Sync(p))
-----------------------------------------------------------------------------
ClipboardTypeOK ==
    /\ clip \in [Ends -> Texts \cup {NoText}]
    /\ lastSeen \in [Ends -> Texts \cup {Unseen}]
    /\ toward \in [Ends -> Seq(Texts)]
    /\ pc \in [Ends -> {"apply", "poll", "stopped"}]
    /\ copies \in [Ends -> Nat] /\ failures \in [Ends -> Nat] /\ pushes \in [Ends -> Nat]
    /\ crossed \in BOOLEAN /\ cleared \subseteq Ends

\* No echo: an end pushes a text only because its user copied one, because it
\* was there when the session began, or, once each, because setting the peer's
\* text failed (manual-test-checklist.md: "No echo loop").
EchoIsBounded ==
    \A p \in Ends : pushes[p] + (IF Changed(p) THEN 1 ELSE 0) <= copies[p] + 1 + failures[p]

\* Nothing is waiting, in an end or between the two.
AtRest == \A p \in Ends : pc[p] # "stopped" /\ toward[p] = <<>> /\ ~Changed(p)

\* Once the threads are done, both clipboards hold the same text, unless texts
\* crossed on the way, setting one failed, or a user has since put something else
\* in its place, which stays where it is (README.md: "Copy text on either
\* machine -> it's available to paste on the other").
AgreeAtRest ==
    AtRest /\ ~crossed /\ cleared = {} /\ (\A p \in Ends : failures[p] = 0)
        => clip[A] = clip[B]

\* When users copy no more the threads come to rest for good: no ping-pong.
ComesToRest == <>[](AtRest \/ \E p \in Ends : pc[p] = "stopped")
-----------------------------------------------------------------------------
\* A text from the peer never bounces back (clipboard/src/lib.rs: "Apply text
\* received from the peer, suppressing the echo back").
NeverEchoes == \A p \in Ends : pushes[p] <= copies[p] + 1
=============================================================================
