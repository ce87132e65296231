-------------------------- MODULE RealtimeChannel ---------------------------
(***************************************************************************)
(* The encrypted UDP input channel, from the host's RealtimeCrypto::seal   *)
(* to the injector of the controlled device, across the sessions that use  *)
(* it one after the other or at once.                                      *)
(*                                                                         *)
(* The network may lose, duplicate and reorder packets: a packet once sent *)
(* stays in wire and the listener may receive any of them at any time, any *)
(* number of times or never.  A session's epoch and exported key are fresh *)
(* (a random u64 and a TLS export), so the session itself stands for them: *)
(* a packet authenticates exactly under the session it was sealed for.     *)
(***************************************************************************)
EXTENDS ReplayWindow

CONSTANTS
    Sessions,    \* the control sessions of one run of the controlled device
    NoSession,   \* inbound_rt = None
    NoPacket,    \* the listener holds no decrypted event
    MaxSeq       \* bound: the largest sequence number a run seals

ASSUME SessionsAssumption == NoSession \notin Sessions
ASSUME MaxSeqAssumption == MaxSeq \in Nat
ASSUME PacketAssumption == NoPacket \notin Sessions \X (0 .. MaxSeq)

Seqs == 0 .. MaxSeq
Packets == Sessions \X Seqs

VARIABLES
    phase,       \* the controlled device's view of each session
    sendSeq,     \* RealtimeCrypto.send_seq of each session's host
    wire,        \* every packet handed to the network
    inbound,     \* AppCore.inbound_rt: whose packets the listener can open
    window,      \* the replay window inside inbound_rt
    pending,     \* decrypted under the lock, not yet injected
    injected     \* how often each packet reached the injector

vars == <<phase, sendSeq, wire, inbound, window, pending, injected>>

Init ==
    /\ phase = [s \in Sessions |-> "new"]
    /\ sendSeq = [s \in Sessions |-> 0]
    /\ wire = {}
    /\ inbound = NoSession
    /\ window = EmptyWindow
    /\ pending = NoPacket
    /\ injected = [p \in Packets |-> 0]

\* The controller, once authenticated, sends RealtimeOpen over TCP and starts
\* sealing at once; the message is still in flight.
OpenSession(s) ==
    /\ phase[s] = "new"
    /\ phase' = [phase EXCEPT ![s] = "opening"]
    /\ UNCHANGED <<sendSeq, wire, inbound, window, pending, injected>>

\* RealtimeCrypto::seal and the UDP send.  The host's input thread may outlive
\* the controlled device's end of the session.
Seal(s) ==
    /\ phase[s] # "new"
    /\ sendSeq[s] <= MaxSeq
    /\ wire' = wire \cup {<<s, sendSeq[s]>>}
    /\ sendSeq' = [sendSeq EXCEPT ![s] = @ + 1]
    /\ UNCHANGED <<phase, inbound, window, pending, injected>>

\* handle_inbound, RealtimeOpen: a new context replaces whatever was there.
HandleRealtimeOpen(s) ==
    /\ phase[s] = "opening"
    /\ phase' = [phase EXCEPT ![s] = "live"]
    /\ inbound' = s
    /\ window' = EmptyWindow
    /\ UNCHANGED <<sendSeq, wire, pending, injected>>

\* Mutant of Teardown: the slot is left as it is.
TeardownKeepsSlot(s) ==
    /\ phase[s] \in {"opening", "live"}
    /\ phase' = [phase EXCEPT ![s] = "closed"]
    /\ UNCHANGED <<sendSeq, wire, inbound, window, pending, injected>>

\* Teardown of a controlled session clears the slot, whoever filled it.
Teardown(s) ==
    /\ phase[s] \in {"opening", "live"}
    /\ phase' = [phase EXCEPT ![s] = "closed"]
    /\ inbound' = NoSession
    /\ UNCHANGED <<sendSeq, wire, window, pending, injected>>

\* RealtimeCrypto::open, before it asks the window: a packet of another session
\* fails authentication.
Authentic(p) == p[1] = inbound

\* spawn_udp_listener: receive a packet and open it under the inbound lock.
\* A packet that does not authenticate or that the window refuses is dropped.
Open(p) ==
    /\ pending = NoPacket
    /\ p \in wire
    /\ Authentic(p)
    /\ Accepts(window, p[2])
    /\ window' = Accepted(window, p[2])
    /\ pending' = p
    /\ UNCHANGED <<phase, sendSeq, wire, inbound, injected>>

\* The listener injects what it opened, after it released the lock.
Inject ==
    /\ pending # NoPacket
    /\ injected' = [injected EXCEPT ![pending] = @ + 1]
    /\ pending' = NoPacket
    /\ UNCHANGED <<phase, sendSeq, wire, inbound, window>>

Next ==
    \/ \E s \in Sessions :
          OpenSession(s) \/ Seal(s) \/ HandleRealtimeOpen(s) \/ Teardown(s)
    \/ \E p \in Packets : Open(p)
    \/ Inject

Spec == Init /\ [][Next]_vars
-----------------------------------------------------------------------------
\* Type correctness of the channel's state.
TypeOK ==
    /\ phase \in [Sessions -> {"new", "opening", "live", "closed"}]
    /\ sendSeq \in [Sessions -> Nat]
    /\ wire \subseteq Packets
    /\ inbound \in Sessions \cup {NoSession}
    /\ window \in Window
    /\ pending \in Packets \cup {NoPacket}
    /\ injected \in [Packets -> Nat]

\* The sequence numbers of session s that passed the window.
Opened(s) ==
    {q \in Seqs : injected[<<s, q>>] > 0 \/ pending = <<s, q>>}

\* The bitmap is exactly the record of the last Width sequence numbers: a bit
\* is set iff that number was opened, and nothing above highest was.  Too few
\* bits let a packet in twice, too many turn fresh input away
\* (ReplayWindow::accept's shift and mask arithmetic).
WindowExact == inbound # NoSession => Records(window, Opened(inbound))

\* No packet is injected twice, across duplication, reordering, sessions that
\* replace one another and the gap between decrypting and injecting
\* (SECURITY.md: "captured packets can't be re-injected").
NoDoubleInjection ==
    \A p \in Packets :
        injected[p] + (IF pending = p THEN 1 ELSE 0) <= 1

\* A packet that is new and less than Width behind the newest is never turned
\* away when it arrives: the window costs a late packet nothing.
FreshIsAccepted ==
    \A p \in wire :
        /\ p[1] = inbound
        /\ p[2] \notin Opened(inbound)
        /\ \A q \in Opened(inbound) : q - p[2] < Width
        => Accepts(window, p[2])

\* The slot holds the channel of a session that handled RealtimeOpen and is
\* not torn down, and a session that has not come so far opened nothing.
SlotIsLive ==
    /\ inbound # NoSession => phase[inbound] = "live"
    /\ \A s \in Sessions : phase[s] \in {"new", "opening"} => Opened(s) = {}

\* Everything opened was sealed, and a session's next number is unused.
OnlySealed ==
    /\ \A p \in Packets : injected[p] > 0 => p \in wire
    /\ pending # NoPacket => pending \in wire
    /\ \A p \in wire : p[2] < sendSeq[p[1]]

\* The inductive invariant behind the properties above.
ChannelInv ==
    /\ TypeOK
    /\ WindowExact
    /\ NoDoubleInjection
    /\ SlotIsLive
    /\ OnlySealed

\* While a session has handled RealtimeOpen and has not been torn down, the
\* slot holds the channel of some live session, so that input is not decrypted
\* by nobody (net.rs: "the active `inbound_rt` is swapped in by the controlled
\* session").
LiveSessionCanInject ==
    (\E s \in Sessions : phase[s] = "live") => inbound # NoSession

\* The channel implements at-most-once delivery.
Promise == INSTANCE AtMostOnce WITH
    Packets <- Packets,
    wire <- wire,
    injected <- injected

ImplementsAtMostOnce == Promise!Spec
=============================================================================
