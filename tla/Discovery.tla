----------------------------- MODULE Discovery ------------------------------
(***************************************************************************)
(* The table of peers on the local network (crates/discovery/src/lib.rs):  *)
(* the mDNS daemon reports the services that come and go over a channel, a *)
(* thread keeps the table, the window shows it.  (The list of manual peers *)
(* stays empty: the program has no call of set_manual_peers.)              *)
(*                                                                         *)
(* A service is a full name on the network.  A device that is renamed      *)
(* comes back as another service with the fingerprint it had, while the    *)
(* record of the old one may still be waiting to expire.  The table is     *)
(* keyed by fingerprint, a departure names a full name: the thread deletes *)
(* the peers whose name is part of it.                                     *)
(***************************************************************************)
EXTENDS Integers, Sequences

CONSTANTS
    Services,     \* full names
    Fingerprints, NoFp,
    FpOf,         \* the fp property of a service, NoFp if it has none
    OwnFp,        \* this device's fingerprint
    NameIn,       \* <<s, t>>: the name of s is part of the full name of t
    Addresses,    \* address and port
    PendingCap    \* bound: events the thread has yet to read

ASSUME ServicesAssumption ==
    /\ FpOf \in [Services -> Fingerprints \cup {NoFp}] /\ NoFp \notin Fingerprints
    /\ Services \cap Fingerprints = {}
\* The instance name starts with the device's name.
ASSUME NameAssumption == NameIn \subseteq Services \X Services /\ \A s \in Services : <<s, s>> \in NameIn
ASSUME CapAssumption == PendingCap \in Nat

VARIABLES
    up,       \* services that are running
    lapsing,  \* services that went without a word, not yet expired
    addr,     \* where a service is
    browsing, \* whether mDNS started
    pending,  \* events on their way to the browse thread
    table     \* mdns_peers

vars == <<up, lapsing, addr, browsing, pending, table>>
network == <<up, lapsing, addr>>

Entries == [service : Services, at : Addresses]
Resolved(s, a) == [kind |-> "resolved", service |-> s, at |-> a]
Removed(s) == [kind |-> "removed", service |-> s]
Notices == [kind : {"resolved"}, service : Services, at : Addresses]
           \cup [kind : {"removed"}, service : Services]

Init ==
    /\ up = {} /\ lapsing = {} /\ addr \in [Services -> Addresses]
    /\ browsing \in BOOLEAN
    /\ pending = <<>> /\ table = {}
-----------------------------------------------------------------------------
(***************************************************************************)
(* The network, and the daemon of the mdns_sd library: it reports every    *)
(* announcement, every goodbye and every record that expires, in order.    *)
(***************************************************************************)
Emit(notice) ==
    IF browsing THEN Len(pending) < PendingCap /\ pending' = Append(pending, notice)
                ELSE UNCHANGED pending

\* A device runs one service at a time.
SameDevice(s, t) == FpOf[s] # NoFp /\ FpOf[s] = FpOf[t]

Announce(s) ==
    /\ s \notin up /\ \A t \in up : ~SameDevice(s, t)
    /\ up' = up \cup {s} /\ lapsing' = lapsing \ {s}
    /\ \E a \in Addresses : addr' = [addr EXCEPT ![s] = a] /\ Emit(Resolved(s, a))
    /\ UNCHANGED <<browsing, table>>

Move(s) ==
    /\ s \in up
    /\ \E a \in Addresses \ {addr[s]} : addr' = [addr EXCEPT ![s] = a] /\ Emit(Resolved(s, a))
    /\ UNCHANGED <<up, lapsing, browsing, table>>

\* A service says goodbye, or its record expires.
SayGoodbye(s) ==
    /\ s \in up /\ up' = up \ {s}
    /\ Emit(Removed(s))
    /\ UNCHANGED <<lapsing, addr, browsing, table>>

Vanish(s) ==
    /\ s \in up /\ up' = up \ {s} /\ lapsing' = lapsing \cup {s}
    /\ UNCHANGED <<addr, browsing, pending, table>>

Lapse(s) ==
    /\ s \in lapsing /\ lapsing' = lapsing \ {s}
    /\ Emit(Removed(s))
    /\ UNCHANGED <<up, addr, browsing, table>>
-----------------------------------------------------------------------------
(***************************************************************************)
(* The browse thread and the window.                                       *)
(***************************************************************************)
Key(s) == IF FpOf[s] = NoFp THEN s ELSE FpOf[s]

\* ServiceResolved: this device itself is skipped, an entry is replaced.
WithResolved(n) ==
    IF FpOf[n.service] = OwnFp
      THEN table
      ELSE {e \in table : Key(e.service) # Key(n.service)}
             \cup {[service |-> n.service, at |-> n.at]}

\* Mutant of WithoutRemoved: the full name is looked up as a key.
WithoutRemovedKey(n) == {e \in table : Key(e.service) # n.service}

\* Mutant of WithoutRemoved: the device of the full name goes.
WithoutRemovedDevice(n) == {e \in table : Key(e.service) # Key(n.service)}

\* ServiceRemoved: peers whose name is part of the full name go.
WithoutRemoved(n) == {e \in table : <<e.service, n.service>> \notin NameIn}

Browse ==
    /\ pending # <<>>
    /\ pending' = Tail(pending)
    /\ table' = IF Head(pending).kind = "resolved"
                  THEN WithResolved(Head(pending)) ELSE WithoutRemoved(Head(pending))
    /\ UNCHANGED <<network, browsing>>

Next ==
    \/ \E s \in Services : Announce(s) \/ Move(s) \/ SayGoodbye(s) \/ Vanish(s) \/ Lapse(s)
    \/ Browse

Spec == Init /\ [][Next]_vars
-----------------------------------------------------------------------------
TypeOK ==
    /\ up \subseteq Services /\ lapsing \subseteq Services
    /\ addr \in [Services -> Addresses] /\ browsing \in BOOLEAN
    /\ pending \in Seq(Notices) /\ Len(pending) <= PendingCap
    /\ table \subseteq Entries

\* Once the thread has read its events, every listed peer is a service that has
\* not gone, at the address it has now: a departure forgets it, and a service
\* that comes back elsewhere replaces what it was (ServiceResolved, ServiceRemoved).
TableIsCurrent ==
    pending = <<>> =>
        \A e \in table : e.service \in up \cup lapsing /\ e.at = addr[e.service]

\* A name that is part of no other service's full name.
NameIsItsOwn(s) == \A t \in Services : <<s, t>> \in NameIn => t = s

\* Such a peer is listed as long as it runs, once the events are read, whoever
\* else comes and goes.
OwnNameStaysListed ==
    pending = <<>> /\ browsing =>
        \A s \in up : NameIsItsOwn(s) /\ FpOf[s] # OwnFp =>
            [service |-> s, at |-> addr[s]] \in table
-----------------------------------------------------------------------------
(***************************************************************************)
(* What documents and comments say, and the code does not do.              *)
(***************************************************************************)
\* "Each laptop appears in the other's Devices list" (manual-test-checklist.md:15):
\* a departure takes along every peer whose name is part of the full name.
EachAppears ==
    pending = <<>> /\ browsing =>
        \A s \in up : FpOf[s] # OwnFp => [service |-> s, at |-> addr[s]] \in table
=============================================================================
