----------------------------- MODULE AtMostOnce -----------------------------
(***************************************************************************)
(* What the realtime channel promises the injector, with no window, no     *)
(* epochs and no session lifecycle: packets are sent, and each of them is  *)
(* injected at most once, at any time after it was sent or never.          *)
(***************************************************************************)
EXTENDS Naturals

CONSTANT Packets

VARIABLES
    wire,        \* the packets sent so far
    injected     \* how often each packet reached the injector

vars == <<wire, injected>>

Init ==
    /\ wire = {}
    /\ injected = [p \in Packets |-> 0]

Send(p) ==
    /\ p \notin wire
    /\ wire' = wire \cup {p}
    /\ UNCHANGED injected

Inject(p) ==
    /\ p \in wire
    /\ injected[p] = 0
    /\ injected' = [injected EXCEPT ![p] = 1]
    /\ UNCHANGED wire

Next == \E p \in Packets : Send(p) \/ Inject(p)

Spec == Init /\ [][Next]_vars
=============================================================================
