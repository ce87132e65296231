----------------------------- MODULE Handover ------------------------------
(***************************************************************************)
(* What the host input loop promises about keys, without hooks, queue,     *)
(* edges, flags or network: control is at home or on the remote, the       *)
(* modifiers the user holds are known at all times, everything relayed is  *)
(* recorded, crossing tells the peer of the modifiers already held, and    *)
(* whatever brings control home leaves nothing recorded as pressed.        *)
(*                                                                         *)
(* HostInput implements it from the side of the events that come in, and   *)
(* KeyDelivery, which decides nothing by itself, from the side of the      *)
(* datagrams that go out.                                                  *)
(***************************************************************************)
CONSTANTS Keys, Mods

VARIABLES
    site,        \* where control is
    down,        \* the modifiers the user holds
    held         \* the keys the peer was told are pressed

vars == <<site, down, held>>

Init == site = "Local" /\ down = {} /\ held = {}

With(set, k, pressed) == IF pressed THEN set \cup {k} ELSE set \ {k}

\* A modifier changes while control is at home.
Note(k, pressed) ==
    /\ site = "Local"
    /\ down' = With(down, k, pressed)
    /\ UNCHANGED <<site, held>>

Leave ==
    /\ site = "Local"
    /\ site' = "Remote"
    /\ held' = down
    /\ UNCHANGED down

\* A key changes while control is on the remote.
Pass(k, pressed) ==
    /\ site = "Remote"
    /\ held' = With(held, k, pressed)
    /\ down' = IF k \in Mods THEN With(down, k, pressed) ELSE down
    /\ UNCHANGED site

Return ==
    /\ site = "Remote"
    /\ site' = "Local"
    /\ held' = {}
    /\ UNCHANGED down

Next ==
    \/ \E k \in Mods, pressed \in BOOLEAN : Note(k, pressed)
    \/ \E k \in Keys, pressed \in BOOLEAN : Pass(k, pressed)
    \/ Leave
    \/ Return

Spec == Init /\ [][Next]_vars
=============================================================================
