---------------------------- MODULE KeyDelivery -----------------------------
(***************************************************************************)
(* Key events on their way from the host input loop to the peer's injector *)
(* (inputloop.rs send_rt, net.rs spawn_udp_listener, the injectors of      *)
(* crates/input).  The datagrams cross a network that loses and reorders   *)
(* them; RealtimeChannel shows that none is injected twice, so duplicates  *)
(* are absent here.  HostInput decides when the loop sends what; this      *)
(* module keeps of it only the site and the two lists of held keys, and    *)
(* shows that they follow Handover too.                                    *)
(*                                                                         *)
(* The client presses a native key of its own: Images is the injector's    *)
(* table (KeyMaps), under which two keys may have one image, the sides of  *)
(* a modifier on a Unix client, and a key may have none.                   *)
(*                                                                         *)
(* At an edge transition every held key is sent Copies times, an ordinary  *)
(* press or release is sent once.                                          *)
(***************************************************************************)
EXTENDS Naturals, SequencesExt

CONSTANTS
    Keys, Mods,  \* the keys, and the modifiers among them
    Images,      \* the injector's table, from keys to native keys
    Copies,      \* MOD_SYNC_REPEAT, 3 in the code
    MaxLosses,   \* how many datagrams the network loses in a behaviour
    MaxSwaps,    \* how often it delivers a datagram before its predecessor
    WireCap      \* bound: datagrams in flight

ASSUME KeysAssumption == IsFiniteSet(Keys) /\ Mods \subseteq Keys
ASSUME CopiesAssumption == Copies \in Nat \ {0}
ASSUME NetworkAssumption == MaxLosses \in Nat /\ MaxSwaps \in Nat

VARIABLES
    site,        \* where control is
    down,        \* the modifiers the user holds (held_mods_local)
    held,        \* held_remote
    wire,        \* the datagrams in flight, in the order they will arrive
    remote,      \* the native keys pressed on the peer
    losses, swaps,
    bare,        \* history: keys one of whose unrepeated events was lost
    overtaken    \* history: keys whose event changed places with one of
                 \* the same native key

vars == <<site, down, held, wire, remote, losses, swaps, bare, overtaken>>

Init ==
    /\ site = "Local" /\ down = {} /\ held = {}
    /\ wire = <<>> /\ remote = {}
    /\ losses = 0 /\ swaps = 0
    /\ bare = {} /\ overtaken = {}

\* The native key a key is injected as, if any.
Image(k) == IF k \in DOMAIN Images THEN {Images[k]} ELSE {}

\* Mutant of Burst: a transition sends one copy like any other event.
BurstOnce(order, pressed, repeated) ==
    [n \in DOMAIN order |-> [key |-> order[n], pressed |-> pressed, repeated |-> repeated]]

\* One key after the other, each Copies times at a transition.
Burst(order, pressed, repeated) ==
    LET times == IF repeated THEN Copies ELSE 1
    IN  [n \in 1 .. times * Len(order) |->
            [key |-> order[((n - 1) \div times) + 1], pressed |-> pressed, repeated |-> repeated]]

\* send_rt for every key of a set, in whatever order the list behind it has.
Send(keys, pressed, repeated) ==
    \E order \in [1 .. Cardinality(keys) -> keys] :
        /\ keys = {order[n] : n \in DOMAIN order}
        /\ wire' = wire \o Burst(order, pressed, repeated)
        /\ Len(wire') <= WireCap

\* A modifier goes down or up while control is local: tracked, not relayed.
LocalModifier(k) ==
    /\ site = "Local"
    /\ down' = IF k \in down THEN down \ {k} ELSE down \cup {k}
    /\ UNCHANGED <<site, held, wire, remote, losses, swaps, bare, overtaken>>

\* Mutant of Cross: the modifiers are counted as sent and are not.
CrossUnseeded ==
    /\ site = "Local"
    /\ site' = "Remote"
    /\ held' = held \cup down
    /\ UNCHANGED <<down, wire, remote, losses, swaps, bare, overtaken>>

\* Mutant of Cross: the modifiers are sent and not recorded.
CrossUnrecorded ==
    /\ site = "Local"
    /\ site' = "Remote"
    /\ Send(down \ held, TRUE, TRUE)
    /\ UNCHANGED <<down, held, remote, losses, swaps, bare, overtaken>>

\* Control crosses: the peer is told of the modifiers already held.
Cross ==
    /\ site = "Local"
    /\ site' = "Remote"
    /\ Send(down \ held, TRUE, TRUE)
    /\ held' = held \cup down
    /\ UNCHANGED <<down, remote, losses, swaps, bare, overtaken>>

\* A key event while control is remote is relayed, once.
Relay(k, pressed) ==
    /\ site = "Remote"
    /\ Send({k}, pressed, FALSE)
    /\ held' = IF pressed THEN held \cup {k} ELSE held \ {k}
    /\ down' = IF k \notin Mods THEN down
               ELSE IF pressed THEN down \cup {k} ELSE down \ {k}
    /\ UNCHANGED <<site, remote, losses, swaps, bare, overtaken>>

\* Control comes home, by the edge or by the chord: everything held is
\* released.
GoHome ==
    /\ site = "Remote"
    /\ site' = "Local"
    /\ Send(held, FALSE, TRUE)
    /\ held' = {}
    /\ UNCHANGED <<down, remote, losses, swaps, bare, overtaken>>

\* The network.
Lose(i) ==
    /\ losses < MaxLosses
    /\ losses' = losses + 1
    /\ bare' = IF wire[i].repeated THEN bare ELSE bare \cup {wire[i].key}
    /\ wire' = RemoveAt(wire, i)
    /\ UNCHANGED <<site, down, held, remote, swaps, overtaken>>

Swap(i) ==
    /\ swaps < MaxSwaps
    /\ i < Len(wire)
    /\ swaps' = swaps + 1
    /\ wire' = [wire EXCEPT ![i] = wire[i + 1], ![i + 1] = wire[i]]
    /\ overtaken' = overtaken \cup
          {k \in {wire[i].key, wire[i + 1].key} :
              Image(wire[i].key) = Image(wire[i + 1].key)}
    /\ UNCHANGED <<site, down, held, remote, losses, bare>>

\* The listener opens the next datagram and injects its event; a key without an
\* image is skipped.
Deliver ==
    /\ wire # <<>>
    /\ LET ev == Head(wire)
       IN  remote' = IF ev.pressed THEN remote \cup Image(ev.key)
                                   ELSE remote \ Image(ev.key)
    /\ wire' = Tail(wire)
    /\ UNCHANGED <<site, down, held, losses, swaps, bare, overtaken>>

Next ==
    \/ \E k \in Mods : LocalModifier(k)
    \/ Cross
    \/ \E k \in Keys, pressed \in BOOLEAN : Relay(k, pressed)
    \/ GoHome
    \/ \E i \in DOMAIN wire : Lose(i) \/ Swap(i)
    \/ Deliver

Spec == Init /\ [][Next]_vars
-----------------------------------------------------------------------------
TypeOK ==
    /\ site \in {"Local", "Remote"}
    /\ down \subseteq Mods /\ held \subseteq Keys
    /\ remote \subseteq UNION {Image(k) : k \in Keys}
    /\ wire \in Seq([key : Keys, pressed : BOOLEAN, repeated : BOOLEAN])
    /\ losses \in 0 .. MaxLosses /\ swaps \in 0 .. MaxSwaps
    /\ bare \subseteq Keys /\ overtaken \subseteq Keys

\* The keys injected as n, and the native keys the network has been fair to.
KeysOf(n) == {k \in Keys : n \in Image(k)}
Intact == {n \in UNION {Image(k) : k \in Keys} : KeysOf(n) \cap (bare \cup overtaken) = {}}

\* With fewer than Copies losses, once everything in flight has arrived and
\* control is home nothing is stuck on the peer, except a key whose own
\* unrepeated event was lost or overtaken (inputloop.rs: "Three copies ... makes
\* a single drop a non-event"), the other side of a modifier included.
HomeReleases ==
    site = "Local" /\ wire = <<>> => remote \cap Intact = {}

\* Likewise, while control is remote, the peer holds nothing but images of keys
\* the loop believes it holds, and all of them that no other key shares,
\* modifiers pressed before the crossing included.
PeerFollows ==
    site = "Remote" /\ wire = <<>> =>
        \A n \in Intact :
            /\ n \in remote => KeysOf(n) \cap held # {}
            /\ KeysOf(n) \subseteq held => n \in remote

\* The loop's lists change only as Handover allows, whatever the network does.
Promise == INSTANCE Handover WITH
    Keys <- Keys,
    Mods <- Mods,
    site <- site,
    down <- down,
    held <- held

ImplementsHandover == Promise!Spec
-----------------------------------------------------------------------------
(***************************************************************************)
(* What comments say, and the code does not do.                            *)
(***************************************************************************)
\* No modifier stays stuck after control is home, for want of one datagram
\* (inputloop.rs: "so a modifier can't get stuck after the snap-home chord or
\* an edge return").
OneLossStrandsNoModifier ==
    site = "Local" /\ wire = <<>> /\ losses <= 1 /\ swaps = 0
        => \A k \in Mods : Image(k) \cap remote = {}

\* While control is remote every key the loop believes it holds is pressed on a
\* client that has it (protocol.rs: "so a key pressed on Windows produces the
\* right key on Linux/macOS"): with both Shifts held, releasing either lifts
\* the client's only one.
HeldIsPressed ==
    site = "Remote" /\ wire = <<>> /\ losses = 0 /\ swaps = 0
        => \A k \in held : Image(k) \subseteq remote
=============================================================================
