---------------------------- MODULE ReplayWindow ----------------------------
(***************************************************************************)
(* The anti-replay sliding window of the realtime channel                  *)
(* (crates/core/src/realtime.rs, ReplayWindow).  A window remembers the    *)
(* highest sequence number accepted so far and, as a bitmap, which of the  *)
(* Width numbers ending there were accepted.  Bit b of the code's u64 is   *)
(* the membership of b in the set bitmap: bit b stands for highest - b.    *)
(***************************************************************************)
EXTENDS Integers

CONSTANT Width    \* ReplayWindow::WIDTH, 64 in the code

ASSUME WidthAssumption == Width \in Nat \ {0}

Bits == 0 .. Width - 1

Window == [highest : Nat, bitmap : SUBSET Bits, seenAny : BOOLEAN]

\* ReplayWindow::default()
EmptyWindow == [highest |-> 0, bitmap |-> {}, seenAny |-> FALSE]

\* The bits of a u64 that survive a left shift by n.  The code special-cases
\* n >= WIDTH, where a machine shift is undefined; no bit survives there.
ShiftLeft(bits, n) == {b + n : b \in bits} \cap Bits

\* Mutant of Accepts: an old packet is let in whatever the bitmap says.
AcceptsReplays(w, seq) == ~w.seenAny \/ w.highest - seq < Width

\* Mutant of Accepts: the window is one number too narrow.
AcceptsNarrowly(w, seq) ==
    \/ ~w.seenAny
    \/ seq > w.highest
    \/ /\ w.highest - seq < Width - 1
       /\ (w.highest - seq) \notin w.bitmap

\* What accept(seq) answers.
Accepts(w, seq) ==
    \/ ~w.seenAny
    \/ seq > w.highest
    \/ /\ w.highest - seq < Width
       /\ (w.highest - seq) \notin w.bitmap

\* Mutant of Accepted: a number that moves the window is not marked itself.
AcceptedUnmarked(w, seq) ==
    IF w.seenAny /\ seq <= w.highest
      THEN [w EXCEPT !.bitmap = @ \cup {w.highest - seq}]
      ELSE [highest |-> seq, seenAny |-> TRUE,
            bitmap |-> IF w.seenAny THEN ShiftLeft(w.bitmap, seq - w.highest) ELSE {0}]

\* The window accept(seq) leaves behind when it answers true; when it
\* answers false the window is unchanged.
Accepted(w, seq) ==
    IF ~w.seenAny
      THEN [highest |-> seq, bitmap |-> {0}, seenAny |-> TRUE]
      ELSE IF seq > w.highest
        THEN [w EXCEPT !.bitmap = ShiftLeft(w.bitmap, seq - w.highest) \cup {0},
                       !.highest = seq]
        ELSE [w EXCEPT !.bitmap = @ \cup {w.highest - seq}]

\* The window w is the exact record of the set S of accepted numbers: highest
\* is its largest, and a bit is set iff the number it stands for is in S.
Records(w, S) ==
    /\ w.seenAny <=> S # {}
    /\ w.seenAny => w.highest \in S
    /\ \A q \in S : q <= w.highest
    /\ w.bitmap = {b \in Bits : w.highest - b \in S}
=============================================================================
