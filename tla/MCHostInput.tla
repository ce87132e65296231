---------------------------- MODULE MCHostInput -----------------------------
(***************************************************************************)
(* Two instances of HostInput.  The keyboard instance has a full chord and *)
(* one motion, which crosses at home and returns on the remote; the        *)
(* pointer instance has motions of one step on both axes and no keys.      *)
(***************************************************************************)
EXTENDS HostInput

CONSTANTS lctrl, lalt, home, left

ChordKeys == {lctrl, lalt, home}
Empty == {}

\* One step back on a screen of one step: at home it crosses, on the remote it
\* pushes against the seam.
Push == {[dx |-> -1, dy |-> 0, x |-> 0, y |-> 0]}

\* One step along an axis, reported from two corners: each is at two edges
\* and off the other two.
CornerMotions ==
    {[dx |-> d[1], dy |-> d[2], x |-> c[1], y |-> c[2]] :
        d \in {<<1, 0>>, <<-1, 0>>, <<0, 1>>, <<0, -1>>}, c \in {<<0, 1>>, <<1, 0>>}}
=============================================================================
