--------------------------- MODULE MCReassembler ----------------------------
(***************************************************************************)
(* Reassembler on a stretch of frames that wraps around, small and larger  *)
(* frames alternating.                                                     *)
(***************************************************************************)
EXTENDS Reassembler

OneToThree == [n \in 1 .. MaxFrames |-> 1 + (n % 3)]
=============================================================================
