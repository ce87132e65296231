----------------------------- MODULE MCConsole ------------------------------
(***************************************************************************)
(* Console with one peer or two and two sessions.                          *)
(***************************************************************************)
EXTENDS Console
CONSTANTS p1, p2
OnePeer == {p1}
TwoPeers == {p1, p2}
=============================================================================
