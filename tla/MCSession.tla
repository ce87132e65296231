----------------------------- MODULE MCSession ------------------------------
(***************************************************************************)
(* Session between two devices, from every combination of prior trust.  No *)
(* bound beyond PingTick's is needed: connections come and go without end. *)
(***************************************************************************)
EXTENDS Session
=============================================================================
