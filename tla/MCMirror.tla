------------------------------ MODULE MCMirror ------------------------------
(***************************************************************************)
(* Mirror with its bounds given in the configuration.                      *)
(***************************************************************************)
EXTENDS Mirror
=============================================================================
