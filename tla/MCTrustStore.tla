---------------------------- MODULE MCTrustStore ----------------------------
(***************************************************************************)
(* TrustStore with the window's thread and two session tasks, and two      *)
(* devices.                                                                *)
(***************************************************************************)
EXTENDS TrustStore

CONSTANTS laptop, tablet, ui, task1, task2

TwoDevices == {laptop, tablet}
ThreeThreads == {ui, task1, task2}
=============================================================================
