------------------------- MODULE MCRealtimeChannel --------------------------
(***************************************************************************)
(* RealtimeChannel on two sessions, with enough sequence numbers to move   *)
(* the window by less than its width, by exactly its width and by more.    *)
(***************************************************************************)
EXTENDS RealtimeChannel

CONSTANTS first, second

TwoSessions == {first, second}
=============================================================================
