---------------------------- MODULE EdgeDetector ----------------------------
(***************************************************************************)
(* The edge-transition state machine (crates/input/src/edge.rs) and the    *)
(* two pure functions of the host loop that work on the same geometry.     *)
(*                                                                         *)
(* Both screens are grids of Size steps on each axis: a host pixel is in   *)
(* 0 .. Size-1, the virtual cursor on the remote, which the code keeps     *)
(* normalised to [0,1], is in 0 .. Size.                                   *)
(***************************************************************************)
EXTENDS Integers

CONSTANTS
    Size,           \* steps of a screen axis
    RawHysteresis   \* the hysteresis the session asks for (25)

ASSUME SizeAssumption == Size \in Nat \ {0}
ASSUME HysteresisAssumption == RawHysteresis \in Int

AllEdges == {"Left", "Right", "Top", "Bottom"}
Pixels == 0 .. Size - 1
Steps == 0 .. Size
Points == [x : Steps, y : Steps]

\* EdgeDetector::new: hysteresis.max(1).
Hysteresis == IF RawHysteresis > 1 THEN RawHysteresis ELSE 1

Detector == [edge : AllEdges, site : {"Local", "Remote"}, backPush : 0 .. Hysteresis - 1]

NewDetector(edge) == [edge |-> edge, site |-> "Local", backPush |-> 0]

SetEdge(det, edge) == [det EXCEPT !.edge = edge]

\* force_home, and the homecoming half of update_remote.
Home(det) == [det EXCEPT !.site = "Local", !.backPush = 0]

AtEdge(edge, x, y) ==
    CASE edge = "Left"   -> x <= 0
      [] edge = "Right"  -> x >= Size - 1
      [] edge = "Top"    -> y <= 0
      [] edge = "Bottom" -> y >= Size - 1

\* entry_norm: the position along the edge, the other axis of the cursor.
Along(edge, x, y) == IF edge \in {"Left", "Right"} THEN y ELSE x

\* update_local while the site is Local, at the active edge.
GoRemote(det) == [det EXCEPT !.site = "Remote", !.backPush = 0]

\* How far a motion goes further into the remote, away from the seam.
IntoDelta(edge, dx, dy) ==
    CASE edge = "Right"  -> dx
      [] edge = "Left"   -> -dx
      [] edge = "Bottom" -> dy
      [] edge = "Top"    -> -dy

\* Mutant of UpdateRemote: pressure adds up over separate pushes.
UpdateRemoteHoards(det, dx, dy, atReturnEdge) ==
    LET push == det.backPush - IntoDelta(det.edge, dx, dy)
    IN  IF ~(atReturnEdge /\ IntoDelta(det.edge, dx, dy) < 0) THEN det
        ELSE IF push >= Hysteresis THEN Home(det) ELSE [det EXCEPT !.backPush = push]

\* update_remote while the site is Remote.
UpdateRemote(det, dx, dy, atReturnEdge) ==
    LET push == det.backPush - IntoDelta(det.edge, dx, dy)
    IN  IF ~(atReturnEdge /\ IntoDelta(det.edge, dx, dy) < 0)
          THEN [det EXCEPT !.backPush = 0]
          ELSE IF push >= Hysteresis
            THEN Home(det)
            ELSE [det EXCEPT !.backPush = push]

\* entry_point: where on the remote a crossing lands.
EntryPoint(edge, along) ==
    CASE edge = "Right"  -> [x |-> 0,     y |-> along]
      [] edge = "Left"   -> [x |-> Size,  y |-> along]
      [] edge = "Bottom" -> [x |-> along, y |-> 0]
      [] edge = "Top"    -> [x |-> along, y |-> Size]

\* at_return_edge: the virtual cursor is pinned against the seam of edge.
AtReturnEdge(edge, v) ==
    CASE edge = "Right"  -> v.x = 0
      [] edge = "Left"   -> v.x = Size
      [] edge = "Bottom" -> v.y = 0
      [] edge = "Top"    -> v.y = Size

Clamp(n) == IF n < 0 THEN 0 ELSE IF n > Size THEN Size ELSE n

\* The virtual cursor after a relative motion.
Moved(v, dx, dy) == [x |-> Clamp(v.x + dx), y |-> Clamp(v.y + dy)]
=============================================================================
