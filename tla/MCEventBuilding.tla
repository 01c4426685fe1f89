--------------------------- MODULE MCEventBuilding ---------------------------
(***************************************************************************)
(* EventBuilding for TLC: a BU with two resources.                        *)
(***************************************************************************)
EXTENDS EventBuilding

MCResources == {<<1, 1>>, <<1, 2>>}
=============================================================================
