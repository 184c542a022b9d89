------------------------------ MODULE MCVision ------------------------------
(* Small instances of VisionGate for TLC. *)
EXTENDS VisionGate, TLC

CONSTANTS k1, k2, cam1, cam2

\* One check.
OneCheck == k1 :> cam1
ExpectClosed == k1 :> TRUE

\* Checks of two robots.
TwoRobots == k1 :> cam1 @@ k2 :> cam2
BothClosed == k1 :> TRUE @@ k2 :> TRUE
=============================================================================
