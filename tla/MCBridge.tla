------------------------------- MODULE MCBridge -------------------------------
(* Small instance of RobotBridge for TLC. *)
EXTENDS RobotBridge, TLC

CONSTANTS goto, start, stop, r1, r2

\* A GOTO, issued from a pool thread, and a START_PATROL to one robot, an ESTOP
\* to the other.
TargetOf == goto :> r1 @@ start :> r1 @@ stop :> r2
=============================================================================
