------------------------------ MODULE MCMonitor ------------------------------
(* Small instance of Monitor for TLC. *)
EXTENDS Monitor

CONSTANTS c1
=============================================================================
