------------------------------- MODULE MCGate -------------------------------
(* Small instances of GateCheck for TLC. *)
EXTENDS GateCheck

CONSTANTS r1, k1, k2
=============================================================================
