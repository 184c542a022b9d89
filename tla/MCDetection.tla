----------------------------- MODULE MCDetection -----------------------------
(* A small instance of Detection for TLC. *)
EXTENDS Detection, TLC

CONSTANTS cctv1, amr1, z1, fire

OneOfEach == cctv1 :> z1 @@ amr1 :> NoZone
=============================================================================
