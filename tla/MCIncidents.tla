----------------------------- MODULE MCIncidents -----------------------------
(* A small instance of Incidents for TLC. *)
EXTENDS Incidents

\* Requests for both actions.
CutThenWater == {<<"POWER_CUT", "SPRINKLER">>}
=============================================================================
