------------------------------- MODULE MCAmr -------------------------------
(* Small instances of AmrSystem for TLC. *)
EXTENDS AmrSystem, TLC

CONSTANTS r1, r2, aisle, junction

On(point)   == [point |-> point, gate |-> FALSE]
Gate(point) == [point |-> point, gate |-> TRUE]
Open        == On(NoPoint)

\* Two robots cross the same aisle and junction in opposite order; one
\* stays in the aisle for two waypoints, the first with a gate.
CrossingPlans ==
  {r1 :> << Gate(aisle), On(aisle), On(junction) >>
   @@ r2 :> << On(junction), On(aisle), Open >>}

NoDetours == [r \in {r1, r2} |-> {}]

\* One point, two robots: r1 keeps it over a gate and a second waypoint.
OneAislePlans == {r1 :> << Gate(aisle), On(aisle) >> @@ r2 :> << On(aisle) >>}

\* Robot r1 may be sent to an anomaly on the junction, or over the aisle to its
\* dock; r2 only patrols, and has no dock station.
DetourPlans    == {r1 :> << On(aisle) >> @@ r2 :> << On(junction), On(aisle) >>}
AnomalyDetours == r1 :> {<< On(junction) >>} @@ r2 :> {}
DockDetours    == r1 :> {<< On(aisle), Open >>} @@ r2 :> {}

\* A single robot, its patrol, and the detours that interrupt it.
LonePlans     == {r1 :> << Gate(aisle) >>}
LoneAnomalies == r1 :> {<< On(junction), On(aisle) >>}
LoneDocks     == r1 :> {<< On(junction) >>}

\* The anomaly lies beyond the aisle of the patrol.
BeyondAisle == r1 :> {<< On(aisle), Open >>} @@ r2 :> {}
=============================================================================
