------------------------------- MODULE MCRouted -------------------------------
(* Small instances of RoutedAmr for TLC, on the graph of config/route_graph.yaml
   with its lengths in decimetres. *)
EXTENDS RoutedAmr, TLC

CONSTANTS r1, r2

Way(a, b, length) == [a |-> a, b |-> b, length |-> length]
DataCenter ==
  [F_left_AB |-> Way("F_left", "F_AB", 12),  F_AB_BC    |-> Way("F_AB", "F_BC", 10),
   F_BC_CD   |-> Way("F_BC", "F_CD", 11),    F_CD_right |-> Way("F_CD", "F_right", 10),
   R_left_AB |-> Way("R_left", "R_AB", 11),  R_AB_BC    |-> Way("R_AB", "R_BC", 11),
   R_BC_CD   |-> Way("R_BC", "R_CD", 11),    R_CD_right |-> Way("R_CD", "R_right", 11),
   V_left    |-> Way("F_left", "R_left", 19), V_AB      |-> Way("F_AB", "R_AB", 18),
   V_BC      |-> Way("F_BC", "R_BC", 19),    V_CD       |-> Way("F_CD", "R_CD", 19),
   V_right   |-> Way("F_right", "R_right", 19)]

Node(n)      == [on |-> n, at |-> 0]
Inside(c, d) == [on |-> c, at |-> d]
Stop(place)  == [place |-> place, gate |-> FALSE]
Check(place) == [place |-> place, gate |-> TRUE]
Zone(r, points) == [robot |-> r, points |-> points]

\* r1 comes from F_BC past the junction F_AB and the gate at F_left, r2 goes the same
\* corner the other way round: two corridors and a junction are shared, and the
\* junction is merged with one of the corridors.
AroundTheCorner ==
  [zones |-> << Zone(r1, << Check(Node("F_left")), Stop(Node("R_left")) >>),
                Zone(r2, << Check(Node("F_left")), Stop(Node("F_AB")) >>) >>,
   pose |-> r1 :> Node("F_BC") @@ r2 :> Node("R_left")]

\* The robots are sent back: r2 goes behind the racks, and shares one corridor.
TheWayBack ==
  [zones |-> << Zone(r1, << Check(Node("F_left")), Stop(Node("F_AB")) >>),
                Zone(r2, << Stop(Node("R_left")), Check(Node("F_left")) >>) >>,
   pose |-> r1 :> Node("R_left") @@ r2 :> Node("F_AB")]

OneList  == {AroundTheCorner}
TwoLists == {AroundTheCorner, TheWayBack}

\* Both robots look at the rack of the cross-aisle V_AB, from its two ends; an
\* anomaly at R_AB sends r2 through the aisle.
OneAisle ==
  {[zones |-> << Zone(r1, << Stop(Inside("V_AB", 5)) >>), Zone(r2, << Stop(Inside("V_AB", 13)) >>) >>,
    pose |-> r1 :> Node("R_AB") @@ r2 :> Node("F_AB")]}
ThroughTheAisle == r1 :> {} @@ r2 :> {[start |-> Node("F_AB"), target |-> Node("R_AB")]}

NoDetours == r1 :> {} @@ r2 :> {}
\* TLC evaluates a definition once, but what replaces a constant at every use.
Graph        == DataCenter
Plans        == RoutedPlans
Detours      == RoutedDetours
SharedPoints == RoutedPoints
AllTrips     == RoutedTrips
ShortestWays == PlansByDistance
=============================================================================
