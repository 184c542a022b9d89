------------------------------ MODULE RoutedAmr ------------------------------
(***************************************************************************)
(* The robots and the Fleet Node with the missions and detours that the     *)
(* router makes of zones.  AmrSystem sees only point_ids; here the hops     *)
(* behind them are at hand, so that what the point_ids are for can be said: *)
(* a corridor lets one robot through at a time.                             *)
(***************************************************************************)
EXTENDS AmrSystem, SequencesExt

CONSTANTS Corridor,    \* the graph, see ZoneRouter
          ZoneLists,   \* what /backend/map_points may carry: zones, and the places
                       \* the robots were last heard at
          DetoursOf,   \* per robot, where an anomaly may send it from and to
          Trips,       \* the routes with the hops behind them: RoutedTrips
          ShortestPlans   \* the plans that are shortest ways: PlansByDistance

Router == INSTANCE ZoneRouter

\* route_graph.yaml: corridors of some length lead from every node to every other.
LedOn(N) == \A c \in Router!Corridors : Corridor[c].a \in N <=> Corridor[c].b \in N
ASSUME GraphAssumption ==
    /\ IsFiniteSet(Router!Corridors)
    /\ Router!Corridors \cap Router!Nodes = {}
    /\ \A c \in Router!Corridors :
          Corridor[c].a # Corridor[c].b /\ Corridor[c].length \in Nat \ {0}
    /\ \A N \in SUBSET Router!Nodes : N # {} /\ LedOn(N) => N = Router!Nodes
    /\ NoPoint \notin Router!Resources

\* Zones are given by places of the graph, and so is where a robot was last heard.
IsPlace(p) == IF p.on \in Router!Nodes THEN p.at = 0
              ELSE 0 < p.at /\ p.at < Corridor[p.on].length
Places == {p \in [on : Router!Corridors \cup Router!Nodes, at : Nat] : IsPlace(p)}
Zones  == [robot : Robots, points : Seq([place : Places, gate : BOOLEAN]) \ {<< >>}]
ASSUME ListsAssumption ==
    \A list \in ZoneLists :
        list.zones \in Seq(Zones) /\ list.pose \in [Robots -> Places \cup {Router!Unknown}]

\* What _apply_zones makes of a list: NoRoute for a robot without a zone.
Plan(made)   == [r \in Robots |-> IF r \in DOMAIN made THEN made[r] ELSE NoRoute]
PlanOf(list) == Plan(Router!BuildMissions(list.zones, list.pose))
RoutedPlans == {PlanOf(list) : list \in ZoneLists}

\* The routes a dispatch computes with the shared resources of a list.
LOCAL DetourRoute(d, list) ==
    Router!RouteToPoint(d.start, d.target,
                        Router!Canonical(list.zones, Router!HopsOf(list.zones, list.pose)))
RoutedDetours ==
    [r \in Robots |-> {DetourRoute(d, list) : d \in DetoursOf[r], list \in ZoneLists}]

\* The point_ids they can ask for.
RoutedPoints ==
    {w.point : w \in UNION {ToSet(route) : route \in
                  UNION {{plan[r] : plan \in RoutedPlans} \cup RoutedDetours[r] : r \in Robots}}} \ {NoPoint}

\* The hops behind every route a robot may be on.
Trip(r, patrol, route, hops) == [robot |-> r, patrol |-> patrol, route |-> route, hops |-> hops]
RoutedTrips ==
    {Trip(r, TRUE, PlanOf(list)[r], Router!HopsOf(list.zones, list.pose)[r]) :
        r \in Robots, list \in {l \in ZoneLists : Router!RobotsOf(l.zones) = Robots}}
    \cup UNION {{Trip(r, FALSE, DetourRoute(d, list), Router!DetourHops(d.start, d.target)) :
                   d \in DetoursOf[r], list \in ZoneLists} : r \in Robots}

\* An instance names the two sets by constants, to have them at hand in every state.
ASSUME TripsAssumption == Trips = RoutedTrips

\* The instance keeps the routes of a robot apart that differ in a hop.
ASSUME RouteNamesHops ==
    \A s, t \in Trips : s.robot = t.robot /\ s.patrol = t.patrol /\ s.route = t.route => s.hops = t.hops

TripsOf(r, kind) == {t \in Trips : t.robot = r /\ (t.patrol <=> kind = "mission")}
Hop(r) == (CHOOSE t \in TripsOf(r, Top(r).kind) : t.route = Top(r).route).hops[Top(r).i]

-----------------------------------------------------------------------------
\* Two robots never drive through one corridor, nor to one junction, at the same
\* time (route_graph.py:1, zone_router.py:33), whatever the points they ask for are
\* called: what the resources, their merging and the arbitration are for together.
Meet(g, h) == g.edge # Router!None /\ h.edge # Router!None
              /\ (g.edge = h.edge \/ (g.to = h.to /\ Router!ArrivesAtJunction(g)))
OneRobotPerCorridor ==
    \A r, s \in Robots :
        r # s /\ pc[r] = "moving" /\ pc[s] = "moving" => ~ Meet(Hop(r), Hop(s))

-----------------------------------------------------------------------------
(* A reference for the ways: the distances from a node, made longer by one     *)
(* corridor at all nodes at once, as often as there are nodes.                *)

OtherEnd(c, n) == IF n = Corridor[c].a THEN Corridor[c].b ELSE Corridor[c].a
Longer(w) == {<< OtherEnd(c, w[1]), w[2] + Corridor[c].length >> :
                c \in {d \in Router!Corridors : w[1] \in {Corridor[d].a, Corridor[d].b}}}
Least(ws) == {w \in ws : \A v \in ws : v[1] = w[1] => w[2] <= v[2]}
Onward(ws) == Least(ws \cup UNION {Longer(w) : w \in ws})
Distances(m) ==
    LET walks[i \in 0 .. Cardinality(Router!Nodes)] ==
          IF i = 0 THEN {<< m, 0 >>} ELSE Onward(walks[i - 1])
    IN  walks[Cardinality(Router!Nodes)]
NodeDistances == UNION {{<< m, w[1], w[2] >> : w \in Distances(m)} : m \in Router!Nodes}

\* The ends of a place's corridor, and how far they are.
Exits(p) == IF p.on \in Router!Nodes THEN {<< p.on, 0 >>}
            ELSE {<< Corridor[p.on].a, p.at >>, << Corridor[p.on].b, Corridor[p.on].length - p.at >>}
Gap(m, n) == IF m < n THEN n - m ELSE m - n

\* A length that no way between two places undercuts, neither along their corridor
\* nor over the nodes at its ends.
Undercut(length, p, q) ==
    \/ p.on = q.on /\ Gap(p.at, q.at) < length
    \/ \E x \in Exits(p), y \in Exits(q), d \in NodeDistances :
          d[1] = x[1] /\ d[2] = y[1] /\ x[2] + d[3] + y[2] < length

\* Where along a corridor a place is, and how far it is driven to each stop.
OnCorridor(p, c) == p.on \in {c, Corridor[c].a, Corridor[c].b}
Along(p, c) == IF p.on = Corridor[c].b THEN Corridor[c].length ELSE p.at
Mileage(stops, hops) ==
    LET miles[i \in DOMAIN stops] ==
          IF i = 1 THEN 0
          ELSE miles[i - 1] + Gap(Along(stops[i - 1], hops[i - 1].edge), Along(stops[i], hops[i - 1].edge))
    IN  miles

\* The hops follow corridors from stop to stop and pass the goals in order, from the
\* first to the last, and no way from one goal to the next is shorter.
FollowsCorridors(stops, hops) ==
    \A i \in DOMAIN hops : OnCorridor(stops[i], hops[i].edge) /\ OnCorridor(stops[i + 1], hops[i].edge)
Passes(goals, stops, at) ==
    /\ at[1] = 1 /\ at[Len(goals)] = Len(stops)
    /\ \A i \in DOMAIN goals : stops[at[i]] = goals[i]
    /\ \A i \in 1 .. Len(goals) - 1 : at[i] <= at[i + 1]
ShortestWay(goals, stops, hops) ==
    /\ FollowsCorridors(stops, hops)
    /\ \E at \in [DOMAIN goals -> DOMAIN stops] :
          /\ Passes(goals, stops, at)
          /\ \A i \in 1 .. Len(goals) - 1 :
                ~ Undercut(Mileage(stops, hops)[at[i + 1]] - Mileage(stops, hops)[at[i]],
                           goals[i], goals[i + 1])

\* The way starts where the robot is, or with no hop at the first point of the zone,
\* if it is there or its place is not known.
Shortest(zone, start, hops) ==
    LET goals == [i \in DOMAIN zone.points |-> zone.points[i].place]
        stops == [i \in DOMAIN hops |-> hops[i].to]
    IN  IF start \in {Router!Unknown, goals[1]}
        THEN ShortestWay(goals, stops, Tail(hops))
        ELSE ShortestWay(<< start >> \o goals, << start >> \o stops, hops)
ShortestFor(list, r) ==
    Shortest(Router!ZoneOf(list.zones, r), list.pose[r], Router!HopsOf(list.zones, list.pose)[r])

PlansByDistance ==
    {PlanOf(list) : list \in {l \in ZoneLists : \A r \in Router!RobotsOf(l.zones) : ShortestFor(l, r)}}

ASSUME ShortestAssumption == ShortestPlans = PlansByDistance

\* The missions the Fleet Node publishes lead the robots through the points of their
\* zones in order, from where they are, each by a shortest way (route_graph.py:157).
MissionsAreShortest ==
    (\E r \in Robots : missions[r] # NoRoute) => missions \in ShortestPlans
=============================================================================
