------------------------------ MODULE ZoneRouter ------------------------------
(***************************************************************************)
(* How the Fleet Node turns the zones of the map into missions:             *)
(* route_graph.py and zone_router.py.  A patrol point is given by the place *)
(* it snaps to, a node of the graph or a point inside a corridor; the       *)
(* geometry of the snapping, headings and coordinates are left out.         *)
(***************************************************************************)
EXTENDS Naturals, Sequences, FiniteSets, SequencesExt

CONSTANTS Corridor,     \* edges of the graph: id -> its ends a and b, and its length
          NoPoint       \* point_id None: the hop is not shared

Corridors == DOMAIN Corridor
Nodes     == {Corridor[c].a : c \in Corridors} \cup {Corridor[c].b : c \in Corridors}

\* A place is a node, or a distance from the end a inside a corridor.
AtNode(n) == [on |-> n, at |-> 0]
Unknown   == [on |-> "unknown", at |-> 0]      \* no amcl_pose was received
None      == "none"                            \* the edge of a waypoint without a hop

PlaceIn(c, d) == CASE d = 0 -> AtNode(Corridor[c].a)
                   [] d = Corridor[c].length -> AtNode(Corridor[c].b)
                   [] OTHER -> [on |-> c, at |-> d]

\* is_junction, of the graph without inserted points, which have degree 2.
Junctions == {n \in Nodes : Cardinality({c \in Corridors : n \in {Corridor[c].a, Corridor[c].b}}) >= 3}

\* Sequences one after the other.  Recursive functions are used here in place of
\* folds, so that TLC evaluates the plans of an instance once.
Joined(seqs) ==
    LET upto[i \in 0 .. Len(seqs)] == IF i = 0 THEN << >> ELSE upto[i - 1] \o seqs[i]
    IN  upto[Len(seqs)]

-----------------------------------------------------------------------------
(* RouteGraph                                                               *)

\* The graph after insert_point of these places: a corridor is split at each place
\* inside it, and the parts keep the corridor they come from.
Parts(places) ==
    LET stops(c) == {0, Corridor[c].length} \cup {p.at : p \in {q \in places : q.on = c}}
        consecutive(c) == {s \in stops(c) \X stops(c) :
                             s[1] < s[2] /\ ~ \E d \in stops(c) : s[1] < d /\ d < s[2]}
        part(c, d, e) == [from |-> PlaceIn(c, d), to |-> PlaceIn(c, e), base |-> c,
                          length |-> IF d < e THEN e - d ELSE d - e]
    IN  UNION {{part(c, s[1], s[2]) : s \in consecutive(c)} \cup
               {part(c, s[2], s[1]) : s \in consecutive(c)} : c \in Corridors}

\* Mutant: the first way found to a place is kept.
BugFirstWay(found, way) == \A w \in found : w.place # way.place

\* A place reached for the first time, or by a shorter way.
Improves(found, way) == \A w \in found : w.place = way.place => way.length < w.length

\* The ways from a place that is visited, and those of them that are taken over.  A
\* place is found with the way to it, in place of a pointer to the one before.
WaysOn(parts, u) ==
    {[place |-> h.to, length |-> u.length + h.length, hops |-> Append(u.hops, [to |-> h.to, edge |-> h.base])] :
        h \in {p \in parts : p.from = u.place}}
Better(found, ways) ==
    {w \in ways : Improves(found, w) /\ \A v \in ways : v.place = w.place => w.length <= v.length}
TakeOver(found, better) == better \cup {w \in found : \A v \in better : v.place # w.place}

Waiting(search) == {w \in search.found : w.place \notin search.visited}
Nearest(ways)   == CHOOSE w \in ways : \A v \in ways : w.length <= v.length

VisitPlace(parts, search, u) ==
    [visited |-> search.visited \cup {u.place},
     found |-> TakeOver(search.found, Better(search.found, WaysOn(parts, u)))]

\* One turn of the loop of shortest_path: the nearest place that was not visited is visited.
Visit(parts, goal, search) ==
    IF goal \in search.visited \/ Waiting(search) = {} THEN search
    ELSE VisitPlace(parts, search, Nearest(Waiting(search)))

\* shortest_path, the hops after its start.
ShortestPath(parts, start, goal) ==
    LET places == Cardinality({h.from : h \in parts})
        search[i \in 0 .. places] ==
          IF i = 0 THEN [visited |-> {}, found |-> {[place |-> start, length |-> 0, hops |-> << >>]}]
          ELSE Visit(parts, goal, search[i - 1])
    IN  (CHOOSE w \in search[places].found : w.place = goal).hops

-----------------------------------------------------------------------------
(* Zones to missions                                                        *)

\* _emit_hop: only the end is a patrol point, which may have a gate.  Equal places
\* give no waypoint at all.
HopsAlong(path, gate) ==
    [i \in DOMAIN path |-> [to |-> path[i].to, edge |-> path[i].edge, gate |-> i = Len(path) /\ gate]]
EmitHop(parts, start, point) == HopsAlong(ShortestPath(parts, start, point.place), point.gate)

\* _route_zone.  Without a position, or at the first point, the robot drives there
\* with no hop before it.
RouteThrough(points, start, parts) ==
    LET first  == IF start \in {Unknown, points[1].place}
                  THEN << [to |-> points[1].place, edge |-> None, gate |-> points[1].gate] >>
                  ELSE EmitHop(parts, start, points[1])
        leg(i) == EmitHop(parts, points[i].place, points[i + 1])
    IN  first \o Joined([i \in 1 .. Len(points) - 1 |-> leg(i)])
RouteZone(zone, start) ==
    RouteThrough(zone.points, start,
                 Parts({zone.points[i].place : i \in DOMAIN zone.points} \cup {start}))

\* The hops of each robot; of two zones of one robot the later counts.
ZoneOf(zones, r) ==
    zones[CHOOSE i \in DOMAIN zones : zones[i].robot = r
            /\ \A j \in DOMAIN zones : zones[j].robot = r => j <= i]
RobotsOf(zones) == {zones[i].robot : i \in DOMAIN zones}
HopsOf(zones, pose) ==
    [r \in RobotsOf(zones) |-> RouteZone(ZoneOf(zones, r), pose[r])]

\* The hops of all robots, in the order their first zones come.
AllHops(zones, hops) ==
    LET first(i) == \A j \in 1 .. i - 1 : zones[j].robot # zones[i].robot
    IN  Joined([i \in DOMAIN zones |-> IF first(i) THEN hops[zones[i].robot] ELSE << >>])

-----------------------------------------------------------------------------
(* Shared resources                                                         *)

X(h) == << "X", h.edge >>
J(h) == << "J", h.to.on >>
Resources == ({"X"} \X Corridors) \cup ({"J"} \X Nodes)

ArrivesAtJunction(h) == h.to.on \in Junctions

\* What a hop uses, and what two robots or more use.
Uses(h) == IF h.edge = None THEN {}
           ELSE {X(h)} \cup (IF ArrivesAtJunction(h) THEN {J(h)} ELSE {})
Users(hops, x) == {r \in DOMAIN hops : \E h \in ToSet(hops[r]) : x \in Uses(h)}
Shared(hops)   == {x \in Resources : Cardinality(Users(hops, x)) >= 2}

\* Mutant: a corridor and the junction a hop needs at once keep ids of their own.
BugNoMerge(root, a, b) == root

\* _UnionFind.union, with the root of every resource at hand.
Merge(root, a, b) == [x \in DOMAIN root |-> IF root[x] = root[a] THEN root[b] ELSE root[x]]

\* The hops that need a corridor and a junction at once merge the two, one by one.
MergedBy(hops, both, resources) ==
    LET root[i \in 0 .. Len(hops)] ==
          IF i = 0 THEN [x \in resources |-> x]
          ELSE IF hops[i] \in both THEN Merge(root[i - 1], X(hops[i]), J(hops[i])) ELSE root[i - 1]
    IN  root[Len(hops)]

\* build_missions: resource_canonical, the point_id of each shared resource.
MergeShared(hops, shared) == MergedBy(hops, {h \in ToSet(hops) : {X(h), J(h)} \subseteq shared}, shared)
Canonical(zones, hops)    == MergeShared(AllHops(zones, hops), Shared(hops))

\* The waypoint of a hop, with the point_id to ask for before it.
Tagged(h, canonical) ==
    [gate |-> h.gate,
     point |-> CASE X(h) \in DOMAIN canonical -> canonical[X(h)]
                 [] X(h) \notin DOMAIN canonical /\ J(h) \in DOMAIN canonical -> canonical[J(h)]
                 [] OTHER -> NoPoint]

\* build_missions: the waypoints of the robots.
TagAll(hops, canonical) ==
    [r \in DOMAIN hops |-> [i \in DOMAIN hops[r] |-> Tagged(hops[r][i], canonical)]]
MissionsOf(zones, hops)    == TagAll(hops, Canonical(zones, hops))
BuildMissions(zones, pose) == MissionsOf(zones, HopsOf(zones, pose))

-----------------------------------------------------------------------------
(* Detours                                                                  *)

\* route_to_point: the hops of an anomaly or dock route.
DetourHops(start, target) ==
    IF start = target THEN << [to |-> target, edge |-> None, gate |-> FALSE] >>
    ELSE EmitHop(Parts({start, target}), start, [place |-> target, gate |-> FALSE])

\* route_to_point: every hop gets a point_id, merged along this route alone, and
\* replaced where the patrols know a resource by that name.
MergeDetour(hops) == MergedBy(hops, {h \in ToSet(hops) : ArrivesAtJunction(h)}, Resources)
TagDetour(hops, root, canonical) ==
    LET local(h) == root[IF ArrivesAtJunction(h) THEN J(h) ELSE X(h)]
        id(h) == IF local(h) \in DOMAIN canonical THEN canonical[local(h)] ELSE local(h)
    IN  [i \in DOMAIN hops |-> [gate |-> FALSE, point |-> id(hops[i])]]
NameDetour(hops, canonical) == TagDetour(hops, MergeDetour(hops), canonical)
RouteToPoint(start, target, canonical) ==
    IF start = target THEN << [gate |-> FALSE, point |-> NoPoint] >>
    ELSE NameDetour(DetourHops(start, target), canonical)
=============================================================================
