---------------------------- MODULE Missions_proofs ----------------------------
(***************************************************************************)
(* Proofs about Missions, for any robots, nodes, events and numbers of      *)
(* missions and commands: no robot is given a second anomaly by itself, a   *)
(* robot's row names an open mission of the robot, a robot that is held can *)
(* be released, and no node has two holders.                                *)
(***************************************************************************)
EXTENDS Missions, FiniteSetTheorems, WellFoundedInduction, TLAPS

\* A running anomaly nobody named.
Unnamed(ms, m) == ms[m].type = "ANOMALY" /\ ms[m].status = "RUNNING" /\ ~ ms[m].named

\* After one its robot gets no patrol, since a patrol is started for a robot without a
\* running mission, and no anomaly that runs, unless it was named.  So the newest of
\* its running missions is an anomaly, which is all the selection looks at.
Alone(ms) ==
    \A m, n \in DOMAIN ms :
        m < n /\ ms[m].robot = ms[n].robot /\ Unnamed(ms, m)
        => ms[n].type = "ANOMALY" /\ (ms[n].status = "RUNNING" => ms[n].named)

\* What the vision bridge may have decided.
Decisions == {None} \cup [act : {"dispatch", "hold"}, event : Events, robot : Robots \cup {None}]

DecisionOK == /\ decision \in Decisions
              /\ decision # None => /\ decision.act \in {"dispatch", "hold"} /\ decision.event \in Events
                                    /\ decision.act = "hold" => decision.robot \in Robots

\* The rows of missions with what names them, and the other rows.
MissionPart == /\ missions \in Seq(MissionRows) /\ Len(missions) <= MaxMissions
               /\ current \in [Robots -> (1 .. MaxMissions) \cup {None}]
               /\ CurrentIsOpen /\ Alone(missions)

RobotPart == /\ status \in [Robots -> Statuses] /\ online \in [Robots -> BOOLEAN]
             /\ checkpoint \in [Robots -> Statuses \cup {None}]
             /\ fresh \in [Robots -> BOOLEAN] /\ cooldown \in [Robots -> BOOLEAN]
             /\ held \in [Robots -> BOOLEAN]
             /\ events \in [Events -> EventStatuses]
             /\ DecisionOK

MissionsInv == MissionPart /\ RobotPart

\* What a step may leave alone: all rows of a robot, and the nodes open patrols hold.
RowsStayOf(r) ==
    /\ \A m \in DOMAIN missions : missions[m].robot = r => m \in DOMAIN missions' /\ missions'[m] = missions[m]
    /\ \A m \in DOMAIN missions' : missions'[m].robot = r => m \in DOMAIN missions /\ missions'[m] = missions[m]

NodesStay ==
    \A n \in DOMAIN missions' :
        missions'[n].type = "PATROL" /\ missions'[n].status \in Open =>
            /\ n \in DOMAIN missions /\ missions[n].type = "PATROL" /\ missions[n].status \in Open
            /\ missions'[n].robot = missions[n].robot /\ missions'[n].nodes = missions[n].nodes

-----------------------------------------------------------------------------
(* Sequences of rows.                                                       *)

LEMMA ConcatFacts ==
  ASSUME NEW S, NEW s \in Seq(S), NEW t \in Seq(S)
  PROVE  s \o t \in Seq(S) /\ Len(s \o t) = Len(s) + Len(t) /\ DOMAIN (s \o t) = 1 .. Len(s) + Len(t)
OBVIOUS

\* Rows that keep their robot and type, and run only if they ran or are named.
LEMMA RowsChange ==
  ASSUME NEW ms \in Seq(MissionRows), NEW ns \in Seq(MissionRows), Alone(ms), DOMAIN ns = DOMAIN ms,
         \A m \in DOMAIN ms :
            /\ ns[m].robot = ms[m].robot /\ ns[m].type = ms[m].type
            /\ ms[m].named => ns[m].named
            /\ ms[m].type = "ANOMALY" /\ ns[m].status = "RUNNING" => ms[m].status = "RUNNING" \/ ns[m].named
  PROVE  Alone(ns)
<1> SUFFICES ASSUME NEW m \in DOMAIN ns, NEW n \in DOMAIN ns,
                    m < n, ns[m].robot = ns[n].robot, Unnamed(ns, m)
             PROVE  ns[n].type = "ANOMALY" /\ (ns[n].status = "RUNNING" => ns[n].named)
  BY DEF Alone
<1>1. Unnamed(ms, m) /\ ms[m].robot = ms[n].robot
  BY DEF Unnamed
<1>2. ms[n].type = "ANOMALY" /\ (ms[n].status = "RUNNING" => ms[n].named)
  BY <1>1 DEF Alone
<1> QED
  BY <1>2

\* Rows behind the others: patrols of robots that have nothing running, or one anomaly.
LEMMA PatrolsAdded ==
  ASSUME NEW ms \in Seq(MissionRows), NEW new \in Seq(MissionRows), Alone(ms),
         \A k \in DOMAIN new :
            /\ new[k].type = "PATROL"
            /\ \A m \in DOMAIN ms : ~ (ms[m].robot = new[k].robot /\ ms[m].status = "RUNNING")
  PROVE  Alone(ms \o new)
<1> SUFFICES ASSUME NEW m \in DOMAIN (ms \o new), NEW n \in DOMAIN (ms \o new), m < n,
                    (ms \o new)[m].robot = (ms \o new)[n].robot, Unnamed(ms \o new, m)
             PROVE  /\ (ms \o new)[n].type = "ANOMALY"
                    /\ (ms \o new)[n].status = "RUNNING" => (ms \o new)[n].named
  BY DEF Alone
<1>1. \A i \in DOMAIN (ms \o new) : \/ i \in DOMAIN ms /\ (ms \o new)[i] = ms[i]
                                    \/ i - Len(ms) \in DOMAIN new /\ i > Len(ms) /\ (ms \o new)[i] = new[i - Len(ms)]
  OBVIOUS
<1>2. m \in DOMAIN ms /\ (ms \o new)[m] = ms[m]
  BY <1>1 DEF Unnamed
<1>3. CASE n \in DOMAIN ms /\ (ms \o new)[n] = ms[n]
  BY <1>2, <1>3 DEF Alone, Unnamed
<1>4. CASE n - Len(ms) \in DOMAIN new /\ (ms \o new)[n] = new[n - Len(ms)]
  BY <1>2, <1>4 DEF Unnamed
<1> QED
  BY <1>1, <1>3, <1>4

LEMMA AnomalyAdded ==
  ASSUME NEW ms \in Seq(MissionRows), NEW row \in MissionRows, Alone(ms),
         row.type = "ANOMALY",
         row.named \/ \A m \in DOMAIN ms : ms[m].robot = row.robot => ~ Unnamed(ms, m)
  PROVE  Alone(Append(ms, row))
<1> DEFINE ns == Append(ms, row)
<1> SUFFICES ASSUME NEW m \in DOMAIN ns, NEW n \in DOMAIN ns, m < n, ns[m].robot = ns[n].robot, Unnamed(ns, m)
             PROVE  ns[n].type = "ANOMALY" /\ (ns[n].status = "RUNNING" => ns[n].named)
  BY DEF Alone
<1>1. m \in DOMAIN ms /\ ns[m] = ms[m]
  OBVIOUS
<1>2. (n \in DOMAIN ms /\ ns[n] = ms[n]) \/ ns[n] = row
  OBVIOUS
<1> HIDE DEF ns
<1>3. Unnamed(ms, m)
  BY <1>1 DEF Unnamed
<1> QED
  BY <1>1, <1>2, <1>3 DEF Alone

-----------------------------------------------------------------------------
(* Queries.                                                                 *)

\* The newest of some missions.
LEMMA LatestFacts ==
  ASSUME MissionPart, NEW S \in SUBSET DOMAIN missions, S # {}
  PROVE  Latest(S) \in S /\ \A n \in S : n <= Latest(S)
<1> DEFINE less == OpToRel(<, Nat)
           T == {Len(missions) - m : m \in S}
<1>1. Len(missions) \in Nat /\ DOMAIN missions = 1 .. Len(missions)
  BY DEF MissionPart
<1>2. IsWellFoundedOn(less, Nat)
  BY NatLessThanWellFounded, Zenon
<1>3. \A i, j \in Nat : i < j => <<i, j>> \in less
  BY DEF OpToRel
<1>4. T \subseteq Nat /\ T # {}
  BY <1>1
<1> HIDE DEF less
<1>5. PICK t \in T : \A u \in T : ~ (<<u, t>> \in less)
  BY <1>2, <1>4, WFMin
<1>6. PICK m \in S : t = Len(missions) - m
  OBVIOUS
<1>7. \A n \in S : n <= m
  <2> SUFFICES ASSUME NEW n \in S PROVE n <= m
    OBVIOUS
  <2>1. Len(missions) - n \in T /\ n \in Nat /\ m \in Nat
    BY <1>1
  <2>2. ~ (Len(missions) - n < t)
    BY <1>3, <1>4, <1>5, <2>1, Zenon
  <2> QED
    BY <1>1, <1>6, <2>1, <2>2
<1>8. \E l \in S : \A n \in S : n <= l
  BY <1>7
<1> QED
  BY <1>8 DEF Latest

\* Whoever is at an anomaly nobody named is seen to be.
LEMMA AnomalyIsSeen ==
  ASSUME MissionPart, NEW m \in DOMAIN missions, Unnamed(missions, m)
  PROVE  HasActiveAnomaly(missions[m].robot)
<1> DEFINE r == missions[m].robot
           l == Latest(Running(r))
<1>1. m \in Running(r) /\ Running(r) \subseteq DOMAIN missions
  BY DEF Running, MissionsOf, Unnamed
<1>2. l \in Running(r) /\ m <= l
  <2> DEFINE S == Running(r)
  <2>1. S \in SUBSET DOMAIN missions /\ S # {} /\ m \in S
    BY <1>1
  <2> HIDE DEF S
  <2>2. Latest(S) \in S /\ \A n \in S : n <= Latest(S)
    BY <2>1, LatestFacts, Zenon
  <2>3. m <= Latest(S)
    BY <2>1, <2>2, Zenon
  <2> QED
    BY <2>2, <2>3 DEF S
<1>3. l \in DOMAIN missions /\ missions[l].robot = r
  BY <1>2, Zenon DEF Running, MissionsOf
<1>4. missions[l].type = "ANOMALY"
  <2>1. CASE l = m
    BY <2>1 DEF Unnamed
  <2>2. CASE m < l
    BY <1>3, <2>2 DEF MissionPart, Alone
  <2>3. m \in Nat /\ l \in Nat
    BY <1>3 DEF MissionPart
  <2> QED
    BY <1>2, <2>1, <2>2, <2>3
<1> QED
  BY <1>1, <1>4 DEF HasActiveAnomaly

-----------------------------------------------------------------------------
(* Changes of the rows.                                                     *)

\* One row gets another status, and may be named; current stays, or forgets its robot.
LEMMA OneRowChanges ==
  ASSUME MissionPart, NEW m \in DOMAIN missions, NEW row \in MissionRows,
         missions' = [missions EXCEPT ![m] = row],
         row.robot = missions[m].robot, row.type = missions[m].type, missions[m].named => row.named,
         row.type = "ANOMALY" /\ row.status = "RUNNING" => missions[m].status = "RUNNING" \/ row.named,
         \/ row.status \in Open /\ UNCHANGED current
         \/ current' = [current EXCEPT ![missions[m].robot] = None],
         row.nodes = missions[m].nodes, row.status \in Open => missions[m].status \in Open
  PROVE  MissionPart' /\ NodesStay /\ \A q \in Robots \ {missions[m].robot} : RowsStayOf(q)
<1> USE MissionsAssumption
<1>4. missions' \in Seq(MissionRows) /\ DOMAIN missions' = DOMAIN missions /\ Len(missions') = Len(missions)
      /\ missions'[m] = row /\ \A n \in DOMAIN missions \ {m} : missions'[n] = missions[n]
  BY DEF MissionPart
<1>5. current' \in [Robots -> (1 .. MaxMissions) \cup {None}]
  BY DEF MissionPart
<1>6. CurrentIsOpen'
  <2> SUFFICES ASSUME NEW r \in Robots, current'[r] # None
               PROVE  /\ current'[r] \in DOMAIN missions'
                      /\ missions'[current'[r]].robot = r /\ missions'[current'[r]].status \in Open
    BY DEF CurrentIsOpen
  <2>1. current'[r] = current[r] /\ (row.status \in Open \/ r # missions[m].robot)
    BY DEF MissionPart
  <2>2. current[r] \in DOMAIN missions /\ missions[current[r]].robot = r /\ missions[current[r]].status \in Open
    BY <2>1 DEF MissionPart, CurrentIsOpen
  <2> QED
    BY <1>4, <2>1, <2>2
<1>7. Alone(missions')
  <2>1. \A n \in DOMAIN missions :
          /\ missions'[n].robot = missions[n].robot /\ missions'[n].type = missions[n].type
          /\ missions[n].named => missions'[n].named
          /\ missions[n].type = "ANOMALY" /\ missions'[n].status = "RUNNING"
                => missions[n].status = "RUNNING" \/ missions'[n].named
    BY <1>4
  <2>2. missions \in Seq(MissionRows) /\ Alone(missions)
    BY DEF MissionPart
  <2>3. missions' \in Seq(MissionRows) /\ DOMAIN missions' = DOMAIN missions
    BY <1>4
  <2> QED
    BY <2>1, <2>2, <2>3, RowsChange
<1>8. NodesStay /\ \A q \in Robots \ {missions[m].robot} : RowsStayOf(q)
  BY <1>4 DEF NodesStay, RowsStayOf
<1> QED
  BY <1>4, <1>5, <1>6, <1>7, <1>8 DEF MissionPart

\* An anomaly is assigned to a robot that has none, or to one the operator names.
LEMMA AssignKeeps ==
  ASSUME MissionPart, NEW e \in Events, NEW r \in Robots, NEW preempt \in BOOLEAN, NEW st, NEW op \in BOOLEAN,
         AssignAnomaly(e, r, preempt, st, op), op \/ ~ HasActiveAnomaly(r)
  PROVE  /\ MissionPart' /\ NodesStay /\ \A q \in Robots \ {r} : RowsStayOf(q)
         /\ HasActiveAnomaly(r)'
<1> USE MissionsAssumption
<1> DEFINE run == Running(r)
           l == Latest(run)
           stops == preempt /\ run # {} /\ missions[l].type = "PATROL"
           old == IF stops THEN [missions EXCEPT ![l].status = "PREEMPTED"] ELSE missions
           row == Anomaly(r, e, op)
<1>1. /\ missions' = Append(old, row) /\ current' = [current EXCEPT ![r] = Len(missions) + 1]
      /\ Len(missions) < MaxMissions
  BY DEF AssignAnomaly
<1>2. row \in MissionRows /\ row.robot = r /\ row.type = "ANOMALY" /\ row.status = "RUNNING" /\ row.named = op
  BY DEF Anomaly, MissionRows, Open
<1>3. missions \in Seq(MissionRows) /\ Len(missions) \in Nat /\ DOMAIN missions = 1 .. Len(missions) /\ Alone(missions)
  BY DEF MissionPart
<1>4. /\ old \in Seq(MissionRows) /\ DOMAIN old = DOMAIN missions /\ Len(old) = Len(missions)
      /\ \A m \in DOMAIN missions :
            /\ old[m].robot = missions[m].robot /\ old[m].type = missions[m].type /\ old[m].named = missions[m].named
            /\ old[m].nodes = missions[m].nodes
            /\ \/ old[m] = missions[m]
               \/ missions[m].robot = r /\ missions[m].status = "RUNNING" /\ old[m].status = "PREEMPTED"
  <2>1. CASE ~ stops
    BY <1>3, <2>1
  <2>2. CASE stops
    <3>1. l \in DOMAIN missions /\ missions[l].robot = r /\ missions[l].status = "RUNNING"
      <4>1. run \subseteq DOMAIN missions
        BY DEF Running, MissionsOf
      <4>2. l \in run
        BY <2>2, <4>1, LatestFacts
      <4> QED
        BY <4>2 DEF Running, MissionsOf
    <3> HIDE DEF l
    <3> DEFINE changed == [missions[l] EXCEPT !.status = "PREEMPTED"]
    <3>2. missions[l] \in MissionRows
      BY <1>3, <3>1
    <3>3. /\ changed \in MissionRows /\ changed.robot = missions[l].robot /\ changed.type = missions[l].type
          /\ changed.named = missions[l].named /\ changed.status = "PREEMPTED" /\ changed.nodes = missions[l].nodes
      BY <3>2 DEF MissionRows, Open
    <3>4. old = [missions EXCEPT ![l] = changed]
      BY <2>2
    <3> HIDE DEF changed, old
    <3> QED
      BY <1>3, <3>1, <3>3, <3>4
  <2> QED
    BY <2>1, <2>2
<1> HIDE DEF old, row
<1>5. Alone(old)
  BY <1>3, <1>4, RowsChange
<1>6. row.named \/ \A m \in DOMAIN old : old[m].robot = row.robot => ~ Unnamed(old, m)
  <2> SUFFICES ASSUME ~ op, NEW m \in DOMAIN old, old[m].robot = r, Unnamed(old, m) PROVE FALSE
    BY <1>2
  <2>1. Unnamed(missions, m) /\ missions[m].robot = r
    BY <1>4 DEF Unnamed
  <2> QED
    BY <1>4, <2>1, AnomalyIsSeen
<1>7. Alone(missions')
  BY <1>1, <1>2, <1>4, <1>5, <1>6, AnomalyAdded
<1>8. /\ missions' \in Seq(MissionRows) /\ Len(missions') = Len(missions) + 1
      /\ DOMAIN missions' = 1 .. Len(missions) + 1 /\ missions'[Len(missions) + 1] = row
      /\ \A m \in DOMAIN missions : missions'[m] = old[m]
  BY <1>1, <1>2, <1>3, <1>4
<1>9. current' \in [Robots -> (1 .. MaxMissions) \cup {None}]
  BY <1>1, <1>3 DEF MissionPart
<1>10. CurrentIsOpen'
  <2> SUFFICES ASSUME NEW q \in Robots, current'[q] # None
               PROVE  /\ current'[q] \in DOMAIN missions'
                      /\ missions'[current'[q]].robot = q /\ missions'[current'[q]].status \in Open
    BY DEF CurrentIsOpen
  <2>1. CASE q = r
    BY <1>1, <1>2, <1>3, <1>8, <2>1 DEF MissionPart, Open
  <2>2. CASE q # r
    <3>1. current'[q] = current[q]
      BY <1>1, <2>2 DEF MissionPart
    <3>2. current[q] \in DOMAIN missions /\ missions[current[q]].robot = q /\ missions[current[q]].status \in Open
      BY <3>1 DEF MissionPart, CurrentIsOpen
    <3> QED
      BY <1>3, <1>4, <1>8, <3>1, <3>2 DEF Open
  <2> QED
    BY <2>1, <2>2
<1>11. MissionPart'
  BY <1>1, <1>3, <1>7, <1>8, <1>9, <1>10 DEF MissionPart
<1>12. NodesStay /\ \A q \in Robots \ {r} : RowsStayOf(q)
  BY <1>2, <1>3, <1>4, <1>8 DEF NodesStay, RowsStayOf, Open
<1>13. HasActiveAnomaly(r)'
  <2> DEFINE S == Running(r)'
             n == Len(missions) + 1
  <2>1. n \in S /\ S \subseteq DOMAIN missions' /\ \A m \in DOMAIN missions' : m <= n /\ m \in Nat
    BY <1>2, <1>3, <1>8 DEF Running, MissionsOf
  <2> HIDE DEF S
  <2>2. Latest(S) = n
    BY <1>3, <2>1 DEF Latest
  <2> QED
    BY <1>2, <1>8, <2>1, <2>2 DEF S, HasActiveAnomaly
<1> QED
  BY <1>11, <1>12, <1>13

\* A function from 1 .. n is a sequence of length n.
LEMMA RowsFromFunction ==
  ASSUME NEW S, NEW n \in Nat, NEW rows \in [1 .. n -> S]
  PROVE  rows \in Seq(S) /\ Len(rows) = n /\ DOMAIN rows = 1 .. n
  OBVIOUS

\* Rows behind others keep their order, and the others their places.
LEMMA RowsAfter ==
  ASSUME NEW old \in Seq(MissionRows), NEW new \in Seq(MissionRows), NEW rows, rows = old \o new
  PROVE  /\ rows \in Seq(MissionRows) /\ Len(rows) = Len(old) + Len(new)
         /\ DOMAIN rows = 1 .. Len(old) + Len(new)
         /\ \A m \in DOMAIN old : rows[m] = old[m]
         /\ \A k \in 1 .. Len(new) : rows[Len(old) + k] = new[k]
OBVIOUS

\* start_patrol: robots without a running mission get patrols.
LEMMA StartKeeps ==
  ASSUME MissionPart, NEW robotIds \in StartLists, NEW route \in Routes, StartPatrol(robotIds, route)
  PROVE  /\ MissionPart' /\ \A q \in Robots \ ToSet(robotIds) : RowsStayOf(q)
         /\ Len(robotIds) = 1 /\ OneHolderPerNode => OneHolderPerNode'
<1> USE MissionsAssumption
<1> DEFINE granted == Claim(robotIds, route)
           served  == IF Cardinality(granted) < Len(robotIds) THEN Cardinality(granted) ELSE Len(robotIds)
           new     == [k \in 1 .. served |-> Patrol(robotIds[k], Share(granted, route, robotIds, k))]
           number(r) == CHOOSE k \in 1 .. served : robotIds[k] = r
           started == {robotIds[k] : k \in 1 .. served}
<1>1. /\ \A r \in ToSet(robotIds) : Running(r) = {}
      /\ Len(missions) + served <= MaxMissions
      /\ missions' = missions \o new
      /\ current' = [r \in Robots |-> IF r \in started THEN Len(missions) + number(r) ELSE current[r]]
  BY DEF StartPatrol
<1>2. robotIds \in Seq(Robots) /\ Len(robotIds) \in Nat /\ route \in Seq(Nodes) /\ Len(route) \in Nat
  OBVIOUS
<1>3. served \in Nat /\ served <= Len(robotIds)
  <2>1. granted \subseteq 1 .. Len(route)
    BY <1>2 DEF Claim
  <2>2. IsFiniteSet(granted)
    <3>1. IsFiniteSet(1 .. Len(route))
      BY <1>2, FS_Interval
    <3> HIDE DEF granted
    <3> QED
      BY <2>1, <3>1, FS_Subset
  <2>3. Cardinality(granted) \in Nat
    BY <2>2, FS_CardinalityType
  <2> QED
    BY <1>2, <2>3
<1>4. \A k \in 1 .. served : /\ Share(granted, route, robotIds, k) \in SUBSET Nodes
                             /\ Share(granted, route, robotIds, k) \cap Held(ToSet(robotIds)) = {}
  <2>1. granted \subseteq DOMAIN route
    BY DEF Claim
  <2>2. \A i \in DOMAIN route : route[i] \in Nodes
    BY <1>2
  <2>3. \A i \in granted : route[i] \notin Held(ToSet(robotIds))
    BY DEF Claim
  <2> HIDE DEF granted
  <2> QED
    BY <2>1, <2>2, <2>3 DEF Share
<1> HIDE DEF served, granted
<1>5. \A k \in 1 .. served :
        /\ robotIds[k] \in Robots /\ robotIds[k] \in ToSet(robotIds) /\ new[k] \in MissionRows
        /\ new[k].type = "PATROL" /\ new[k].robot = robotIds[k] /\ new[k].status = "RUNNING"
        /\ new[k].nodes \cap Held(ToSet(robotIds)) = {}
  BY <1>2, <1>3, <1>4 DEF Patrol, MissionRows, Open, ToSet
<1>6. new \in Seq(MissionRows) /\ Len(new) = served /\ DOMAIN new = 1 .. served
  <2>1. new \in [1 .. served -> MissionRows]
    BY <1>5
  <2> HIDE DEF new
  <2> QED
    BY <1>3, <2>1, RowsFromFunction
<1>7. missions \in Seq(MissionRows) /\ Len(missions) \in Nat /\ DOMAIN missions = 1 .. Len(missions)
  BY DEF MissionPart
<1>8. \A k \in 1 .. served, m \in DOMAIN missions :
        ~ (missions[m].robot = new[k].robot /\ missions[m].status = "RUNNING")
  <2> SUFFICES ASSUME NEW k \in 1 .. served, NEW m \in DOMAIN missions,
                      missions[m].robot = new[k].robot, missions[m].status = "RUNNING"
               PROVE  FALSE
    OBVIOUS
  <2>1. missions[m].robot = robotIds[k] /\ Running(robotIds[k]) = {}
    BY <1>1, <1>5
  <2>2. missions[m].type \in {"PATROL", "ANOMALY"}
    <3>1. missions[m] \in MissionRows
      BY <1>7
    <3> QED
      BY <3>1 DEF MissionRows
  <2>3. m \in Running(robotIds[k])
    BY <2>1, <2>2 DEF Running, MissionsOf
  <2> QED
    BY <2>1, <2>3
<1> HIDE DEF new
<1>9. Alone(missions')
  BY <1>1, <1>5, <1>6, <1>7, <1>8, PatrolsAdded DEF MissionPart
<1>10. \A r \in started : number(r) \in 1 .. served /\ robotIds[number(r)] = r
  OBVIOUS
<1> HIDE DEF started, number
<1>11. /\ missions' \in Seq(MissionRows) /\ Len(missions') = Len(missions) + served
       /\ DOMAIN missions' = 1 .. Len(missions) + served
       /\ \A m \in DOMAIN missions : missions'[m] = missions[m]
       /\ \A k \in 1 .. served : missions'[Len(missions) + k] = new[k]
  <2>1. missions \in Seq(MissionRows) /\ new \in Seq(MissionRows) /\ missions' = missions \o new
    BY <1>1, <1>6, <1>7
  <2>2. /\ missions' \in Seq(MissionRows) /\ Len(missions') = Len(missions) + Len(new)
        /\ DOMAIN missions' = 1 .. Len(missions) + Len(new)
        /\ \A m \in DOMAIN missions : missions'[m] = missions[m]
        /\ \A k \in 1 .. Len(new) : missions'[Len(missions) + k] = new[k]
    BY <2>1, RowsAfter
  <2> QED
    BY <1>6, <2>2, Zenon
<1>12. \A r \in started : /\ Len(missions) + number(r) \in 1 .. MaxMissions
                          /\ Len(missions) + number(r) \in DOMAIN missions'
                          /\ missions'[Len(missions) + number(r)] = new[number(r)]
  BY <1>1, <1>3, <1>7, <1>10, <1>11
<1>13. current' \in [Robots -> (1 .. MaxMissions) \cup {None}]
  BY <1>1, <1>12 DEF MissionPart
<1>14. CurrentIsOpen'
  <2> SUFFICES ASSUME NEW r \in Robots, current'[r] # None
               PROVE  /\ current'[r] \in DOMAIN missions'
                      /\ missions'[current'[r]].robot = r /\ missions'[current'[r]].status \in Open
    BY DEF CurrentIsOpen
  <2>1. CASE r \in started
    <3>1. current'[r] = Len(missions) + number(r)
      BY <1>1, <2>1
    <3>2. new[number(r)].robot = r /\ new[number(r)].status \in Open
      BY <1>5, <1>10, <2>1 DEF Open
    <3> QED
      BY <1>12, <2>1, <3>1, <3>2
  <2>2. CASE r \notin started
    <3>1. current'[r] = current[r]
      BY <1>1, <2>2
    <3>2. current[r] \in DOMAIN missions /\ missions[current[r]].robot = r /\ missions[current[r]].status \in Open
      BY <3>1 DEF MissionPart, CurrentIsOpen
    <3> QED
      BY <1>3, <1>7, <1>11, <3>1, <3>2
  <2> QED
    BY <2>1, <2>2
<1>15. MissionPart'
  BY <1>1, <1>3, <1>7, <1>9, <1>11, <1>13, <1>14 DEF MissionPart
<1>16. \A n \in DOMAIN missions' : \/ n \in DOMAIN missions /\ missions'[n] = missions[n]
                                 \/ \E k \in 1 .. served : n = Len(missions) + k /\ missions'[n] = new[k]
  <2> SUFFICES ASSUME NEW n \in DOMAIN missions', n \notin DOMAIN missions
               PROVE  \E k \in 1 .. served : n = Len(missions) + k /\ missions'[n] = new[k]
    BY <1>11
  <2>1. n - Len(missions) \in 1 .. served /\ n = Len(missions) + (n - Len(missions))
    BY <1>3, <1>7, <1>11
  <2> QED
    BY <1>11, <2>1
<1>17. \A q \in Robots \ ToSet(robotIds) : RowsStayOf(q)
  <2> SUFFICES ASSUME NEW q \in Robots, q \notin ToSet(robotIds) PROVE RowsStayOf(q)
    OBVIOUS
  <2>1. \A k \in 1 .. served : new[k].robot # q
    BY <1>5
  <2>2. \A m \in DOMAIN missions : m \in DOMAIN missions' /\ missions'[m] = missions[m]
    BY <1>3, <1>7, <1>11
  <2> QED
    BY <1>16, <2>1, <2>2, Zenon DEF RowsStayOf
<1>18. ASSUME Len(robotIds) = 1, OneHolderPerNode PROVE OneHolderPerNode'
  <2> SUFFICES ASSUME NEW m \in DOMAIN missions', NEW n \in DOMAIN missions',
                      missions'[m].type = "PATROL", missions'[n].type = "PATROL",
                      missions'[m].status \in Open, missions'[n].status \in Open,
                      missions'[m].robot # missions'[n].robot
               PROVE  missions'[m].nodes \cap missions'[n].nodes = {}
    BY DEF OneHolderPerNode
  <2>1. ToSet(robotIds) = {robotIds[1]} /\ \A k \in 1 .. served : k = 1
    BY <1>2, <1>3, <1>18 DEF ToSet
  <2>2. ASSUME NEW i \in DOMAIN missions, NEW k \in 1 .. served, missions[i].status \in Open,
               missions[i].robot # new[k].robot
        PROVE  missions[i].nodes \cap new[k].nodes = {}
    <3>1. missions[i].robot \notin ToSet(robotIds)
      BY <1>5, <2>1, <2>2
    <3>2. missions[i].nodes \subseteq Held(ToSet(robotIds))
      BY <2>2, <3>1 DEF Held
    <3> QED
      BY <1>5, <3>2
  <2>3. CASE m \in DOMAIN missions /\ n \in DOMAIN missions
    BY <1>11, <1>18, <2>3 DEF OneHolderPerNode
  <2>4. CASE m \in DOMAIN missions /\ n \notin DOMAIN missions
    <3>1. PICK k \in 1 .. served : missions'[n] = new[k]
      BY <1>16, <2>4
    <3> QED
      BY <1>11, <2>2, <2>4, <3>1
  <2>5. CASE m \notin DOMAIN missions /\ n \in DOMAIN missions
    <3>1. PICK k \in 1 .. served : missions'[m] = new[k]
      BY <1>16, <2>5
    <3>2. missions[n].nodes \cap new[k].nodes = {} /\ missions'[n] = missions[n]
      BY <1>11, <2>2, <2>5, <3>1
    <3> QED
      BY <3>1, <3>2
  <2>6. CASE m \notin DOMAIN missions /\ n \notin DOMAIN missions
    <3>1. PICK j \in 1 .. served : missions'[m] = new[j]
      BY <1>16, <2>6
    <3>2. PICK k \in 1 .. served : missions'[n] = new[k]
      BY <1>16, <2>6
    <3> QED
      BY <2>1, <3>1, <3>2
  <2> QED
    BY <2>3, <2>4, <2>5, <2>6
<1> QED
  BY <1>15, <1>17, <1>18

\* resume_from_anomaly: the newest running anomaly is done, the newest pre-empted
\* patrol runs again.
LEMMA ResumeKeeps ==
  ASSUME MissionPart, NEW r \in Robots, AnomalyResume(r)
  PROVE  MissionPart' /\ NodesStay /\ \A q \in Robots \ {r} : RowsStayOf(q)
<1> USE MissionsAssumption
<1> DEFINE anomalies == MissionsOf(r, "ANOMALY", "RUNNING")
           patrols   == MissionsOf(r, "PATROL", "PREEMPTED")
           a == Latest(anomalies)
           p == Latest(patrols)
           row(m) == IF anomalies # {} /\ m = a THEN [missions[m] EXCEPT !.status = "DONE"]
                     ELSE IF patrols # {} /\ m = p THEN [missions[m] EXCEPT !.status = "RUNNING"]
                     ELSE missions[m]
<1>1. /\ missions' = [m \in DOMAIN missions |-> row(m)]
      /\ current' = [current EXCEPT ![r] = IF patrols # {} THEN p ELSE None]
  BY DEF AnomalyResume
<1>2. missions \in Seq(MissionRows) /\ Len(missions) \in Nat /\ DOMAIN missions = 1 .. Len(missions)
      /\ Alone(missions) /\ Len(missions) <= MaxMissions
  BY DEF MissionPart
<1>3. anomalies # {} => a \in DOMAIN missions /\ missions[a].type = "ANOMALY" /\ missions[a].robot = r
  <2>1. anomalies # {} => a \in anomalies
    BY LatestFacts DEF MissionsOf
  <2> QED
    BY <2>1 DEF MissionsOf
<1>4. patrols # {} => /\ p \in DOMAIN missions /\ missions[p].type = "PATROL" /\ missions[p].robot = r
                      /\ missions[p].status = "PREEMPTED"
  <2>1. patrols # {} => p \in patrols
    BY LatestFacts DEF MissionsOf
  <2> QED
    BY <2>1 DEF MissionsOf
<1> HIDE DEF anomalies, patrols, a, p
<1>5. \A m \in DOMAIN missions :
        /\ row(m) \in MissionRows
        /\ row(m).robot = missions[m].robot /\ row(m).type = missions[m].type /\ row(m).named = missions[m].named
        /\ row(m).nodes = missions[m].nodes /\ (missions[m].robot # r => row(m) = missions[m])
        /\ \/ row(m).status = missions[m].status
           \/ row(m).status = "DONE" /\ missions[m].robot = r /\ missions[m].type = "ANOMALY"
           \/ row(m).status = "RUNNING" /\ missions[m].type = "PATROL" /\ missions[m].status = "PREEMPTED"
        /\ patrols # {} /\ m = p => row(m).status = "RUNNING"
  <2> SUFFICES ASSUME NEW m \in DOMAIN missions
               PROVE  /\ row(m) \in MissionRows
                      /\ row(m).robot = missions[m].robot /\ row(m).type = missions[m].type
                      /\ row(m).named = missions[m].named
                      /\ row(m).nodes = missions[m].nodes /\ (missions[m].robot # r => row(m) = missions[m])
                      /\ \/ row(m).status = missions[m].status
                         \/ row(m).status = "DONE" /\ missions[m].robot = r /\ missions[m].type = "ANOMALY"
                         \/ row(m).status = "RUNNING" /\ missions[m].type = "PATROL" /\ missions[m].status = "PREEMPTED"
                      /\ patrols # {} /\ m = p => row(m).status = "RUNNING"
    OBVIOUS
  <2>1. missions[m] \in MissionRows
    BY <1>2
  <2>2. [missions[m] EXCEPT !.status = "DONE"] \in MissionRows /\ [missions[m] EXCEPT !.status = "RUNNING"] \in MissionRows
    BY <2>1 DEF MissionRows, Open
  <2>3. CASE anomalies # {} /\ m = a
    <3>1. row(m) = [missions[m] EXCEPT !.status = "DONE"] /\ ~ (patrols # {} /\ m = p)
      BY <1>3, <1>4, <2>3
    <3> HIDE DEF row
    <3> QED
      BY <1>3, <2>1, <2>2, <2>3, <3>1 DEF MissionRows
  <2>4. CASE ~ (anomalies # {} /\ m = a) /\ patrols # {} /\ m = p
    <3>1. row(m) = [missions[m] EXCEPT !.status = "RUNNING"]
      BY <2>4
    <3> HIDE DEF row
    <3> QED
      BY <1>4, <2>1, <2>2, <2>4, <3>1 DEF MissionRows
  <2>5. CASE ~ (anomalies # {} /\ m = a) /\ ~ (patrols # {} /\ m = p)
    BY <2>1, <2>5
  <2> QED
    BY <2>3, <2>4, <2>5
<1> HIDE DEF row
<1>6. missions' \in Seq(MissionRows) /\ DOMAIN missions' = DOMAIN missions /\ Len(missions') = Len(missions)
      /\ \A m \in DOMAIN missions : missions'[m] = row(m)
  BY <1>1, <1>2, <1>5
<1>7. Alone(missions')
  <2>1. \A m \in DOMAIN missions :
          /\ missions'[m].robot = missions[m].robot /\ missions'[m].type = missions[m].type
          /\ missions[m].named => missions'[m].named
          /\ missions[m].type = "ANOMALY" /\ missions'[m].status = "RUNNING"
                => missions[m].status = "RUNNING" \/ missions'[m].named
    BY <1>5, <1>6
  <2> QED
    BY <1>2, <1>6, <2>1, RowsChange
<1>8. patrols # {} => p \in 1 .. MaxMissions
  BY <1>2, <1>4
<1>9. current' \in [Robots -> (1 .. MaxMissions) \cup {None}]
  BY <1>1, <1>8 DEF MissionPart
<1>10. CurrentIsOpen'
  <2> SUFFICES ASSUME NEW q \in Robots, current'[q] # None
               PROVE  /\ current'[q] \in DOMAIN missions'
                      /\ missions'[current'[q]].robot = q /\ missions'[current'[q]].status \in Open
    BY DEF CurrentIsOpen
  <2>1. CASE q = r
    <3>1. patrols # {} /\ current'[r] = p
      BY <1>1, <2>1 DEF MissionPart
    <3> QED
      BY <1>4, <1>5, <1>6, <2>1, <3>1 DEF Open
  <2>2. CASE q # r
    <3>1. current'[q] = current[q]
      BY <1>1, <2>2 DEF MissionPart
    <3>2. current[q] \in DOMAIN missions /\ missions[current[q]].robot = q /\ missions[current[q]].status \in Open
      BY <3>1 DEF MissionPart, CurrentIsOpen
    <3> QED
      BY <1>5, <1>6, <2>2, <3>1, <3>2 DEF Open
  <2> QED
    BY <2>1, <2>2
<1>11. NodesStay /\ \A q \in Robots \ {r} : RowsStayOf(q)
  BY <1>5, <1>6 DEF NodesStay, RowsStayOf, Open
<1> QED
  BY <1>2, <1>6, <1>7, <1>9, <1>10, <1>11 DEF MissionPart

\* Nothing else changes the rows of missions.
LEMMA RowsStay == MissionPart /\ UNCHANGED <<missions, current>> => MissionPart'
BY DEF MissionPart, CurrentIsOpen

-----------------------------------------------------------------------------
(* Steps.                                                                   *)

\* pause, resume and cancel of any mission the caller names.
LEMMA PatrolCommands ==
  ASSUME MissionsInv, NEW m, PausePatrol(m) \/ ResumePatrol(m) \/ CancelPatrol(m)
  PROVE  MissionsInv' /\ NodesStay /\ \A q \in Robots \ {missions[m].robot} : RowsStayOf(q)
<1>1. m \in DOMAIN missions
  BY DEF PausePatrol, ResumePatrol, CancelPatrol, Transition
<1>2. missions \in Seq(MissionRows) /\ missions[m] \in MissionRows
  BY <1>1 DEF MissionsInv, MissionPart
<1>3. missions[m].robot \in Robots /\ missions[m].named \in BOOLEAN /\ MissionPart
  BY <1>2 DEF MissionRows, MissionsInv
<1>4. ASSUME NEW st \in Open \cup {"DONE", "CANCELED"}, NEW row, row = [missions[m] EXCEPT !.status = st]
      PROVE  /\ row \in MissionRows /\ row.robot = missions[m].robot /\ row.type = missions[m].type
             /\ row.named = missions[m].named /\ row.status = st /\ row.nodes = missions[m].nodes
  BY <1>2, <1>4 DEF MissionRows
<1>5. CASE PausePatrol(m)
  <2> DEFINE row == [missions[m] EXCEPT !.status = "PREEMPTED"]
  <2>0. missions[m].status \in Open
    BY <1>5 DEF PausePatrol, Transition, Open
  <2>1. missions' = [missions EXCEPT ![m] = row] /\ UNCHANGED current
    BY <1>5 DEF PausePatrol, Transition
  <2>2. /\ row \in MissionRows /\ row.robot = missions[m].robot /\ row.type = missions[m].type
        /\ row.named = missions[m].named /\ row.status = "PREEMPTED" /\ row.nodes = missions[m].nodes
    BY <1>4 DEF Open
  <2> HIDE DEF row
  <2>3. MissionPart' /\ NodesStay /\ \A q \in Robots \ {missions[m].robot} : RowsStayOf(q)
    BY <1>1, <1>3, <2>0, <2>1, <2>2, OneRowChanges DEF Open
  <2>4. RobotPart'
    BY <1>3, <1>5 DEF PausePatrol, Decided, MissionsInv, RobotPart, DecisionOK, Statuses
  <2> QED
    BY <2>3, <2>4 DEF MissionsInv
<1>6. CASE ResumePatrol(m)
  <2> DEFINE row == [missions[m] EXCEPT !.status = "RUNNING", !.named = TRUE]
  <2>0. missions[m].status \in Open
    BY <1>6 DEF ResumePatrol, Transition, Open
  <2>1. missions' = [missions EXCEPT ![m] = row] /\ UNCHANGED current
    BY <1>6 DEF ResumePatrol
  <2>2. /\ row \in MissionRows /\ row.robot = missions[m].robot /\ row.type = missions[m].type
        /\ row.named = TRUE /\ row.status = "RUNNING" /\ row.nodes = missions[m].nodes
    BY <1>2 DEF MissionRows, Open
  <2> HIDE DEF row
  <2>3. MissionPart' /\ NodesStay /\ \A q \in Robots \ {missions[m].robot} : RowsStayOf(q)
    BY <1>1, <1>3, <2>0, <2>1, <2>2, OneRowChanges DEF Open
  <2>4. RobotPart'
    BY <1>3, <1>6 DEF ResumePatrol, Decided, MissionsInv, RobotPart, DecisionOK, Statuses
  <2> QED
    BY <2>3, <2>4 DEF MissionsInv
<1>7. CASE CancelPatrol(m)
  <2> DEFINE row == [missions[m] EXCEPT !.status = "CANCELED"]
  <2>0. missions[m].status \in Open
    BY <1>7 DEF CancelPatrol, Transition, Open
  <2>1. missions' = [missions EXCEPT ![m] = row] /\ current' = [current EXCEPT ![missions[m].robot] = None]
    BY <1>7 DEF CancelPatrol, Transition
  <2>2. /\ row \in MissionRows /\ row.robot = missions[m].robot /\ row.type = missions[m].type
        /\ row.named = missions[m].named /\ row.status = "CANCELED" /\ row.nodes = missions[m].nodes
    BY <1>4
  <2> HIDE DEF row
  <2>3. MissionPart' /\ NodesStay /\ \A q \in Robots \ {missions[m].robot} : RowsStayOf(q)
    BY <1>1, <1>3, <2>0, <2>1, <2>2, OneRowChanges
  <2>4. RobotPart'
    BY <1>3, <1>7 DEF CancelPatrol, Decided, MissionsInv, RobotPart, DecisionOK, Statuses
  <2> QED
    BY <2>3, <2>4 DEF MissionsInv
<1> QED
  BY <1>5, <1>6, <1>7

\* Starts and answers to an event.
LEMMA Assignments ==
  ASSUME MissionsInv,
         \/ \E robotIds \in StartLists, route \in Routes : StartPatrol(robotIds, route)
         \/ \E e \in Events, preempt \in BOOLEAN :
               Dispatch(e, preempt) \/ \E r \in Robots : DispatchNamed(e, r, preempt)
         \/ \E r \in Robots : AnomalyResume(r)
         \/ AutoDispatch \/ AutoHold
  PROVE  MissionsInv'
<1>1. ASSUME NEW robotIds \in StartLists, NEW route \in Routes, StartPatrol(robotIds, route)
      PROVE  MissionsInv'
  <2>1. MissionPart'
    BY <1>1, StartKeeps DEF MissionsInv
  <2>2. RobotPart'
    BY <1>1 DEF StartPatrol, MissionsInv, RobotPart, DecisionOK, Statuses
  <2> QED
    BY <2>1, <2>2 DEF MissionsInv
<1>2. ASSUME NEW e \in Events, NEW r \in Robots, NEW preempt \in BOOLEAN,
             NEW st \in Statuses, NEW op \in BOOLEAN,
             AssignAnomaly(e, r, preempt, st, op)
      PROVE  status' \in [Robots -> Statuses] /\ events' \in [Events -> EventStatuses]
  BY <1>2 DEF AssignAnomaly, MissionsInv, RobotPart, EventStatuses
<1>3. ASSUME NEW e \in Events, NEW preempt \in BOOLEAN, Dispatch(e, preempt) PROVE MissionsInv'
  <2>1. CASE \E r \in Candidates : AssignAnomaly(e, r, preempt, "DISPATCHING", FALSE) /\ UNCHANGED held
    <3>1. PICK r \in Candidates : AssignAnomaly(e, r, preempt, "DISPATCHING", FALSE) /\ UNCHANGED held
      BY <2>1
    <3>2. r \in Robots /\ ~ HasActiveAnomaly(r)
      BY DEF Candidates
    <3>3. MissionPart'
      BY <3>1, <3>2, AssignKeeps DEF MissionsInv
    <3>4. RobotPart'
      BY <1>2, <1>3, <3>1, <3>2, ZenonT(40) DEF Dispatch, MissionsInv, RobotPart, DecisionOK, Statuses
    <3> QED
      BY <3>3, <3>4 DEF MissionsInv
  <2>2. CASE events' = [events EXCEPT ![e] = "OPEN"] /\ UNCHANGED <<status, current, missions, held>>
    BY <1>3, <2>2, RowsStay DEF Dispatch, MissionsInv, RobotPart, DecisionOK, EventStatuses
  <2> QED
    BY <1>3, <2>1, <2>2 DEF Dispatch
<1>4. ASSUME NEW e \in Events, NEW preempt \in BOOLEAN, NEW r \in Robots, DispatchNamed(e, r, preempt)
      PROVE  MissionsInv'
  <2>1. AssignAnomaly(e, r, preempt, "DISPATCHING", TRUE)
    BY <1>4 DEF DispatchNamed
  <2>2. MissionPart'
    BY <2>1, AssignKeeps DEF MissionsInv
  <2>3. RobotPart'
    BY <1>2, <1>4, <2>1 DEF DispatchNamed, Decided, MissionsInv, RobotPart, DecisionOK, Statuses
  <2> QED
    BY <2>2, <2>3 DEF MissionsInv
<1>5. ASSUME NEW r \in Robots, AnomalyResume(r) PROVE MissionsInv'
  <2>1. MissionPart'
    BY <1>5, ResumeKeeps DEF MissionsInv
  <2>2. events' \in [Events -> EventStatuses]
    BY <1>5 DEF AnomalyResume, MissionsInv, RobotPart, EventStatuses
  <2>3. RobotPart'
    BY <1>5, <2>2 DEF AnomalyResume, Decided, MissionsInv, RobotPart, DecisionOK, Statuses
  <2> QED
    BY <2>1, <2>3 DEF MissionsInv
<1>6. CASE AutoDispatch
  <2>1. decision.event \in Events /\ decision' = None
    BY <1>6 DEF AutoDispatch, MissionsInv, RobotPart, DecisionOK
  <2>2. DecisionOK'
    BY <2>1 DEF DecisionOK, Decisions
  <2>3. CASE \E r \in Candidates : AssignAnomaly(decision.event, r, TRUE, "DISPATCHING", FALSE)
    <3>1. PICK r \in Candidates : AssignAnomaly(decision.event, r, TRUE, "DISPATCHING", FALSE)
      BY <2>3
    <3>2. r \in Robots /\ ~ HasActiveAnomaly(r)
      BY DEF Candidates
    <3>3. MissionPart'
      BY <2>1, <3>1, <3>2, AssignKeeps DEF MissionsInv
    <3>4. RobotPart'
      BY <1>2, <1>6, <2>1, <2>2, <3>1, <3>2 DEF AutoDispatch, MissionsInv, RobotPart, Statuses
    <3> QED
      BY <3>3, <3>4 DEF MissionsInv
  <2>4. CASE UNCHANGED <<status, current, missions, events>>
    BY <1>6, <2>2, <2>4, RowsStay DEF AutoDispatch, MissionsInv, RobotPart
  <2> QED
    BY <1>6, <2>3, <2>4 DEF AutoDispatch
<1>7. CASE AutoHold
  <2>1. decision.event \in Events /\ decision.robot \in Robots /\ decision' = None
    BY <1>7 DEF AutoHold, MissionsInv, RobotPart, DecisionOK
  <2>2. DecisionOK'
    BY <2>1 DEF DecisionOK, Decisions
  <2>3. CASE UNCHANGED <<status, current, missions, events, held>>
    BY <1>7, <2>2, <2>3, RowsStay DEF AutoHold, MissionsInv, RobotPart
  <2>4. CASE /\ ~ HasActiveAnomaly(decision.robot)
             /\ AssignAnomaly(decision.event, decision.robot, TRUE, "INSPECTING", FALSE)
             /\ held' = [held EXCEPT ![decision.robot] = TRUE]
    <3>1. MissionPart'
      BY <2>1, <2>4, AssignKeeps DEF MissionsInv
    <3>2. RobotPart'
      BY <1>2, <1>7, <2>1, <2>2, <2>4 DEF AutoHold, MissionsInv, RobotPart, Statuses
    <3> QED
      BY <3>1, <3>2 DEF MissionsInv
  <2> QED
    BY <1>7, <2>3, <2>4 DEF AutoHold
<1> QED
  BY <1>1, <1>3, <1>4, <1>5, <1>6, <1>7

\* Whatever else happens to a robot or an event leaves the missions alone.
LEMMA OtherSteps ==
  ASSUME MissionsInv,
         \/ \E e \in Events : ResolveEvent(e) \/ VisionSeesFromCctv(e) \/ \E r \in Reporting : VisionSeesFromRobot(e, r)
         \/ \E r \in Robots : Dock(r) \/ EmergencyStop(r) \/ CooldownEnds(r)
         \/ \E r \in Robots, mode \in {"RETURN_HOME", "CHECKPOINT"} : ResumeRobot(r, mode)
         \/ EmergencyStopAll
         \/ \E r \in Reporting : GoesSilent(r) \/ Report(r)
         \/ Watchdog
  PROVE  MissionsInv'
<1> USE MissionsAssumption
<1>0. RobotPart /\ MissionPart
  BY DEF MissionsInv
<1>1. UNCHANGED <<missions, current>>
  BY DEF ResolveEvent, VisionSeesFromCctv, VisionSeesFromRobot, Dock, EmergencyStop, StopThese, CooldownEnds,
         ResumeRobot, EmergencyStopAll, GoesSilent, Report, Telemetry, Watchdog
<1>2. ASSUME NEW e \in Events, ResolveEvent(e) PROVE RobotPart'
  BY <1>0, <1>2 DEF ResolveEvent, RobotPart, DecisionOK, EventStatuses
<1>3. ASSUME NEW e \in Events, VisionSeesFromCctv(e) PROVE RobotPart'
  <2>1. DecisionOK'
    BY <1>3 DEF VisionSeesFromCctv, DecisionOK, Decisions
  <2> QED
    BY <1>0, <1>3, <2>1 DEF VisionSeesFromCctv, RobotPart, EventStatuses
<1>4. ASSUME NEW e \in Events, NEW r \in Reporting, VisionSeesFromRobot(e, r) PROVE RobotPart'
  <2>1. DecisionOK'
    BY <1>4 DEF VisionSeesFromRobot, DecisionOK, Decisions
  <2> QED
    BY <1>0, <1>4, <2>1 DEF VisionSeesFromRobot, RobotPart, EventStatuses
<1>5. ASSUME NEW r \in Robots, Dock(r) \/ CooldownEnds(r) PROVE RobotPart'
  <2>1. CASE Dock(r)
    <3>1. DecisionOK'
      BY <1>0, <2>1 DEF Dock, RobotPart, DecisionOK
    <3> QED
      BY <1>0, <2>1, <3>1 DEF Dock, Decided, RobotPart, Statuses
  <2>2. CASE CooldownEnds(r)
    BY <1>0, <2>2 DEF CooldownEnds, RobotPart, DecisionOK
  <2> QED
    BY <1>5, <2>1, <2>2
<1>6. ASSUME NEW rs \in SUBSET Robots, StopThese(rs) PROVE RobotPart'
  BY <1>0, <1>6 DEF StopThese, Decided, RobotPart, DecisionOK, Statuses
<1>7. ASSUME NEW r \in Robots, NEW mode, ResumeRobot(r, mode) PROVE RobotPart'
  BY <1>0, <1>7 DEF ResumeRobot, RobotPart, DecisionOK, Statuses
<1>8. ASSUME NEW r \in Reporting, GoesSilent(r) PROVE RobotPart'
  BY <1>0, <1>8 DEF GoesSilent, RobotPart, DecisionOK
<1>9. ASSUME NEW r \in Reporting, NEW kind, NEW reported \in Statuses, Telemetry(r, kind, reported) PROVE RobotPart'
  BY <1>0, <1>9 DEF Telemetry, Decided, RobotPart, DecisionOK
<1>10. ASSUME Watchdog PROVE RobotPart'
  BY <1>0, <1>10 DEF Watchdog, Decided, RobotPart, DecisionOK, Statuses
<1>11. ASSUME NEW r \in Reporting, Report(r) PROVE RobotPart'
  BY <1>9, <1>11 DEF Report, Statuses
<1>12. RobotPart'
  BY <1>2, <1>3, <1>4, <1>5, <1>6, <1>7, <1>8, <1>10, <1>11 DEF EmergencyStop, EmergencyStopAll
<1> QED
  BY <1>0, <1>1, <1>12, RowsStay DEF MissionsInv

LEMMA MissionsInit == Init => MissionsInv
BY MissionsAssumption DEF Init, MissionsInv, MissionPart, RobotPart, CurrentIsOpen, Alone, DecisionOK,
                         Decisions, Statuses, EventStatuses

LEMMA MissionsNext == MissionsInv /\ [Next]_vars => MissionsInv'
<1> SUFFICES ASSUME MissionsInv, [Next]_vars PROVE MissionsInv'
  OBVIOUS
<1>1. CASE Command
  BY <1>1, PatrolCommands, Assignments, OtherSteps DEF Command
<1>2. CASE Vision \/ Clock \/ Watchdog \/ \E r \in Reporting : Report(r)
  BY <1>2, Assignments, OtherSteps DEF Vision, Clock
<1>3. CASE UNCHANGED vars
  BY <1>3, RowsStay DEF vars, MissionsInv, RobotPart, DecisionOK
<1> QED
  BY <1>1, <1>2, <1>3 DEF Next

-----------------------------------------------------------------------------
(* Holds and nodes.                                                         *)

\* A robot whose status and rows are left alone stays in its hold.
LEMMA HoldStays ==
  ASSUME MissionPart, NEW r \in Robots, InAnomalyHold(r), status'[r] = status[r], RowsStayOf(r)
  PROVE  InAnomalyHold(r)'
<1> DEFINE S == Running(r)
<1>1. S' = S
  BY DEF Running, MissionsOf, RowsStayOf
<1>2. S \in SUBSET DOMAIN missions /\ S # {} /\ \A m \in S : missions[m].robot = r
  BY DEF Running, MissionsOf, InAnomalyHold, HasActiveAnomaly
<1>3. status[r] = "INSPECTING" /\ missions[Latest(S)].type = "ANOMALY"
  BY DEF InAnomalyHold, HasActiveAnomaly
<1>4. Latest(S) \in S
  <2> HIDE DEF S
  <2> QED
    BY <1>2, LatestFacts
<1>5. missions'[Latest(S)] = missions[Latest(S)]
  BY <1>2, <1>4 DEF RowsStayOf
<1> HIDE DEF S
<1>6. Latest(S') = Latest(S)
  BY <1>1
<1>7. S' # {} /\ missions'[Latest(S')].type = "ANOMALY"
  BY <1>1, <1>2, <1>3, <1>5, <1>6
<1> QED
  BY <1>3, <1>7 DEF S, InAnomalyHold, HasActiveAnomaly

\* Steps that leave the rows of missions alone: a hold ends with the decision about it.
LEMMA HoldsWithoutRows ==
  ASSUME MissionsInv, HeldCanBeReleased, UNCHANGED missions, NEW rs \in SUBSET Robots,
         \A r \in Robots : held'[r] => held[r] /\ r \notin rs,
         \A r \in Robots \ rs : InAnomalyHold(r) => status'[r] = status[r]
  PROVE  HeldCanBeReleased'
<1> SUFFICES ASSUME NEW r \in Robots, held'[r] PROVE InAnomalyHold(r)'
  BY DEF HeldCanBeReleased
<1>1. InAnomalyHold(r) /\ status'[r] = status[r]
  BY DEF HeldCanBeReleased
<1>2. RowsStayOf(r) /\ MissionPart
  BY DEF RowsStayOf, MissionsInv
<1> QED
  BY <1>1, <1>2, HoldStays

\* Steps about one robot, or some: the others stay in their holds.
LEMMA HoldsOfOthers ==
  ASSUME MissionsInv, HeldCanBeReleased, NEW rs \in SUBSET Robots,
         \A r \in Robots : held'[r] /\ r \notin rs => held[r] /\ status'[r] = status[r] /\ RowsStayOf(r),
         \A r \in rs : held'[r] => InAnomalyHold(r)'
  PROVE  HeldCanBeReleased'
<1> SUFFICES ASSUME NEW r \in Robots, held'[r], r \notin rs PROVE InAnomalyHold(r)'
  BY DEF HeldCanBeReleased
<1>1. InAnomalyHold(r) /\ MissionPart
  BY DEF HeldCanBeReleased, MissionsInv
<1> QED
  BY <1>1, HoldStays

LEMMA HoldsAllStay ==
  ASSUME MissionsInv, HeldCanBeReleased,
         \A r \in Robots : held'[r] => held[r] /\ status'[r] = status[r] /\ RowsStayOf(r)
  PROVE  HeldCanBeReleased'
<1>1. {} \in SUBSET Robots
  OBVIOUS
<1> QED
  BY <1>1, HoldsOfOthers

LEMMA HoldsUntouched ==
  ASSUME MissionsInv, HeldCanBeReleased, UNCHANGED <<missions, status, held>>
  PROVE  HeldCanBeReleased'
BY HoldsAllStay DEF RowsStayOf

\* Commands and answers that change rows of missions.
LEMMA HoldsWithRows ==
  ASSUME MissionsInv, HeldCanBeReleased,
         \/ \E robotIds \in StartLists, route \in Routes : StartPatrol(robotIds, route)
         \/ \E m \in DOMAIN missions : PausePatrol(m) \/ ResumePatrol(m) \/ CancelPatrol(m)
         \/ \E e \in Events, preempt \in BOOLEAN :
               Dispatch(e, preempt) \/ \E r \in Robots : DispatchNamed(e, r, preempt)
         \/ \E r \in Robots : AnomalyResume(r)
         \/ AutoDispatch \/ AutoHold
  PROVE  HeldCanBeReleased'
<1> USE MissionsAssumption
<1>0. MissionPart /\ RobotPart /\ status \in [Robots -> Statuses] /\ held \in [Robots -> BOOLEAN]
  BY DEF MissionsInv, RobotPart
<1>1. ASSUME NEW robotIds \in StartLists, NEW route \in Routes, StartPatrol(robotIds, route)
      PROVE  HeldCanBeReleased'
  <2>1. \A r \in ToSet(robotIds) : Running(r) = {}
    BY <1>1 DEF StartPatrol
  <2>2. \A r \in Robots : held[r] => r \notin ToSet(robotIds)
    BY <2>1 DEF HeldCanBeReleased, InAnomalyHold, HasActiveAnomaly
  <2>3. ASSUME NEW r \in Robots, held'[r] PROVE held[r] /\ status'[r] = status[r] /\ RowsStayOf(r)
    <3> DEFINE granted == Claim(robotIds, route)
               served  == IF Cardinality(granted) < Len(robotIds) THEN Cardinality(granted) ELSE Len(robotIds)
               started == {robotIds[k] : k \in 1 .. served}
    <3>1. held[r] /\ r \notin ToSet(robotIds)
      BY <1>1, <2>2, <2>3 DEF StartPatrol
    <3>2. status'[r] = IF r \in started THEN "FREE" ELSE status[r]
      BY <1>1 DEF StartPatrol
    <3>3. served \in Nat /\ served <= Len(robotIds) /\ robotIds \in Seq(Robots)
      <4>1. route \in Seq(Nodes) /\ granted \subseteq 1 .. Len(route) /\ Len(route) \in Nat
        BY DEF Claim
      <4>2. IsFiniteSet(1 .. Len(route))
        BY <4>1, FS_Interval
      <4> HIDE DEF granted
      <4>3. IsFiniteSet(granted)
        BY <4>1, <4>2, FS_Subset
      <4>4. Cardinality(granted) \in Nat
        BY <4>3, FS_CardinalityType
      <4>5. robotIds \in Seq(Robots)
        OBVIOUS
      <4> QED
        BY <4>4, <4>5
    <3> HIDE DEF served
    <3>4. started \subseteq ToSet(robotIds)
      BY <3>3 DEF ToSet
    <3>5. RowsStayOf(r)
      BY <1>0, <1>1, <3>1, StartKeeps
    <3> QED
      BY <3>1, <3>2, <3>4, <3>5
  <2> QED
    BY <2>3, HoldsAllStay
<1>2. ASSUME NEW m \in DOMAIN missions, PausePatrol(m) \/ ResumePatrol(m) \/ CancelPatrol(m)
      PROVE  HeldCanBeReleased'
  <2> DEFINE q == missions[m].robot
  <2>1. q \in Robots
    <3>1. missions[m] \in MissionRows
      BY <1>0 DEF MissionPart
    <3> QED
      BY <3>1 DEF MissionRows
  <2>2. status' = [status EXCEPT ![q] = "FREE"] /\ held' = [r \in Robots |-> held[r] /\ r \notin {q}]
    BY <1>2 DEF PausePatrol, ResumePatrol, CancelPatrol, Decided
  <2>3. \A r \in Robots \ {q} : RowsStayOf(r)
    BY <1>2, PatrolCommands
  <2> HIDE DEF q
  <2>4. \A r \in Robots : held'[r] => r # q /\ held[r] /\ status'[r] = status[r] /\ RowsStayOf(r)
    BY <1>0, <2>2, <2>3
  <2> QED
    BY <2>4, HoldsAllStay
<1>3. ASSUME NEW e \in Events, NEW r \in Robots, NEW preempt \in BOOLEAN, NEW st, NEW op \in BOOLEAN,
             AssignAnomaly(e, r, preempt, st, op), op \/ ~ HasActiveAnomaly(r)
      PROVE  /\ \A q \in Robots \ {r} : status'[q] = status[q] /\ RowsStayOf(q)
             /\ st = "INSPECTING" => InAnomalyHold(r)'
  <2>1. HasActiveAnomaly(r)' /\ \A q \in Robots \ {r} : RowsStayOf(q)
    BY <1>0, <1>3, AssignKeeps
  <2>2. status' = [status EXCEPT ![r] = st]
    BY <1>3 DEF AssignAnomaly
  <2> QED
    BY <1>0, <2>1, <2>2 DEF InAnomalyHold
\* A robot the service selects is not in a hold.
<1>4. ASSUME NEW e \in Events, NEW preempt \in BOOLEAN, NEW r \in Candidates,
             AssignAnomaly(e, r, preempt, "DISPATCHING", FALSE), UNCHANGED held
      PROVE  HeldCanBeReleased'
  <2>1. r \in Robots /\ ~ HasActiveAnomaly(r)
    BY DEF Candidates
  <2>2. ~ held[r]
    BY <2>1 DEF HeldCanBeReleased, InAnomalyHold
  <2>3. \A q \in Robots \ {r} : status'[q] = status[q] /\ RowsStayOf(q)
    BY <1>3, <1>4, <2>1
  <2>4. \A q \in Robots : held'[q] => held[q] /\ status'[q] = status[q] /\ RowsStayOf(q)
    BY <1>4, <2>2, <2>3
  <2> QED
    BY <2>4, HoldsAllStay
<1>5. ASSUME NEW e \in Events, NEW preempt \in BOOLEAN, Dispatch(e, preempt) PROVE HeldCanBeReleased'
  <2>1. CASE UNCHANGED <<status, current, missions, held>>
    BY <2>1, HoldsUntouched
  <2> QED
    BY <1>4, <1>5, <2>1 DEF Dispatch
<1>6. ASSUME NEW e \in Events, NEW preempt \in BOOLEAN, NEW r \in Robots, DispatchNamed(e, r, preempt)
      PROVE  HeldCanBeReleased'
  <2>1. AssignAnomaly(e, r, preempt, "DISPATCHING", TRUE) /\ held' = [q \in Robots |-> held[q] /\ q \notin {r}]
    BY <1>6 DEF DispatchNamed, Decided
  <2>2. \A q \in Robots \ {r} : status'[q] = status[q] /\ RowsStayOf(q)
    BY <1>3, <2>1
  <2>3. \A q \in Robots : held'[q] => held[q] /\ status'[q] = status[q] /\ RowsStayOf(q)
    BY <1>0, <2>1, <2>2
  <2> QED
    BY <2>3, HoldsAllStay
<1>7. ASSUME NEW r \in Robots, AnomalyResume(r) PROVE HeldCanBeReleased'
  <2>1. status' = [status EXCEPT ![r] = "FREE"] /\ held' = [q \in Robots |-> held[q] /\ q \notin {r}]
    BY <1>7 DEF AnomalyResume, Decided
  <2>2. \A q \in Robots \ {r} : RowsStayOf(q)
    BY <1>0, <1>7, ResumeKeeps
  <2>3. \A q \in Robots : held'[q] => held[q] /\ status'[q] = status[q] /\ RowsStayOf(q)
    BY <1>0, <2>1, <2>2
  <2> QED
    BY <2>3, HoldsAllStay
<1>8. CASE AutoDispatch
  <2>1. decision.event \in Events
    BY <1>0, <1>8 DEF AutoDispatch, RobotPart, DecisionOK
  <2>2. CASE UNCHANGED <<status, current, missions, events>>
    BY <1>8, <2>2, HoldsUntouched DEF AutoDispatch
  <2> QED
    BY <1>4, <1>8, <2>1, <2>2 DEF AutoDispatch
<1>9. CASE AutoHold
  <2> PICK r : r = decision.robot
    OBVIOUS
  <2>1. decision.event \in Events /\ r \in Robots
    BY <1>0, <1>9 DEF AutoHold, RobotPart, DecisionOK
  <2>2. CASE UNCHANGED <<status, current, missions, events, held>>
    BY <2>2, HoldsUntouched
  <2>3. CASE /\ ~ HasActiveAnomaly(r) /\ AssignAnomaly(decision.event, r, TRUE, "INSPECTING", FALSE)
             /\ held' = [held EXCEPT ![r] = TRUE]
    <3>1. /\ \A q \in Robots \ {r} : status'[q] = status[q] /\ RowsStayOf(q)
          /\ InAnomalyHold(r)'
      BY <1>3, <2>1, <2>3
    <3>2. \A q \in Robots \ {r} : held'[q] => held[q]
      BY <1>0, <2>3
    <3>3. {r} \in SUBSET Robots
      BY <2>1
    <3> QED
      BY <3>1, <3>2, <3>3, HoldsOfOthers
  <2> QED
    BY <1>9, <2>2, <2>3 DEF AutoHold
<1> QED
  BY <1>1, <1>2, <1>5, <1>6, <1>7, <1>8, <1>9

\* Whatever else happens to a robot or an event.
LEMMA HoldsOtherwise ==
  ASSUME MissionsInv, HeldCanBeReleased,
         \/ \E e \in Events : ResolveEvent(e) \/ VisionSeesFromCctv(e) \/ \E r \in Reporting : VisionSeesFromRobot(e, r)
         \/ \E r \in Robots : Dock(r) \/ EmergencyStop(r) \/ CooldownEnds(r)
         \/ \E r \in Robots, mode \in {"RETURN_HOME", "CHECKPOINT"} : ResumeRobot(r, mode)
         \/ EmergencyStopAll
         \/ \E r \in Reporting : GoesSilent(r) \/ Report(r)
         \/ Watchdog
  PROVE  HeldCanBeReleased'
<1> USE MissionsAssumption
<1>0. status \in [Robots -> Statuses] /\ held \in [Robots -> BOOLEAN]
  BY DEF MissionsInv, RobotPart
<1>1. ASSUME UNCHANGED <<missions, status, held>> PROVE HeldCanBeReleased'
  BY <1>1, HoldsWithoutRows
<1>2. ASSUME NEW r \in Robots, Dock(r) PROVE HeldCanBeReleased'
  <2>1. UNCHANGED missions /\ {r} \in SUBSET Robots
    BY <1>2 DEF Dock
  <2>2. \A q \in Robots : /\ held'[q] => held[q] /\ q \notin {r}
                          /\ q \notin {r} => status'[q] = status[q]
    BY <1>0, <1>2 DEF Dock, Decided
  <2> QED
    BY <2>1, <2>2, HoldsWithoutRows
<1>3. ASSUME NEW rs \in SUBSET Robots, StopThese(rs) PROVE HeldCanBeReleased'
  <2>1. UNCHANGED missions
    BY <1>3 DEF StopThese
  <2>2. \A q \in Robots : /\ held'[q] => held[q] /\ q \notin rs
                          /\ q \notin rs => status'[q] = status[q]
    BY <1>0, <1>3 DEF StopThese, Decided
  <2> QED
    BY <2>1, <2>2, HoldsWithoutRows
<1>4. ASSUME NEW r \in Robots, NEW mode, ResumeRobot(r, mode) PROVE HeldCanBeReleased'
  <2>1. UNCHANGED missions /\ UNCHANGED held
    BY <1>4 DEF ResumeRobot
  <2>2. \A q \in Robots : InAnomalyHold(q) => status'[q] = status[q]
    BY <1>0, <1>4 DEF ResumeRobot, InAnomalyHold
  <2> QED
    BY <2>1, <2>2, HoldsWithoutRows
<1>5. ASSUME NEW r \in Reporting, NEW reported,
             Telemetry(r, "pose", reported) \/ Telemetry(r, "patrol_like", reported)
      PROVE  HeldCanBeReleased'
  <2>1. UNCHANGED missions /\ \A q \in Robots : held'[q] => held[q]
    BY <1>0, <1>5 DEF Telemetry, Decided
  <2>2. \A q \in Robots : InAnomalyHold(q) => status'[q] = status[q]
    BY <1>0, <1>5 DEF Telemetry, LeftOut
  <2> QED
    BY <2>1, <2>2, HoldsWithoutRows
<1>6. ASSUME NEW r \in Reporting, NEW reported, Telemetry(r, "other", reported) PROVE HeldCanBeReleased'
  <2>1. UNCHANGED missions /\ {r} \in SUBSET Robots
    BY <1>6 DEF Telemetry
  <2>2. \A q \in Robots : /\ held'[q] => held[q] /\ q \notin {r}
                          /\ q \notin {r} => status'[q] = status[q]
    BY <1>0, <1>6 DEF Telemetry, Decided
  <2> QED
    BY <2>1, <2>2, HoldsWithoutRows
<1>7. CASE Watchdog
  <2>1. UNCHANGED missions /\ Stale \in SUBSET Robots
    BY <1>7 DEF Watchdog, Stale
  <2>2. \A q \in Robots : /\ held'[q] => held[q] /\ q \notin Stale
                          /\ q \notin Stale => status'[q] = status[q]
    BY <1>0, <1>7 DEF Watchdog, Decided
  <2> QED
    BY <2>1, <2>2, HoldsWithoutRows
<1>8. ASSUME NEW r \in Reporting, Report(r) PROVE HeldCanBeReleased'
  BY <1>5, <1>6, <1>8 DEF Report
<1>9. ASSUME \/ \E e \in Events : \/ ResolveEvent(e) \/ VisionSeesFromCctv(e)
                               \/ \E r \in Reporting : VisionSeesFromRobot(e, r)
             \/ \E r \in Robots : CooldownEnds(r)
             \/ \E r \in Reporting : GoesSilent(r)
      PROVE  HeldCanBeReleased'
  BY <1>1, <1>9 DEF ResolveEvent, VisionSeesFromCctv, VisionSeesFromRobot, CooldownEnds, GoesSilent
<1> QED
  BY <1>2, <1>3, <1>4, <1>7, <1>8, <1>9 DEF EmergencyStop, EmergencyStopAll

LEMMA HoldsNext == MissionsInv /\ HeldCanBeReleased /\ [Next]_vars => HeldCanBeReleased'
<1> SUFFICES ASSUME MissionsInv, HeldCanBeReleased, [Next]_vars PROVE HeldCanBeReleased'
  OBVIOUS
<1>1. CASE Command
  BY <1>1, HoldsWithRows, HoldsOtherwise DEF Command
<1>2. CASE Vision \/ Clock \/ Watchdog \/ \E r \in Reporting : Report(r)
  BY <1>2, HoldsWithRows, HoldsOtherwise DEF Vision, Clock
<1>3. CASE UNCHANGED vars
  BY <1>3, HoldsUntouched DEF vars
<1> QED
  BY <1>1, <1>2, <1>3 DEF Next

\* A start names one robot.
SingleStarts == \A robotIds \in StartLists : Len(robotIds) = 1

\* Whoever takes no new nodes shares none.
LEMMA HoldersStay == OneHolderPerNode /\ NodesStay => OneHolderPerNode'
BY DEF OneHolderPerNode, NodesStay

LEMMA HoldersNext ==
  ASSUME SingleStarts PROVE MissionsInv /\ OneHolderPerNode /\ [Next]_vars => OneHolderPerNode'
<1> SUFFICES ASSUME MissionsInv, OneHolderPerNode, [Next]_vars PROVE OneHolderPerNode'
  OBVIOUS
<1>0. MissionPart /\ DecisionOK
  BY DEF MissionsInv, RobotPart
<1>1. ASSUME NEW robotIds \in StartLists, NEW route \in Routes, StartPatrol(robotIds, route)
      PROVE  OneHolderPerNode'
  BY <1>0, <1>1, StartKeeps DEF SingleStarts
<1>2. ASSUME UNCHANGED missions PROVE NodesStay
  BY <1>2 DEF NodesStay
<1>3. ASSUME NEW m, PausePatrol(m) \/ ResumePatrol(m) \/ CancelPatrol(m) PROVE NodesStay
  BY <1>3, PatrolCommands
<1>4. ASSUME NEW e \in Events, NEW preempt \in BOOLEAN,
             Dispatch(e, preempt) \/ \E r \in Robots : DispatchNamed(e, r, preempt)
      PROVE  NodesStay
  BY <1>0, <1>2, <1>4, AssignKeeps DEF Dispatch, DispatchNamed, Candidates
<1>5. ASSUME NEW r \in Robots, AnomalyResume(r) PROVE NodesStay
  BY <1>0, <1>5, ResumeKeeps
<1>6. CASE AutoDispatch
  <2>1. decision.event \in Events
    BY <1>0, <1>6 DEF AutoDispatch, DecisionOK
  <2>2. NodesStay
    BY <1>0, <1>2, <1>6, <2>1, AssignKeeps DEF AutoDispatch, Candidates
  <2> QED
    BY <2>2, HoldersStay
<1>7. CASE AutoHold
  <2>1. decision.event \in Events /\ decision.robot \in Robots
    BY <1>0, <1>7 DEF AutoHold, DecisionOK
  <2>2. \/ UNCHANGED missions
        \/ /\ AssignAnomaly(decision.event, decision.robot, TRUE, "INSPECTING", FALSE)
           /\ ~ HasActiveAnomaly(decision.robot)
    BY <1>7 DEF AutoHold
  <2>3. NodesStay
    BY <1>0, <1>2, <2>1, <2>2, AssignKeeps
  <2> QED
    BY <2>3, HoldersStay
<1>8. CASE Command
  <2>1. CASE UNCHANGED missions
    BY <1>2, <2>1, HoldersStay
  <2>2. ASSUME NEW r \in Robots, Dock(r) \/ EmergencyStop(r) PROVE UNCHANGED missions
    BY <2>2 DEF Dock, EmergencyStop, StopThese
  <2>3. ASSUME EmergencyStopAll \/ \E e \in Events : ResolveEvent(e) PROVE UNCHANGED missions
    BY <2>3 DEF EmergencyStopAll, StopThese, ResolveEvent
  <2>4. ASSUME NEW r, NEW mode, ResumeRobot(r, mode) PROVE UNCHANGED missions
    BY <2>4 DEF ResumeRobot
  <2> QED
    BY <1>1, <1>3, <1>4, <1>5, <1>8, <2>1, <2>2, <2>3, <2>4, HoldersStay DEF Command
<1>9. CASE Clock \/ Watchdog \/ \E r \in Reporting : Report(r)
  <2>1. UNCHANGED missions
    BY <1>9 DEF Clock, CooldownEnds, GoesSilent, Watchdog, Report, Telemetry
  <2> QED
    BY <1>2, <2>1, HoldersStay
<1>10. CASE Vision
  <2>1. ASSUME NEW e \in Events, VisionSeesFromCctv(e) \/ \E r \in Reporting : VisionSeesFromRobot(e, r)
        PROVE  UNCHANGED missions
    BY <2>1 DEF VisionSeesFromCctv, VisionSeesFromRobot
  <2> QED
    BY <1>2, <1>6, <1>7, <1>10, <2>1, HoldersStay DEF Vision
<1>11. CASE UNCHANGED vars
  BY <1>2, <1>11, HoldersStay DEF vars
<1> QED
  BY <1>8, <1>9, <1>10, <1>11 DEF Next

\* Every row holds what the schema says, for any number of missions and commands.
THEOREM MissionsTypeCorrect == Spec => []MissionsTypeOK
<1>1. MissionsInv => MissionsTypeOK
  BY DEF MissionsInv, MissionPart, RobotPart, MissionsTypeOK
<1> QED
  BY <1>1, MissionsInit, MissionsNext, PTL DEF Spec

\* A robot is never given two anomalies unless the operator named it or resumed one of
\* them (dispatch.py:80, vision_bridge.py:392), however dispatches, holds decided before
\* an await, pauses, resumes and telemetry interleave.
THEOREM NestsNoAnomaly == Spec => []NoNestedAnomaly
<1>1. MissionsInv => NoNestedAnomaly
  BY DEF MissionsInv, MissionPart, Alone, Unnamed, NoNestedAnomaly
<1> QED
  BY <1>1, MissionsInit, MissionsNext, PTL DEF Spec

\* The mission a robot's row names is its own and open (patrol_router.py:391,
\* dispatch.py:219).
THEOREM NamesOpenMission == Spec => []CurrentIsOpen
<1>1. MissionsInv => CurrentIsOpen
  BY DEF MissionsInv, MissionPart
<1> QED
  BY <1>1, MissionsInit, MissionsNext, PTL DEF Spec

\* A robot that stopped in front of an anomaly stays where it can be released
\* (dispatch.py:219, robot_bridge.py's apply_telemetry): no other robot's command, no
\* dispatch and no status that looks like patrolling takes its mission or its status.
THEOREM HeldStaysReleasable == Spec => []HeldCanBeReleased
<1>1. Init => HeldCanBeReleased
  BY DEF Init, HeldCanBeReleased
<1> QED
  BY <1>1, MissionsInit, MissionsNext, HoldsNext, PTL DEF Spec

\* No node has two holders (patrol_router.py:233), paused and pre-empted patrols
\* included, as long as a start names one robot.
THEOREM NodesHaveOneHolder ==
  ASSUME SingleStarts PROVE Spec => []OneHolderPerNode
<1>1. Init => OneHolderPerNode
  BY DEF Init, OneHolderPerNode
<1>2. MissionsInv /\ OneHolderPerNode /\ [Next]_vars => OneHolderPerNode'
  BY HoldersNext
<1> QED
  BY <1>1, <1>2, MissionsInit, MissionsNext, PTL DEF Spec
=============================================================================
