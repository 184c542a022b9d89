------------------------------- MODULE Missions -------------------------------
(***************************************************************************)
(* The backend's rows of robots, missions and events, and everything that   *)
(* changes them: the patrol and robot routers, the dispatch service, the    *)
(* node lock, the vision bridge's automatic responses, telemetry and the    *)
(* heartbeat watchdog.  Handlers and tasks run on one event loop, each      *)
(* without suspension from its first read to its commit; only the vision    *)
(* bridge decides, awaits a broadcast, and then acts on what it decided.    *)
(* The dock order runs in a pool thread, and sets a status and nothing else.*)
(*                                                                          *)
(* The statuses of a robot are the six the code tells apart; "FREE" stands *)
(* for the others (IDLE, UNDOCKING, PATROLLING, PATROL_PAUSED, RESUMING,    *)
(* DOCKING).  A mission is known by its number, in order of creation.       *)
(***************************************************************************)
EXTENDS Naturals, Sequences, FiniteSets, SequencesExt

CONSTANTS Robots,
          Reporting,        \* the robots of which telemetry, or none, arrives
          Nodes, Routes,    \* node orders that may be started
          StartLists,       \* robot_ids that may be sent with a start
          Events,
          NodeOf,           \* the node of an event, a set of at most one
          MaxMissions,      \* bound on the missions created
          MaxCommands,      \* bound on the commands of the operator
          None

ASSUME MissionsAssumption ==
    /\ MaxMissions \in Nat /\ None \notin 1 .. MaxMissions
    /\ Reporting \subseteq Robots
    /\ \A robotIds \in StartLists : robotIds \in Seq(Robots)
    /\ \A route \in Routes : route \in Seq(Nodes)
    /\ NodeOf \in [Events -> SUBSET Nodes]

VARIABLES status, online, checkpoint, current,      \* rows of robots
          fresh,            \* last_seen is not older than the heartbeat time-out
          cooldown,         \* the window after an anomaly was resumed is open
          missions,         \* rows of missions: type, robot, status, nodes, event, and
                            \* whether the operator named the robot
          events,           \* status of an event: NONE before it exists
          decision,         \* the vision bridge, between its decision and its act
          held,             \* a robot stopped where it is, and nobody decided since
          commands          \* the operator's commands so far

vars == <<status, online, checkpoint, current, fresh, cooldown, missions, events, decision, held, commands>>

Statuses == {"FREE", "DISPATCHING", "INSPECTING", "EMERGENCY_STOP", "ERROR", "OFFLINE"}
EventStatuses == {"NONE", "OPEN", "ASSIGNED", "CLOSED"}
Open == {"RUNNING", "PREEMPTED"}

Init == /\ status = [r \in Robots |-> "FREE"]
        /\ online = [r \in Robots |-> TRUE]
        /\ checkpoint = [r \in Robots |-> None]
        /\ current = [r \in Robots |-> None]
        /\ fresh = [r \in Robots |-> TRUE]
        /\ cooldown = [r \in Robots |-> FALSE]
        /\ missions = <<>>
        /\ events = [e \in Events |-> "NONE"]
        /\ decision = None
        /\ held = [r \in Robots |-> FALSE]
        /\ commands = 0

(***************************************************************************)
(* Queries.                                                                 *)
(***************************************************************************)
MissionsOf(r, type, st) ==
    {m \in DOMAIN missions : missions[m].robot = r /\ missions[m].type = type /\ missions[m].status = st}

Latest(ms) == CHOOSE m \in ms : \A n \in ms : n <= m

\* active_mission_for: the newest running mission.  No code path sets PENDING.
Running(r) == MissionsOf(r, "PATROL", "RUNNING") \cup MissionsOf(r, "ANOMALY", "RUNNING")

HasActiveAnomaly(r) == Running(r) # {} /\ missions[Latest(Running(r))].type = "ANOMALY"

InAnomalyHold(r) == status[r] = "INSPECTING" /\ HasActiveAnomaly(r)

\* Mutant: a node is free as soon as its patrol is paused.
BugPausedIsFree(excluded) == UNION {missions[m].nodes : m \in {n \in DOMAIN missions :
                               missions[n].status = "RUNNING" /\ missions[n].robot \notin excluded}}

\* node_lock: the nodes other robots hold, even of missions that are paused.
Held(excluded) == UNION {missions[m].nodes : m \in {n \in DOMAIN missions :
                           missions[n].status \in Open /\ missions[n].robot \notin excluded}}

\* claim: where in the order the nodes are that no other robot holds.
Claim(robotIds, order) == {i \in DOMAIN order : order[i] \notin Held(ToSet(robotIds))}

\* _split_nodes: the granted nodes round robin, the nodes of the k-th robot.
Share(granted, order, robotIds, k) ==
    LET before(i) == Cardinality({j \in granted : j < i})
    IN  {order[i] : i \in {j \in granted : before(j) % Len(robotIds) = k - 1}}

\* Mutant: the selection trusts the status alone.
BugTrustsStatus == {r \in Robots : online[r] /\ status[r] = "FREE"}

\* select_robot: one of the candidates, distance and battery decide which; none
\* if the battery of each is low.
Candidates == {r \in Robots : /\ online[r]
                              /\ status[r] = "FREE"
                              /\ ~HasActiveAnomaly(r)}

(***************************************************************************)
(* Patrols.                                                                 *)
(***************************************************************************)
Patrol(r, nodes)   == [type |-> "PATROL", robot |-> r, status |-> "RUNNING", nodes |-> nodes, event |-> None, named |-> FALSE]
Anomaly(r, e, op)  == [type |-> "ANOMALY", robot |-> r, status |-> "RUNNING", nodes |-> NodeOf[e], event |-> e, named |-> op]

\* The first robots of the list get a mission each, as far as the nodes go.
StartPatrol(robotIds, route) ==
    LET granted == Claim(robotIds, route)
        served  == IF Cardinality(granted) < Len(robotIds) THEN Cardinality(granted) ELSE Len(robotIds)
        new     == [k \in 1 .. served |-> Patrol(robotIds[k], Share(granted, route, robotIds, k))]
        number(r) == CHOOSE k \in 1 .. served : robotIds[k] = r
        started == {robotIds[k] : k \in 1 .. served}
    IN  /\ \A r \in ToSet(robotIds) : Running(r) = {}
        /\ granted # {}
        /\ Len(missions) + served <= MaxMissions
        /\ missions' = missions \o new
        /\ current' = [r \in Robots |-> IF r \in started THEN Len(missions) + number(r) ELSE current[r]]
        /\ status' = [r \in Robots |-> IF r \in started THEN "FREE" ELSE status[r]]
        /\ UNCHANGED <<online, checkpoint, fresh, cooldown, events, decision, held>>

\* _transition, for any mission the caller names.
Transition(m, to, from) ==
    /\ m \in DOMAIN missions /\ missions[m].status \in from
    /\ missions' = [missions EXCEPT ![m].status = to]

Decided(rs) == held' = [r \in Robots |-> held[r] /\ r \notin rs]

PausePatrol(m) ==
    /\ Transition(m, "PREEMPTED", {"RUNNING"})
    /\ status' = [status EXCEPT ![missions[m].robot] = "FREE"]
    /\ Decided({missions[m].robot})
    /\ UNCHANGED <<online, checkpoint, current, fresh, cooldown, events, decision>>

\* A mission the operator resumes is his choice from then on.
ResumePatrol(m) ==
    /\ m \in DOMAIN missions /\ missions[m].status = "PREEMPTED"
    /\ missions' = [missions EXCEPT ![m].status = "RUNNING", ![m].named = TRUE]
    /\ status' = [status EXCEPT ![missions[m].robot] = "FREE"]
    /\ Decided({missions[m].robot})
    /\ UNCHANGED <<online, checkpoint, current, fresh, cooldown, events, decision>>

\* Mutant: the robot's row keeps naming the cancelled mission.
BugCancelKeepsCurrent(m) ==
    /\ Transition(m, "CANCELED", Open)
    /\ status' = [status EXCEPT ![missions[m].robot] = "FREE"]
    /\ Decided({missions[m].robot})
    /\ UNCHANGED <<online, checkpoint, current, fresh, cooldown, events, decision>>

CancelPatrol(m) ==
    /\ Transition(m, "CANCELED", Open)
    /\ current' = [current EXCEPT ![missions[m].robot] = None]
    /\ status' = [status EXCEPT ![missions[m].robot] = "FREE"]
    /\ Decided({missions[m].robot})
    /\ UNCHANGED <<online, checkpoint, fresh, cooldown, events, decision>>

(***************************************************************************)
(* Responses to an event.                                                   *)
(***************************************************************************)
\* _assign_anomaly_mission: a running patrol is pre-empted if the caller wants it.
AssignAnomaly(e, r, preempt, st, op) ==
    LET run == Running(r)
        old == IF preempt /\ run # {} /\ missions[Latest(run)].type = "PATROL"
                  THEN [missions EXCEPT ![Latest(run)].status = "PREEMPTED"] ELSE missions
    IN  /\ Len(missions) < MaxMissions
        /\ missions' = Append(old, Anomaly(r, e, op))
        /\ current' = [current EXCEPT ![r] = Len(missions) + 1]
        /\ status' = [status EXCEPT ![r] = st]
        /\ events' = [events EXCEPT ![e] = "ASSIGNED"]

\* The operator dispatches the robot the service selects, or names one.
Dispatch(e, preempt) ==
    /\ events[e] \in {"OPEN", "ASSIGNED"}
    /\ \/ /\ \E r \in Candidates : AssignAnomaly(e, r, preempt, "DISPATCHING", FALSE)
          /\ UNCHANGED held
       \/ /\ events' = [events EXCEPT ![e] = "OPEN"]         \* UNASSIGNED
          /\ UNCHANGED <<status, current, missions, held>>
    /\ UNCHANGED <<online, checkpoint, fresh, cooldown, decision>>

DispatchNamed(e, r, preempt) ==
    /\ events[e] \in {"OPEN", "ASSIGNED"}
    /\ AssignAnomaly(e, r, preempt, "DISPATCHING", TRUE)
    /\ Decided({r})
    /\ UNCHANGED <<online, checkpoint, fresh, cooldown, decision>>

\* resume_from_anomaly.
AnomalyResume(r) ==
    LET anomalies == MissionsOf(r, "ANOMALY", "RUNNING")
        patrols   == MissionsOf(r, "PATROL", "PREEMPTED")
        a == Latest(anomalies)  p == Latest(patrols)
    IN  /\ status[r] = "INSPECTING"
        /\ missions' = [m \in DOMAIN missions |->
               IF anomalies # {} /\ m = a THEN [missions[m] EXCEPT !.status = "DONE"]
               ELSE IF patrols # {} /\ m = p THEN [missions[m] EXCEPT !.status = "RUNNING"]
               ELSE missions[m]]
        /\ current' = [current EXCEPT ![r] = IF patrols # {} THEN p ELSE None]
        /\ status' = [status EXCEPT ![r] = "FREE"]
        /\ events' = IF anomalies # {} THEN [events EXCEPT ![missions[a].event] = "CLOSED"] ELSE events
        /\ cooldown' = [cooldown EXCEPT ![r] = TRUE]
        /\ Decided({r})
        /\ UNCHANGED <<online, checkpoint, fresh, decision>>

CooldownEnds(r) ==
    /\ cooldown[r]
    /\ cooldown' = [cooldown EXCEPT ![r] = FALSE]
    /\ UNCHANGED <<status, online, checkpoint, current, fresh, missions, events, decision, held>>

\* _handle of the vision bridge, up to the await: a new event, and what to do about it.
VisionSeesFromCctv(e) ==
    /\ decision = None /\ events[e] = "NONE"
    /\ events' = [events EXCEPT ![e] = "OPEN"]
    /\ decision' = [act |-> "dispatch", event |-> e, robot |-> None]
    /\ UNCHANGED <<status, online, checkpoint, current, fresh, cooldown, missions, held>>

VisionSeesFromRobot(e, r) ==
    /\ decision = None /\ events[e] = "NONE"
    /\ events' = [events EXCEPT ![e] = "OPEN"]
    /\ decision' = IF cooldown[r] \/ HasActiveAnomaly(r) THEN None
                   ELSE [act |-> "hold", event |-> e, robot |-> r]
    /\ UNCHANGED <<status, online, checkpoint, current, fresh, cooldown, missions, held>>

\* _auto_dispatch and _auto_hold, after the await: the event is not looked at again.
AutoDispatch ==
    /\ decision # None /\ decision.act = "dispatch"
    /\ \/ \E r \in Candidates : AssignAnomaly(decision.event, r, TRUE, "DISPATCHING", FALSE)
       \/ UNCHANGED <<status, current, missions, events>>
    /\ decision' = None
    /\ UNCHANGED <<online, checkpoint, fresh, cooldown, held>>

AutoHold ==
    /\ decision # None /\ decision.act = "hold"
    /\ LET r == decision.robot
           idle == ~online[r] \/ status[r] \in {"OFFLINE", "EMERGENCY_STOP"} \/ HasActiveAnomaly(r)
       IN  IF idle THEN UNCHANGED <<status, current, missions, events, held>>
                   ELSE /\ AssignAnomaly(decision.event, r, TRUE, "INSPECTING", FALSE)
                        /\ held' = [held EXCEPT ![r] = TRUE]
    /\ decision' = None
    /\ UNCHANGED <<online, checkpoint, fresh, cooldown>>

\* An operator closes an event; the missions that answer it are left alone.
ResolveEvent(e) ==
    /\ events[e] \in {"OPEN", "ASSIGNED"}
    /\ events' = [events EXCEPT ![e] = "CLOSED"]
    /\ UNCHANGED <<status, online, checkpoint, current, fresh, cooldown, missions, decision, held>>

(***************************************************************************)
(* Robots.                                                                  *)
(***************************************************************************)
\* emergency_stop of one robot, and of all.
StopThese(rs) ==
    /\ checkpoint' = [r \in Robots |-> IF r \in rs THEN status[r] ELSE checkpoint[r]]
    /\ status' = [r \in Robots |-> IF r \in rs THEN "EMERGENCY_STOP" ELSE status[r]]
    /\ Decided(rs)
    /\ UNCHANGED <<online, current, fresh, cooldown, missions, events, decision>>

EmergencyStop(r)  == StopThese({r})
EmergencyStopAll  == StopThese(Robots)

\* The release of an emergency stop, or of an error, back to the checkpoint or home.
ResumeRobot(r, mode) ==
    /\ status[r] \in {"EMERGENCY_STOP", "ERROR"}
    /\ status' = [status EXCEPT ![r] = IF mode = "RETURN_HOME" \/ checkpoint[r] = None THEN "FREE"
                                        ELSE checkpoint[r]]
    /\ checkpoint' = [checkpoint EXCEPT ![r] = None]
    /\ UNCHANGED <<online, current, fresh, cooldown, missions, events, decision, held>>

Dock(r) ==
    /\ status' = [status EXCEPT ![r] = "FREE"]
    /\ Decided({r})
    /\ UNCHANGED <<online, checkpoint, current, fresh, cooldown, missions, events, decision>>

\* Mutant: a status that looks like patrolling overwrites a hold.
BugNothingLeftOut(r, kind) == kind = "pose"

\* A pose or battery frame carries no status; during a hold a status that looks
\* like patrolling is left out, any other passes.
LeftOut(r, kind) == kind = "pose" \/ (kind = "patrol_like" /\ InAnomalyHold(r))

\* apply_telemetry.
Telemetry(r, kind, reported) ==
    /\ fresh' = [fresh EXCEPT ![r] = TRUE]
    /\ online' = [online EXCEPT ![r] = TRUE]
    /\ status' = IF LeftOut(r, kind) THEN status ELSE [status EXCEPT ![r] = reported]
    /\ Decided(IF kind = "other" THEN {r} ELSE {})
    /\ UNCHANGED <<checkpoint, current, cooldown, missions, events, decision>>

\* Nothing is heard of a robot for longer than the heartbeat time-out.
GoesSilent(r) ==
    /\ fresh[r]
    /\ fresh' = [fresh EXCEPT ![r] = FALSE]
    /\ UNCHANGED <<status, online, checkpoint, current, cooldown, missions, events, decision, held>>

\* Mutant: a robot that is shown as online is never stale.
BugOnlineIsNotStale == {r \in Robots : ~fresh[r] /\ ~online[r]}

\* _heartbeat_watchdog and mark_offline_stale: a row that is OFFLINE is not touched.
Stale == {r \in Robots : ~fresh[r] /\ status[r] # "OFFLINE"}

Watchdog ==
    /\ Stale # {}
    /\ status' = [r \in Robots |-> IF r \in Stale THEN "OFFLINE" ELSE status[r]]
    /\ online' = [r \in Robots |-> online[r] /\ r \notin Stale]
    /\ Decided(Stale)
    /\ UNCHANGED <<checkpoint, current, fresh, cooldown, missions, events, decision>>

(***************************************************************************)
(* The system.                                                              *)
(***************************************************************************)
Command ==
    /\ commands < MaxCommands /\ commands' = commands + 1
    /\ \/ \E robotIds \in StartLists, route \in Routes : StartPatrol(robotIds, route)
       \/ \E m \in DOMAIN missions : PausePatrol(m) \/ ResumePatrol(m) \/ CancelPatrol(m)
       \/ \E e \in Events, preempt \in BOOLEAN :
             Dispatch(e, preempt) \/ \E r \in Robots : DispatchNamed(e, r, preempt)
       \/ \E e \in Events : ResolveEvent(e)
       \/ \E r \in Robots : AnomalyResume(r) \/ Dock(r) \/ EmergencyStop(r)
       \/ \E r \in Robots, mode \in {"RETURN_HOME", "CHECKPOINT"} : ResumeRobot(r, mode)
       \/ EmergencyStopAll

Vision == \/ \E e \in Events : VisionSeesFromCctv(e) \/ \E r \in Reporting : VisionSeesFromRobot(e, r)
          \/ AutoDispatch \/ AutoHold

Report(r) == \/ Telemetry(r, "pose", "FREE")
             \/ Telemetry(r, "patrol_like", "FREE") \/ Telemetry(r, "patrol_like", "DISPATCHING")
             \/ Telemetry(r, "other", "FREE") \/ Telemetry(r, "other", "INSPECTING")
             \/ Telemetry(r, "other", "EMERGENCY_STOP") \/ Telemetry(r, "other", "ERROR")

Clock == \/ \E r \in Robots : CooldownEnds(r)
         \/ \E r \in Reporting : GoesSilent(r)

Next == \/ Command
        \/ (Vision \/ Clock \/ Watchdog \/ \E r \in Reporting : Report(r)) /\ UNCHANGED commands

Fairness == WF_vars(Watchdog /\ UNCHANGED commands)

Spec == Init /\ [][Next]_vars /\ Fairness

-----------------------------------------------------------------------------
MissionRows == [type : {"PATROL", "ANOMALY"}, robot : Robots, status : Open \cup {"DONE", "CANCELED"},
                nodes : SUBSET Nodes, event : Events \cup {None}, named : BOOLEAN]

\* Every row holds what the schema says.
MissionsTypeOK ==
    /\ status \in [Robots -> Statuses] /\ online \in [Robots -> BOOLEAN]
    /\ checkpoint \in [Robots -> Statuses \cup {None}]
    /\ current \in [Robots -> (1 .. MaxMissions) \cup {None}]
    /\ fresh \in [Robots -> BOOLEAN] /\ cooldown \in [Robots -> BOOLEAN] /\ held \in [Robots -> BOOLEAN]
    /\ missions \in Seq(MissionRows) /\ Len(missions) <= MaxMissions
    /\ events \in [Events -> EventStatuses]

\* A robot is never given two anomalies at a time (dispatch.py:80), unless the
\* operator named it, or resumed one of them: neither when the selection, a hold
\* decided before an await (vision_bridge.py:392) and the operator's commands
\* interleave, nor when telemetry overwrites the status the selection reads.
NoNestedAnomaly ==
    \A m, n \in DOMAIN missions :
        /\ m < n /\ missions[m].robot = missions[n].robot
        /\ missions[m].type = "ANOMALY" /\ missions[n].type = "ANOMALY"
        /\ missions[m].status = "RUNNING" /\ missions[n].status = "RUNNING"
        => missions[m].named \/ missions[n].named

\* The mission a robot's row names is the robot's own and not closed.
CurrentIsOpen ==
    \A r \in Robots : current[r] # None =>
        /\ current[r] \in DOMAIN missions
        /\ missions[current[r]].robot = r /\ missions[current[r]].status \in Open

\* Two robots never hold one node, paused or pre-empted patrols included
\* (patrol_router.py:233, "blocked at the source"), as long as each start names one
\* robot: a start of several looks away from the paused patrols of all of them.
OneHolderPerNode ==
    \A m, n \in DOMAIN missions :
        /\ missions[m].type = "PATROL" /\ missions[n].type = "PATROL"
        /\ missions[m].status \in Open /\ missions[n].status \in Open
        /\ missions[m].robot # missions[n].robot
        => missions[m].nodes \cap missions[n].nodes = {}

\* A robot that was stopped in front of an anomaly stays INSPECTING, the only
\* status from which it can be released, and its mission runs, until somebody
\* decides about it, it falls silent or it reports another state than patrolling.
HeldCanBeReleased == \A r \in Robots : held[r] => InAnomalyHold(r)

\* A robot that falls silent is shown as offline, unless it is heard again.
SilentIsOffline == \A r \in Robots : ~fresh[r] ~> (status[r] = "OFFLINE" \/ fresh[r])
=============================================================================
