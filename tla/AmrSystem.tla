------------------------------ MODULE AmrSystem ------------------------------
(***************************************************************************)
(* The robots, the Fleet Node and the operator together.  The operator's   *)
(* commands reach the Fleet Node on the /backend topics, pause and         *)
(* repatrol reach a robot through the backend adapter.                     *)
(***************************************************************************)
EXTENDS FleetNode, ControlNode, FiniteSets

CONSTANTS
  OperatorCommands,   \* the commands this instance's operator may give
  MaxCommands         \* bound on how many

ASSUME OperatorAssumption ==
  /\ OperatorCommands \subseteq CommandKind
  /\ MaxCommands \in Nat

VARIABLE commandsLeft

vars == << topics, fleetVars, controlVars, commandsLeft >>

Init ==
  /\ TopicsInit
  /\ FleetInit
  /\ ControlInit
  /\ commandsLeft = MaxCommands

-----------------------------------------------------------------------------
\* One operator command, if the instance allows its kind.
Operator(kind, Handler) ==
  /\ kind \in OperatorCommands
  /\ commandsLeft > 0
  /\ commandsLeft' = commandsLeft - 1
  /\ Handler
  /\ UNCHANGED controlVars

\* backend_adapter publishes these two on the robot's topic by itself.
PublishDirect(r, kind, m) ==
  /\ Publish(r, kind, m)
  /\ UNCHANGED << fleetVars, crossingTopics, dones >>

\* The zones of the map may be sent again while robots patrol.
StartPatrol ==
  /\ \E plan \in ZonePlans : plan # missions /\ OnMapPoints(plan)
  /\ UNCHANGED << controlVars, commandsLeft >>

OperatorStep ==
  \/ StartPatrol
  \/ Operator("emergency_stop", StopAllRobots)
  \/ Operator("emergency_stop", ReleaseAllRobots)
  \/ \E requested \in SUBSET Robots :
       LET targets == DockTargets(requested) IN
       \E routeOf \in [targets -> UNION {DockRoutes[r] : r \in targets}] :
         Operator("dock", OnDockReturn(requested, routeOf))
  \/ \E r \in Robots :
       \/ \E route \in AnomalyRoutes[r] :
            Operator("anomaly", OnAnomalyTrigger(r, route))
       \/ \E kind \in {"anomaly_resume", "anomaly_captured"} :
            Operator(kind, RelayAnomalySignal(r, kind))
       \/ \E stop \in BOOLEAN : Operator("pause", PublishDirect(r, "pause", stop))
       \/ Operator("repatrol", PublishDirect(r, "repatrol", TRUE))

FleetStep(r) ==
  /\ OnRequest(r) \/ OnRelease(r) \/ OnAnomalyDone(r)
  /\ UNCHANGED << controlVars, commandsLeft >>

Callback(r) ==
  /\ \/ OnGrant(r)
     \/ OnMission(r, missions[r])
     \/ OnAnomaly(r) \/ OnDock(r)
     \/ OnAnomalyResume(r) \/ OnAnomalyCaptured(r)
     \/ OnEmergencyStop(r) \/ OnPause(r) \/ OnRepatrol(r)
  /\ UNCHANGED << fleetVars, commandsLeft >>

ThreadStep(r) ==
  /\ \/ StartMission(r) \/ EnsureUndocked(r) \/ UndockEnds(r)
     \/ MissionComplete(r) \/ NextPatrol(r)
     \/ Approach(r) \/ Republish(r) \/ CrossingGranted(r) \/ CrossingTimeout(r)
     \/ Drive(r) \/ Hold(r) \/ CollisionRisk(r) \/ Divert(r) \/ StopEarly(r)
     \/ NavFailed(r) \/ Arrive(r) \/ EndHold(r) \/ InspectGate(r)
     \/ HoldAtAnomaly(r) \/ DecideDock(r) \/ DecideResume(r) \/ DockEnds(r)
  /\ UNCHANGED << fleetVars, commandsLeft >>

Next ==
  \/ OperatorStep
  \/ \E r \in Robots : FleetStep(r) \/ Callback(r) \/ ThreadStep(r)

Spec == Init /\ [][Next]_vars

-----------------------------------------------------------------------------
(* Type invariant *)

\* Every variable keeps its type; see TopicsType, FleetType and ControlType.
TypeOK ==
  /\ TopicsType
  /\ FleetType
  /\ ControlType
  /\ commandsLeft \in 0..MaxCommands

-----------------------------------------------------------------------------
(* Safety *)

\* Two robots are never on the hop of the same shared point: what the
\* occupancy arbitration of the Fleet Node is for.
MutualExclusion ==
  \A r, s \in Robots : inside[r] = inside[s] /\ inside[r] # NoPoint => r = s

\* A robot asks for a point only with no other in its hands, so no two robots
\* can wait for each other's point.
NoHoldAndWait ==
  \A r \in Robots :
    pc[r] = "requesting" => granted[r] \in {NoPoint, Target(r).point}

\* Two robots never drive into the same shared point at the same time, also
\* when Nav2 or a gate check fails.
Driving(r) == pc[r] = "moving" /\ Target(r).point # NoPoint
NoTwoDriving ==
  \A r, s \in Robots :
    Driving(r) /\ Driving(s) /\ Target(r).point = Target(s).point => r = s

\* A point a Control Node believes it was granted is recorded by the Fleet
\* Node as held by that robot, however requests, grants and releases cross.
HoldsWhatFleetRecords ==
  \A r \in Robots : granted[r] # NoPoint => occupied[granted[r]] = r

\* A robot is busy with an anomaly for the Fleet Node exactly as long as one
\* dispatch is on its way to the robot, pending, being served on its stack of
\* routes, or reported done: no dispatch is lost, and none is given twice.
Dispatches(r) ==
  Len(commands[r].anomaly)
  + (IF anomalyOrder[r] # NoRoute THEN 1 ELSE 0)
  + Cardinality({i \in 1..Len(stack[r]) : stack[r][i].kind = "anomaly"})
  + dones[r]
BusyAccounted ==
  \A r \in Robots : Dispatches(r) = IF r \in anomalyBusy THEN 1 ELSE 0

\* The Fleet Node and the robot agree on the emergency stop once the signals
\* in flight are handled, whichever of stop, release and dock return sent them.
LastSignal(r) ==
  LET signals == commands[r].emergency_stop IN
  IF signals = << >> THEN flag[r].emergency ELSE signals[Len(signals)]
EmergencyAgreement ==
  \A r \in Robots : LastSignal(r) <=> r \in emergencyStopped

\* The Fleet Node records no holder that will never release: a robot named as
\* holder holds the point, is being told so, or its release is on the way.
NoOrphanHold ==
  \A p \in Points, r \in Robots :
    occupied[p] = r =>
      \/ granted[r] = p
      \/ p \in Elements(grants[r])
      \/ p \in Elements(releases[r])

-----------------------------------------------------------------------------
(* Liveness *)

\* The executors of the nodes serve every subscription that has a message, and
\* the mission thread keeps running: Nav2, the undock action and the gate check
\* all end.  Nothing is assumed of the operator.
Served(Handler) ==
  Handler /\ UNCHANGED << controlVars, commandsLeft >>

Fairness ==
  \A r \in Robots :
    /\ WF_vars(Served(OnRequest(r)))
    /\ WF_vars(Served(OnRelease(r)))
    /\ WF_vars(Callback(r))
    /\ WF_vars(ThreadStep(r))
FairSpec == Spec /\ Fairness

\* A recorded holder releases the point, unless the operator has stopped it.
EveryHoldEnds ==
  \A p \in Points, r \in Robots :
    occupied[p] = r ~>
      occupied[p] # r \/ flag[r].emergency \/ flag[r].paused

-----------------------------------------------------------------------------
(* What the protocol promises *)

\* The grants the robots believe in and the points they are on behave as the
\* permissions and presences of AisleLock.
Lock == INSTANCE AisleLock
KeepsAisleLock == Lock!LockSpec
=============================================================================
