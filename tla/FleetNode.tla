------------------------------ MODULE FleetNode ------------------------------
(***************************************************************************)
(* The Fleet Node (fleet_node.py): the arbiter of the shared points, and   *)
(* the relay of operator commands to the robots.  Each action is one       *)
(* subscription callback, run to its end by the node's only executor.      *)
(***************************************************************************)
EXTENDS Topics

CONSTANTS
  ZonePlans,      \* what build_missions can return: [Robots -> Route]
  AnomalyRoutes,  \* [Robots -> set of routes route_to_point may give]
  DockRoutes      \* the same to the dock; {} if the robot has no station

ASSUME RoutesAssumption ==
  /\ ZonePlans \subseteq [Robots -> Route]
  /\ AnomalyRoutes \in [Robots -> SUBSET (Route \ {NoRoute})]
  /\ DockRoutes \in [Robots -> SUBSET (Route \ {NoRoute})]

VARIABLES
  occupied,          \* _occupied: point -> holder
  missions,          \* the missions last routed; NoRoute for no mission
  registered,        \* robots whose publishers exist
  anomalyBusy,       \* _anomaly_busy
  emergencyStopped   \* _emergency_stopped

fleetVars == << occupied, missions, registered, anomalyBusy, emergencyStopped >>

FleetInit ==
  /\ occupied = [p \in Points |-> NoRobot]
  /\ missions = [r \in Robots |-> NoRoute]
  /\ registered = {}
  /\ anomalyBusy = {}
  /\ emergencyStopped = {}

-----------------------------------------------------------------------------
(* Occupancy of the shared points *)

\* A free point, or one the same robot already holds, is granted.
BugGrantsTaken(r, p) == TRUE
Grantable(r, p) == occupied[p] \in {NoRobot, r}

\* The grant topic reaches every Control Node; only the robot named in the
\* message takes it.
BugEveryoneTakesGrant(r, p) ==
  grants' = [s \in Robots |-> Append(grants[s], p)]
SendGrant(r, p) == grants' = Put(grants, r, p)

\* A denial is published too, and every Control Node drops it.
OnRequest(r) ==
  /\ requests[r] # << >>
  /\ requests' = Take(requests, r)
  /\ LET p == Head(requests[r]) IN
       \/ /\ Grantable(r, p)
          /\ occupied' = [occupied EXCEPT ![p] = r]
          /\ SendGrant(r, p)
       \/ /\ ~ Grantable(r, p)
          /\ UNCHANGED << occupied, grants >>
  /\ UNCHANGED << releases, commandTopics, missions, registered,
                  anomalyBusy, emergencyStopped >>

\* Only the holder's release frees the point.
OnRelease(r) ==
  /\ releases[r] # << >>
  /\ releases' = Take(releases, r)
  /\ LET p == Head(releases[r]) IN
       occupied' = [occupied EXCEPT ![p] = IF @ = r THEN NoRobot ELSE @]
  /\ UNCHANGED << requests, grants, commandTopics, missions, registered,
                  anomalyBusy, emergencyStopped >>

-----------------------------------------------------------------------------
(* Missions *)

\* A new zone plan replaces the missions; robots once registered stay so.
OnMapPoints(plan) ==
  /\ missions' = plan
  /\ registered' = registered \cup {r \in Robots : plan[r] # NoRoute}
  /\ UNCHANGED << occupied, anomalyBusy, emergencyStopped, topics >>

-----------------------------------------------------------------------------
(* Anomalies *)

\* Self-detected by r, or seen by CCTV and r chosen as the nearest robot: the
\* CCTV candidates are a subset of the robots the final checks let pass.
OnAnomalyTrigger(r, route) ==
  /\ r \in registered \ (emergencyStopped \cup anomalyBusy)
  /\ anomalyBusy' = anomalyBusy \cup {r}
  /\ Publish(r, "anomaly", route)
  /\ UNCHANGED << occupied, missions, registered, emergencyStopped,
                  crossingTopics, dones >>

OnAnomalyDone(r) ==
  /\ dones[r] > 0
  /\ dones' = [dones EXCEPT ![r] = @ - 1]
  /\ anomalyBusy' = anomalyBusy \ {r}
  /\ UNCHANGED << occupied, missions, registered, emergencyStopped,
                  crossingTopics, commands >>

\* The operator's two anomaly signals are relayed to a registered robot.
RelayAnomalySignal(r, kind) ==
  /\ r \in registered
  /\ kind \in {"anomaly_resume", "anomaly_captured"}
  /\ Publish(r, kind, TRUE)
  /\ UNCHANGED << fleetVars, crossingTopics, dones >>

-----------------------------------------------------------------------------
(* Emergency stop and dock return *)

StopAllRobots ==
  /\ registered # {}
  /\ emergencyStopped' = emergencyStopped \cup registered
  /\ commands' = [r \in Robots |->
       IF r \in registered
         THEN [commands[r] EXCEPT !.emergency_stop = Append(@, TRUE)]
         ELSE commands[r]]
  /\ UNCHANGED << occupied, missions, registered, anomalyBusy,
                  crossingTopics, dones >>

ReleaseAllRobots ==
  /\ emergencyStopped # {}
  /\ emergencyStopped' = {}
  /\ commands' = [r \in Robots |->
       IF r \in emergencyStopped
         THEN [commands[r] EXCEPT !.emergency_stop = Append(@, FALSE)]
         ELSE commands[r]]
  /\ UNCHANGED << occupied, missions, registered, anomalyBusy,
                  crossingTopics, dones >>

\* Robots of the request that can be docked; an empty request means all.
DockTargets(requested) ==
  {r \in registered :
     /\ requested # {} => r \in requested
     /\ DockRoutes[r] # {}}

\* A dock return also lifts the emergency stop of its targets.
BugDockLeavesStop(requested, routeOf) ==
  LET targets == DockTargets(requested) IN
  /\ targets # {}
  /\ \A r \in targets : routeOf[r] \in DockRoutes[r]
  /\ emergencyStopped' = emergencyStopped \ targets
  /\ commands' = [r \in Robots |->
       IF r \notin targets THEN commands[r]
       ELSE [commands[r] EXCEPT !.dock = Append(@, routeOf[r])]]
  /\ UNCHANGED << occupied, missions, registered, anomalyBusy,
                  crossingTopics, dones >>
OnDockReturn(requested, routeOf) ==
  LET targets == DockTargets(requested) IN
  /\ targets # {}
  /\ \A r \in targets : routeOf[r] \in DockRoutes[r]
  /\ emergencyStopped' = emergencyStopped \ targets
  /\ commands' = [r \in Robots |->
       IF r \notin targets THEN commands[r]
       ELSE [commands[r] EXCEPT
               !.dock = Append(@, routeOf[r]),
               !.emergency_stop =
                 IF r \in emergencyStopped THEN Append(@, FALSE) ELSE @]]
  /\ UNCHANGED << occupied, missions, registered, anomalyBusy,
                  crossingTopics, dones >>

-----------------------------------------------------------------------------
FleetType ==
  /\ occupied \in [Points -> Robots \cup {NoRobot}]
  /\ missions \in [Robots -> Route]
  /\ registered \subseteq Robots
  /\ anomalyBusy \subseteq Robots
  /\ emergencyStopped \subseteq Robots
=============================================================================
