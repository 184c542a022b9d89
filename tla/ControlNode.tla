----------------------------- MODULE ControlNode -----------------------------
(***************************************************************************)
(* The Control Node of every robot (control_node.py, mission_flow.py,      *)
(* navigation_flow.py).  One thread runs the mission loop; subscription    *)
(* callbacks run only where that thread spins, and only raise flags.  An   *)
(* interrupt of a move calls its handler from inside the move loop, and    *)
(* the handler moves too: stack[r] is that call stack, the frame being     *)
(* executed first.                                                         *)
(***************************************************************************)
EXTENDS Topics

CONSTANTS
  PromptNetwork,   \* a request is answered before it is repeated or given up,
                   \* and the release of a point before it is asked for again
  Faults,          \* Nav2 and gate checks may fail, obstacles come close
  MaxInFlight      \* bound on one robot's messages in flight on a topic

ASSUME ControlAssumption ==
  /\ PromptNetwork \in BOOLEAN
  /\ Faults \in BOOLEAN
  /\ MaxInFlight \in Nat \ {0}

MaxRecoveryAttempts == 2

VARIABLES
  pc,            \* where the thread of the robot is
  stack,         \* call stack of route loops
  mission,       \* self.mission, NoRoute for None
  granted,       \* self.granted_point
  flag,          \* the flags the callbacks raise, and docked
  dockOrder,     \* dock_route while dock_pending, else NoRoute
  anomalyOrder,  \* anomaly_route while anomaly_pending, else NoRoute
  attempts,      \* _recovery_attempts
  inside,        \* the point whose hop the robot is on (physical)
  onDock         \* the robot sits on its dock (physical)

controlVars == << pc, stack, mission, granted, flag, dockOrder, anomalyOrder,
                  attempts, inside, onDock >>
orders   == << dockOrder, anomalyOrder >>
physical == << inside, onDock >>

Flags == [emergency : BOOLEAN, paused : BOOLEAN, resume : BOOLEAN,
          captured : BOOLEAN, docked : BOOLEAN]

\* One activation of _run_current_mission or _traverse_route_with_crossings.
Frame == [kind : {"mission", "anomaly", "dock"}, route : Route, i : Nat \ {0}]

\* Callbacks run at these labels; at the others the thread does not spin.
Spinning == {"wait_mission", "undock", "undocking", "requesting", "moving",
             "emergency_hold", "pause_hold", "gate", "docking",
             "anomaly_wait", "anomaly_hold", "patrol_wait"}
Label    == Spinning \cup {"next_waypoint", "drive"}

Top(r)      == Head(stack[r])
Callers(r)  == Tail(stack[r])
Target(r)   == Top(r).route[Top(r).i]
IsLast(r)   == Top(r).i = Len(Top(r).route)
NextPoint(r) == IF IsLast(r) THEN NoPoint ELSE Top(r).route[Top(r).i + 1].point

ControlInit ==
  /\ pc = [r \in Robots |-> "wait_mission"]
  /\ stack = [r \in Robots |-> << >>]
  /\ mission = [r \in Robots |-> NoRoute]
  /\ granted = [r \in Robots |-> NoPoint]
  /\ flag = [r \in Robots |-> [emergency |-> FALSE, paused |-> FALSE,
               resume |-> FALSE, captured |-> FALSE, docked |-> FALSE]]
  /\ dockOrder = [r \in Robots |-> NoRoute]
  /\ anomalyOrder = [r \in Robots |-> NoRoute]
  /\ attempts = [r \in Robots |-> 0]
  /\ inside = [r \in Robots |-> NoPoint]
  /\ onDock \in [Robots -> BOOLEAN]

Goto(r, label)      == pc' = [pc EXCEPT ![r] = label]
At(r, labels)       == pc[r] \in labels
SetStack(r, frames) == stack' = [stack EXCEPT ![r] = frames]
Call(r, kind, route) ==
  /\ SetStack(r, << [kind |-> kind, route |-> route, i |-> 1] >> \o stack[r])
  /\ Goto(r, "next_waypoint")

-----------------------------------------------------------------------------
(* Subscription callbacks *)

OnGrant(r) ==
  /\ At(r, Spinning)
  /\ grants[r] # << >>
  /\ granted' = [granted EXCEPT ![r] = Head(grants[r])]
  /\ grants' = Take(grants, r)
  /\ UNCHANGED << requests, releases, commandTopics, pc, stack, mission, flag,
                  orders, attempts, physical >>

\* The Fleet Node's 1 Hz republication; a docked robot drops it.
OnMission(r, route) ==
  /\ At(r, Spinning)
  /\ ~ flag[r].docked
  /\ route \notin {NoRoute, mission[r]}
  /\ mission' = [mission EXCEPT ![r] = route]
  /\ UNCHANGED << topics, pc, stack, granted, flag, orders, attempts,
                  physical >>

Receive(r, kind) ==
  /\ At(r, Spinning)
  /\ commands[r][kind] # << >>
  /\ commands' = [commands EXCEPT ![r][kind] = Tail(@)]
  /\ UNCHANGED << crossingTopics, dones, pc, stack, mission, granted, attempts,
                  physical >>

Arrived(r, kind) == Head(commands[r][kind])

OnAnomaly(r) ==
  /\ Receive(r, "anomaly")
  /\ anomalyOrder' = [anomalyOrder EXCEPT ![r] = Arrived(r, "anomaly")]
  /\ UNCHANGED << flag, dockOrder >>

OnDock(r) ==
  /\ Receive(r, "dock")
  /\ dockOrder' = [dockOrder EXCEPT ![r] = Arrived(r, "dock")]
  /\ UNCHANGED << flag, anomalyOrder >>

OnAnomalyResume(r) ==
  /\ Receive(r, "anomaly_resume")
  /\ flag' = [flag EXCEPT ![r].resume = TRUE]
  /\ UNCHANGED orders

OnAnomalyCaptured(r) ==
  /\ Receive(r, "anomaly_captured")
  /\ flag' = [flag EXCEPT ![r].captured = TRUE]
  /\ UNCHANGED orders

OnEmergencyStop(r) ==
  /\ Receive(r, "emergency_stop")
  /\ flag' = [flag EXCEPT ![r].emergency = Arrived(r, "emergency_stop")]
  /\ UNCHANGED orders

OnPause(r) ==
  /\ Receive(r, "pause")
  /\ flag' = [flag EXCEPT ![r].paused = Arrived(r, "pause")]
  /\ UNCHANGED orders

OnRepatrol(r) ==
  /\ Receive(r, "repatrol")
  /\ flag' = [flag EXCEPT ![r].docked = FALSE, ![r].paused = FALSE]
  /\ UNCHANGED orders

-----------------------------------------------------------------------------
(* Releasing a crossing *)

BugReleaseKeepsGrant(r, p) ==
  /\ releases' = Put(releases, r, p)
  /\ UNCHANGED granted
Release(r, p) ==
  /\ releases' = Put(releases, r, p)
  /\ granted' = [granted EXCEPT ![r] = NoPoint]

BugForgetsHeld(r) == UNCHANGED << releases, granted >>
BugReleasesNothing(r) == Release(r, granted[r])
ReleaseHeld(r) ==
  \/ granted[r] # NoPoint /\ Release(r, granted[r])
  \/ granted[r] = NoPoint /\ UNCHANGED << releases, granted >>

\* The last waypoint of a mission releases its point, a detour's keeps it.
BugLastKept(r) ==
  Target(r).point \notin {NoPoint, NextPoint(r)} /\ ~ IsLast(r)
Passed(r) ==
  /\ Target(r).point \notin {NoPoint, NextPoint(r)}
  /\ Top(r).kind = "mission" \/ ~ IsLast(r)

ReleaseOnArrival(r) ==
  \/ /\ Passed(r)
     /\ Release(r, Target(r).point)
     /\ inside' = [inside EXCEPT ![r] = NoPoint]
  \/ ~ Passed(r) /\ UNCHANGED << releases, granted, inside >>

-----------------------------------------------------------------------------
(* How a route loop ends *)

\* The handler returned True: its caller retries the move it interrupted.
\* Called from the wait between patrols, the next mission is awaited instead.
ReturnTo(r, callers) ==
  /\ SetStack(r, callers)
  /\ \/ callers # << >> /\ Goto(r, "drive") /\ UNCHANGED mission
     \/ /\ callers = << >>
        /\ Goto(r, "wait_mission")
        /\ mission' = [mission EXCEPT ![r] = NoRoute]

PublishDone(r) == dones' = [dones EXCEPT ![r] = @ + 1]

\* A detour that failed; an anomaly reports done even so.
BugFailureUnreported(r, frame, callers) ==
  ReturnTo(r, callers) /\ UNCHANGED dones
DetourFailed(r, frame, callers) ==
  /\ ReturnTo(r, callers)
  /\ IF frame.kind = "anomaly" THEN PublishDone(r) ELSE UNCHANGED dones

MissionEnds(r, label) ==
  /\ SetStack(r, << >>)
  /\ mission' = [mission EXCEPT ![r] = NoRoute]
  /\ Goto(r, label)

\* An interrupt nobody could resolve: a mission aborts, a detour fails.
Unresolved(r) ==
  /\ ReleaseHeld(r)
  /\ \/ /\ Top(r).kind = "mission"
        /\ MissionEnds(r, "wait_mission")
        /\ UNCHANGED dones
     \/ /\ Top(r).kind # "mission"
        /\ DetourFailed(r, Top(r), Callers(r))

-----------------------------------------------------------------------------
(* The mission loop: run() *)

BeginMission(r) ==
  /\ Call(r, "mission", mission[r])
  /\ UNCHANGED mission

StartMission(r) ==
  /\ At(r, {"wait_mission"})
  /\ mission[r] # NoRoute
  /\ IF flag[r].docked THEN BeginMission(r)
       ELSE Goto(r, "undock") /\ UNCHANGED << stack, mission >>
  /\ UNCHANGED << topics, granted, flag, orders, attempts, physical >>

\* The status may never come, and each attempt to undock may fail.
UndockFailed(r) == MissionEnds(r, "wait_mission")

EnsureUndocked(r) ==
  /\ At(r, {"undock"})
  /\ ~ flag[r].emergency
  /\ \/ ~ onDock[r] /\ BeginMission(r)
     \/ onDock[r] /\ Goto(r, "undocking") /\ UNCHANGED << stack, mission >>
     \/ UndockFailed(r)
  /\ UNCHANGED << topics, granted, flag, orders, attempts, physical >>

UndockEnds(r) ==
  /\ At(r, {"undocking"})
  /\ \/ BeginMission(r) /\ onDock' = [onDock EXCEPT ![r] = FALSE]
     \/ /\ UndockFailed(r)
        /\ \E off \in BOOLEAN : onDock' = [onDock EXCEPT ![r] = off]
  /\ UNCHANGED << topics, granted, flag, orders, attempts, inside >>

MissionComplete(r) ==
  /\ At(r, {"next_waypoint"})
  /\ Top(r).i > Len(Top(r).route)
  /\ MissionEnds(r, "patrol_wait")
  /\ UNCHANGED << topics, granted, flag, orders, attempts, physical >>

\* Ten minutes between patrols; missions that arrive meanwhile are kept.
NextPatrol(r) ==
  /\ At(r, {"patrol_wait"})
  /\ dockOrder[r] = NoRoute
  /\ anomalyOrder[r] = NoRoute
  /\ Goto(r, "wait_mission")
  /\ UNCHANGED << topics, stack, mission, granted, flag, orders, attempts,
                  physical >>

-----------------------------------------------------------------------------
(* Crossing a shared point *)

Approach(r) ==
  /\ At(r, {"next_waypoint"})
  /\ Top(r).i <= Len(Top(r).route)
  /\ LET p == Target(r).point IN
       \/ /\ p \in {NoPoint, granted[r]}
          /\ Goto(r, "drive")
          /\ UNCHANGED requests
       \/ /\ p \notin {NoPoint, granted[r]}
          /\ PromptNetwork => p \notin Elements(releases[r])
          /\ Len(requests[r]) < MaxInFlight
          /\ Len(releases[r]) < MaxInFlight
          /\ Goto(r, "requesting")
          /\ requests' = Put(requests, r, p)
  /\ UNCHANGED << releases, grants, commandTopics, stack, mission, granted,
                  flag, orders, attempts, physical >>

\* Half a second without the grant: ask again.
Republish(r) ==
  /\ At(r, {"requesting"})
  /\ granted[r] # Target(r).point
  /\ PromptNetwork => Answered(r)
  /\ Len(requests[r]) < MaxInFlight
  /\ requests' = Put(requests, r, Target(r).point)
  /\ UNCHANGED << releases, grants, commandTopics, controlVars >>

CrossingGranted(r) ==
  /\ At(r, {"requesting"})
  /\ granted[r] = Target(r).point
  /\ Goto(r, "drive")
  /\ UNCHANGED << topics, stack, mission, granted, flag, orders, attempts,
                  physical >>

\* Fifteen seconds without the grant.  The request is not withdrawn, and only
\* a mission gives back what it still holds.
CrossingTimeout(r) ==
  /\ At(r, {"requesting"})
  /\ granted[r] # Target(r).point
  /\ PromptNetwork => Answered(r)
  /\ \/ Top(r).kind = "mission" /\ Unresolved(r)
     \/ /\ Top(r).kind # "mission"
        /\ DetourFailed(r, Top(r), Callers(r))
        /\ UNCHANGED << releases, granted >>
  /\ UNCHANGED << requests, grants, commands, flag, orders, attempts,
                  physical >>

-----------------------------------------------------------------------------
(* Moving: _move_to and the interrupts it polls, in their priority *)

Drive(r) ==
  /\ At(r, {"drive"})
  /\ \/ /\ flag[r].emergency
        /\ Goto(r, "emergency_hold")
        /\ UNCHANGED inside
     \/ /\ ~ flag[r].emergency
        /\ flag[r].paused
        /\ Goto(r, "pause_hold")
        /\ UNCHANGED inside
     \/ /\ ~ flag[r].emergency
        /\ ~ flag[r].paused
        /\ Goto(r, "moving")
        /\ inside' = [inside EXCEPT ![r] = Target(r).point]
  /\ UNCHANGED << topics, stack, mission, granted, flag, orders, attempts,
                  onDock >>

BugHoldReleases(r) ==
  /\ At(r, {"moving"})
  /\ flag[r].emergency
  /\ Goto(r, "emergency_hold")
  /\ ReleaseHeld(r)
  /\ UNCHANGED << requests, grants, commandTopics, stack, mission, flag,
                  orders, attempts, physical >>
Hold(r) ==
  /\ At(r, {"moving"})
  /\ \/ flag[r].emergency /\ Goto(r, "emergency_hold")
     \/ ~ flag[r].emergency /\ flag[r].paused /\ Goto(r, "pause_hold")
  /\ UNCHANGED << topics, stack, mission, granted, flag, orders, attempts,
                  physical >>

Undisturbed(r) == ~ flag[r].emergency /\ ~ flag[r].paused

\* The route update asked for after a collision risk is never answered by the
\* Fleet Node: ten seconds later the interrupt is unresolved.
CollisionRisk(r) ==
  /\ Faults
  /\ At(r, {"moving"})
  /\ Undisturbed(r)
  /\ Unresolved(r)
  /\ UNCHANGED << requests, grants, commands, flag, orders, attempts,
                  physical >>

TakeDockOrder(r) ==
  /\ Call(r, "dock", dockOrder[r])
  /\ dockOrder' = [dockOrder EXCEPT ![r] = NoRoute]
  /\ UNCHANGED << anomalyOrder, flag >>

TakeAnomalyOrder(r) ==
  /\ Call(r, "anomaly", anomalyOrder[r])
  /\ anomalyOrder' = [anomalyOrder EXCEPT ![r] = NoRoute]
  /\ flag' = [flag EXCEPT ![r].captured = FALSE]
  /\ UNCHANGED dockOrder

\* A dock or an anomaly order interrupts a move or the wait between patrols.
Divert(r) ==
  /\ \/ At(r, {"moving"}) /\ Undisturbed(r)
     \/ At(r, {"patrol_wait"})
  /\ \/ dockOrder[r] # NoRoute /\ TakeDockOrder(r)
     \/ /\ dockOrder[r] = NoRoute
        /\ anomalyOrder[r] # NoRoute
        /\ TakeAnomalyOrder(r)
  /\ UNCHANGED << topics, mission, granted, attempts, physical >>

WaitForOperator(r) ==
  /\ Goto(r, "anomaly_wait")
  /\ flag' = [flag EXCEPT ![r].resume = FALSE, ![r].captured = FALSE]

\* The robot's own camera sees the anomaly before the route ends.
StopEarly(r) ==
  /\ At(r, {"moving"})
  /\ Top(r).kind = "anomaly"
  /\ flag[r].captured
  /\ Undisturbed(r)
  /\ dockOrder[r] = NoRoute
  /\ anomalyOrder[r] = NoRoute
  /\ WaitForOperator(r)
  /\ UNCHANGED << topics, stack, mission, granted, orders, attempts, physical >>

\* Nav2 failed: clear the costmaps and retry twice, then ask for a new route.
NavFailed(r) ==
  /\ Faults
  /\ At(r, {"moving"})
  /\ \/ /\ attempts[r] < MaxRecoveryAttempts
        /\ attempts' = [attempts EXCEPT ![r] = @ + 1]
        /\ Goto(r, "drive")
        /\ UNCHANGED << releases, granted, stack, mission, dones >>
     \/ /\ attempts[r] = MaxRecoveryAttempts
        /\ attempts' = [attempts EXCEPT ![r] = 0]
        /\ Unresolved(r)
  /\ UNCHANGED << requests, grants, commands, flag, orders, physical >>

Advance(r) ==
  SetStack(r, << [Top(r) EXCEPT !.i = @ + 1] >> \o Callers(r))

\* A goal that is complete is not interrupted any more, whatever the flags.
Arrive(r) ==
  /\ At(r, {"moving"})
  /\ attempts' = [attempts EXCEPT ![r] = 0]
  /\ ReleaseOnArrival(r)
  /\ \/ /\ Top(r).kind = "mission"
        /\ Target(r).gate
        /\ Goto(r, "gate")
        /\ UNCHANGED << stack, flag >>
     \/ /\ Top(r).kind = "mission" => ~ Target(r).gate
        /\ Top(r).kind # "mission" => ~ IsLast(r)
        /\ Advance(r)
        /\ Goto(r, "next_waypoint")
        /\ UNCHANGED flag
     \/ /\ Top(r).kind = "dock" /\ IsLast(r)
        /\ Goto(r, "docking")
        /\ UNCHANGED << stack, flag >>
     \/ /\ Top(r).kind = "anomaly" /\ IsLast(r)
        /\ Goto(r, "anomaly_wait")
        /\ flag' = [flag EXCEPT ![r].resume = FALSE]
        /\ UNCHANGED stack
  /\ UNCHANGED << requests, grants, commandTopics, mission, orders, onDock >>

-----------------------------------------------------------------------------
(* Holding in place *)

EndHold(r) ==
  /\ \/ /\ At(r, {"emergency_hold"})
        /\ ~ flag[r].emergency
        /\ Goto(r, "drive")
     \/ /\ At(r, {"pause_hold"})
        /\ flag[r].emergency \/ ~ flag[r].paused
        /\ Goto(r, "drive")
     \/ /\ At(r, {"anomaly_hold"})
        /\ ~ flag[r].emergency
        /\ Goto(r, "anomaly_wait")
  /\ UNCHANGED << topics, stack, mission, granted, flag, orders, attempts,
                  physical >>

\* Alignment, pause and gate check; the result of the check is external.
InspectGate(r) ==
  /\ At(r, {"gate"})
  /\ \/ /\ Advance(r)
        /\ Goto(r, "next_waypoint")
        /\ UNCHANGED << releases, granted, mission, dones >>
     \/ Faults /\ Unresolved(r)
  /\ UNCHANGED << requests, grants, commands, flag, orders, attempts,
                  physical >>

-----------------------------------------------------------------------------
(* At the anomaly, and on the dock *)

HoldAtAnomaly(r) ==
  /\ At(r, {"anomaly_wait"})
  /\ ~ flag[r].resume
  /\ dockOrder[r] = NoRoute
  /\ flag[r].emergency
  /\ Goto(r, "anomaly_hold")
  /\ UNCHANGED << topics, stack, mission, granted, flag, orders, attempts,
                  physical >>

\* The operator's decision; docking wins over resuming.
DecideDock(r) ==
  /\ At(r, {"anomaly_wait"})
  /\ dockOrder[r] # NoRoute
  /\ ReleaseHeld(r)
  /\ PublishDone(r)
  /\ SetStack(r, << [kind |-> "dock", route |-> dockOrder[r], i |-> 1] >>
                 \o Callers(r))
  /\ Goto(r, "next_waypoint")
  /\ dockOrder' = [dockOrder EXCEPT ![r] = NoRoute]
  /\ UNCHANGED << requests, grants, commands, mission, flag, anomalyOrder,
                  attempts, physical >>

DecideResume(r) ==
  /\ At(r, {"anomaly_wait"})
  /\ dockOrder[r] = NoRoute
  /\ flag[r].resume
  /\ flag' = [flag EXCEPT ![r].resume = FALSE]
  /\ ReleaseHeld(r)
  /\ PublishDone(r)
  /\ ReturnTo(r, Callers(r))
  /\ UNCHANGED << requests, grants, commands, orders, attempts, physical >>

\* Whether the dock action succeeded is not looked at.  The handler returns the
\* empty route: a mission is replaced by it and completes; a detour that the
\* dock order interrupted takes it for a failure.
DockEnds(r) ==
  LET callers == Callers(r) IN
  /\ At(r, {"docking"})
  /\ \E on \in BOOLEAN :
       (on \/ Faults) /\ onDock' = [onDock EXCEPT ![r] = on]
  /\ ReleaseHeld(r)
  /\ inside' = [inside EXCEPT ![r] = NoPoint]
  /\ flag' = [flag EXCEPT ![r].docked = TRUE]
  /\ \/ callers = << >> /\ ReturnTo(r, callers) /\ UNCHANGED dones
     \/ /\ callers # << >> /\ Head(callers).kind = "mission"
        /\ MissionEnds(r, "patrol_wait")
        /\ UNCHANGED dones
     \/ /\ callers # << >> /\ Head(callers).kind # "mission"
        /\ DetourFailed(r, Head(callers), Tail(callers))
  /\ UNCHANGED << requests, grants, commands, orders, attempts >>

-----------------------------------------------------------------------------
ControlType ==
  /\ pc \in [Robots -> Label]
  /\ stack \in [Robots -> Seq(Frame)]
  /\ mission \in [Robots -> Route]
  /\ granted \in [Robots -> Points \cup {NoPoint}]
  /\ flag \in [Robots -> Flags]
  /\ dockOrder \in [Robots -> Route]
  /\ anomalyOrder \in [Robots -> Route]
  /\ attempts \in [Robots -> 0..MaxRecoveryAttempts]
  /\ inside \in [Robots -> Points \cup {NoPoint}]
  /\ onDock \in [Robots -> BOOLEAN]

\* A thread inside a route loop has a frame, and a frame that is resumed later
\* points at a waypoint of its route; only a loop about to look at the next
\* waypoint may be past the last.  At a crossing request that waypoint is shared.
Idle == {"wait_mission", "undock", "undocking", "patrol_wait"}
Resumable(frames) ==
  \A k \in 1..Len(frames) : frames[k].i <= Len(frames[k].route)
ShapeOf(frames, label) ==
  /\ frames = << >> <=> label \in Idle
  /\ IF label = "next_waypoint" THEN Resumable(Tail(frames))
       ELSE Resumable(frames)
  /\ label = "requesting" => Head(frames).route[Head(frames).i].point # NoPoint
StackShapes == \A r \in Robots : ShapeOf(stack[r], pc[r])
=============================================================================
