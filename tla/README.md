# TLA+ project for DBcenter-PT-Bot

DBcenter-PT-Bot patrols a data centre with several AMR robots (TurtleBot 4, ROS 2
and Nav2). A **Fleet Node** routes the patrols and decides which robot may use a
shared aisle; every robot has a **Control Node** that drives it; an HMI backend
(FastAPI) and a dashboard give the operator's commands; vision nodes report
fires, leaks and breaker positions.

The directory models the two halves of the system and what lies between them:

* on the robots' side, everything that keeps two robots out of one single-lane
  aisle: the missions the router makes of the zones, the occupancy protocol, the
  control flow of the Control Node around it, the operator commands that
  interrupt it, and the gate check that decides whether a robot drives on;
* on the backend's side, what happens to an anomaly from the frames of a camera
  to the actuators: the detectors, the queue and the ingest of events, the
  missions that answer them, the verdicts, and the suppression of a fire; and the
  two links all of it passes, the command link to the robots and the WebSocket hub.

Paths below are relative to the repository; `control_node.py` stands for
`src/robot/control_amr/control_amr/control_node.py`, `fleet_node.py` and its
neighbours are in `src/robot/fleet/fleet/`, the vision nodes in
`src/vision/vision_detection/vision_detection/`, the backend in `hmi/backend/app/`.

## 1. Inventory of the system

| component | state | operations | talks to |
|---|---|---|---|
| Fleet Node (`fleet_node.py`) | `_occupied`, `missions`, `_anomaly_busy`, `_emergency_stopped`, publishers per robot | `_on_request`, `_on_release`, `_on_map_points`, `_publish_missions` (1 Hz), `_on_anomaly_trigger/done/resume/captured`, `_on_emergency_stop_all`, `_on_dock_return`, status poll | Control Nodes over `/fleet/...`, backend over `/backend/...` |
| Zone router, route graph (`zone_router.py`, `route_graph.py`) | none (functions) | `build_missions`, `route_to_point` | called by the Fleet Node |
| Robot selector, status, anomaly and dock control | last poses and states | nearest robot, status changes, candidate and target filters | called by the Fleet Node |
| Control Node (`control_node.py`, `mission_flow.py`, `navigation_flow.py`) | `mission`, `granted_point`, flags for emergency, pause, dock, anomaly, resume, captured, docked, recovery attempts, the Python call stack | nine subscription callbacks; `run`, `_run_current_mission`, `_traverse_route_with_crossings`, `_move_to`, `_handle_anomaly`, `_handle_dock`, `_ensure_undocked` | Fleet Node, Nav2, undock action |
| Gate check (`inspection_flow.py`, `gate_check_bridge.py`) | pending response; set of robots with a check in progress | request repeated every 0.5 s, one worker thread per check, 10 s time-out | Control Node, backend `/api/align/check-gate`, vision |
| Backend adapter (`backend_adapter.py`) | points per robot, flush deadline | maps HMI commands to Fleet topics | robot bridge, Fleet Node |
| Robot bridge (`robot_bridge.py`) | sessions, in-flight commands, inbound queue | `publish_command`, `on_command_ack`, `on_disconnect/reconnect`, `_enqueue`, `_consume` | routers, ROS thread, database sink |
| Broadcast (`connection_manager.py`, `ws.py`) | clients, telemetry and event queues | `publish`, `publish_async`, `consumer_loop`, `broadcast` | dashboard sockets |
| Missions (`services/dispatch.py`, `node_lock.py`, `patrol_router.py`, `robot_router.py`) | missions, robots, events in the database; resume cool-down | start, pause, resume, cancel, dispatch, hold, resume from anomaly, emergency stop, dock | robot bridge, broadcast |
| Detection (`services/detection.py`, `vision_bridge.py`, `event_router.py`) | events; inbound queue; latest frames | ingest with a dedup window, automatic dispatch or hold, gate check client | missions, vision nodes |
| Suppression (`services/suppression.py`, `suppression_router.py`) | requests with status, retries, steps | request, approve and execute, abort | actuators (stub) |
| Heartbeat watchdog (`main.py`) | last seen | stale robots become OFFLINE | missions |
| Breaker inspection (`detect_main_node.py`, `detect_station_node.py`) | throttle of the ambient node, camera subscriptions, latest frames, one event | `/backend/check_gate`, `/detection/inspect_gate`, `/detection/set_throttle` | vision bridge, ambient node |
| Detectors (`detect_ambient_node.py`, `detect_cctv_node.py`) | hit windows, miss counts | inference, CamState | vision bridge |
| Dashboard (`hmi/frontend/src`) | pending commands, socket, snapshot | commands with a 5 s time-out, reconnect | backend |

**What is hard.** The Control Node is one thread, but its callbacks run inside
every `spin_once` it makes, so a flag may change at each of the twelve places
where it waits. Interrupts are handled by recursion: a dock order during a move
calls `_handle_dock`, which moves, which may be interrupted again. Requests,
releases and grants are different topics that nothing orders with each other;
requests repeat, answers are late, and a time-out withdraws nothing. On the
backend a ROS thread, pool threads and the event loop share the bridge; every
queue has a bound and a rule for what it forgets; a broadcast awaits one socket
after another while others set out; and the rows of robots and missions are
changed by the operator, by the vision bridge, by telemetry of two nodes on one
topic and by the watchdog, none of which waits for another.

**What makes each component correct.** Fleet Node: one holder per point, and no
holder that will never release; busy robots become free again; emergency stops
reach exactly the robots recorded. Control Node: drives onto a shared point only
with the permission, asks with empty hands, does not resume what a dock order
ended, undocks before it drives. Router: shortest ways through the points of a
zone, and one id for every corridor two routes share. Gate check: an answer
belongs to the gate asked about. Robot bridge: a command stays known until it is
answered, and not longer. Hub: no client stays after its handler, alerts arrive,
and a dashboard shows what was announced of a robot last, but for the exceptions the
property names. Missions: anomalies do not nest by themselves, a row names an open
mission, paused patrols keep their nodes, a stopped robot can be released.
Detection: one report per episode, no second open event in a window unless one
was opened again, no alarm that no camera saw. Incidents: a verdict is a majority;
nothing runs without an approval and a passed interlock, nor out of order.

Every hazard, with its line and the property that covers it, is in
`PROJECT.json` under `hazards`.

## 2. The modules

| module | models |
|---|---|
| `Topics` | the topics between the nodes, as one FIFO queue per robot and topic, and the routes they carry |
| `FleetNode` | `fleet_node.py`, one action per subscription callback |
| `ControlNode` | every robot's `control_node.py` with `mission_flow.py` and `navigation_flow.py` |
| `AmrSystem` | the composition, the operator, the properties, fairness |
| `AisleLock` | the abstract promise: acquire, enter, leave |
| `ZoneRouter` | `route_graph.py` and `zone_router.py`, as operators |
| `RoutedAmr` | `AmrSystem` with the missions and detours `ZoneRouter` makes, and a reference definition of distance |
| `GateCheck` | `inspection_flow.py`, `gate_check_bridge.py`, the backend's check-gate handler |
| `GateService` | the abstract promise of the vision nodes: one answer per check |
| `VisionGate` | `detect_main_node.py`, `detect_station_node.py`, the throttle of `detect_ambient_node.py` |
| `RobotBridge` | `robot_bridge.py` |
| `ConnectionManager` | `connection_manager.py` and `ws.py` |
| `Monitor` | the hub with its producers, `bridge_backend.py` and the request handlers |
| `Missions` | `services/dispatch.py`, `services/node_lock.py`, `patrol_router.py`, `robot_router.py`, `crud/robots.py`, the watchdog of `main.py`, the automatic responses of `vision_bridge.py` |
| `DetectCctv`, `DetectAmbient` | the two detectors |
| `Detection` | the detectors with the vision bridge's queue, `services/detection.py` and `crud/events.py` |
| `Incidents` | `event_router.py`, `suppression_router.py`, `services/suppression.py` |
| `MCAmr`, `MCRouted`, `MCGate`, `MCVision`, `MCBridge`, `MCMonitor`, `MCMissions`, `MCDetection`, `MCIncidents` | their small instances |
| `AmrSystem_proofs`, `GateCheck_proofs`, `VisionGate_proofs`, `RobotBridge_proofs`, `Monitor_proofs`, `Missions_proofs`, `Detection_proofs`, `Incidents_proofs` | the theorems |

How they compose. `FleetNode` and `ControlNode` meet in `AmrSystem`, which leaves
routes open; `RoutedAmr` gives it the routes of `ZoneRouter`. `GateCheck` uses the
cameras by the promise of `GateService` only, and `VisionGate` implements it
(`AnswersChecks`, `ImplementsService`); the step `InspectGate` of `ControlNode`
stands for a whole inspection of `GateCheck`, and `InspectionEnds` is why that
step may be assumed to happen. `Monitor` extends `ConnectionManager`, `Detection`
the two detectors. The three modules about events share the statuses of a row but
no variables: `Detection` ends where an event exists, `Missions` is who is sent to
it, `Incidents` what is decided about it. What one of them abstracts the others
leave open: an event appears at any time in `Missions` and `Incidents`, is closed
at any time in `Detection`, and is assigned at any time in `Incidents`.

### How state and actions correspond to the code

*Topics.* `requests[r]`, `releases[r]` and `grants[r]` are the messages of one
robot in flight on the shared topics; a robot's messages on one topic stay in
order, nothing else does. A grant message names its robot and every other
Control Node drops it (`_on_grant`), so it is put into that robot's queue only;
denials are dropped by all and are not sent. `commands[r]` has one queue for
each of the robot's own topics, `dones[r]` counts `/fleet/anomaly_done`.

*FleetNode.* `occupied` is `_occupied`. `OnRequest` is `_on_request`, a point
that is free or the robot's own being granted; `OnRelease` frees a point only
for its holder. `OnMapPoints` is a zone plan, whose routing is the constant
`ZonePlans`; `registered` is the set of robots whose publishers exist.
`OnAnomalyTrigger` stands for both branches of the callback: self-detected by a
robot, or seen by CCTV, where the nearest candidate may be any robot that passes
the same checks. `OnDockReturn` lifts the emergency stop of its targets too.

*ControlNode.* `pc[r]` is the statement the thread is at, `stack[r]` the
activations of `_run_current_mission` (kind `mission`) and
`_traverse_route_with_crossings` (`anomaly`, `dock`), innermost first. An
interrupt is a `Call`; a handler that returns True is `ReturnTo`, after which
the caller drives the interrupted waypoint again, without asking for its
crossing again. `granted[r]` is `granted_point`. Callbacks fire only at the
labels in `Spinning`.

| label | place in the code |
|---|---|
| `wait_mission` | `_wait_for_mission` |
| `undock`, `undocking` | `_wait_while_emergency_stopped` and `_dock_status`; the undock attempts |
| `next_waypoint` | head of a route loop (no spin) |
| `requesting` | `_request_crossing` |
| `drive` | `_move_to` before its goal is sent (no spin) |
| `moving` | the polling loop of `_move_to` |
| `emergency_hold`, `pause_hold` | `_handle_emergency_stop`, `_handle_pause` |
| `gate` | alignment and `_check_gate` |
| `anomaly_wait`, `anomaly_hold` | the operator's decision in `_handle_anomaly`, and the same under emergency stop |
| `docking` | `navigator.dock()` in `_handle_dock` |
| `patrol_wait` | `wait_until_next_patrol` |

`inside[r]` and `onDock[r]` are physical: the point whose hop the robot is on
(from the start of the drive until the release on arrival, also when the mission
is aborted half-way), and whether it sits on its dock.

*GateCheck.* One robot's side is `amr` and `response`, the callback being able to
run at every spin, also between two gates. Requests carry the robot's name and
nothing else, so `requests[r]` is a number. A check is a worker thread of the
bridge: `worker[k]`, the mark in `inflight`, the state it answers. `handling` and
`recorded` are the backend's handler of its call, which goes on after the bridge
has given up. `heardAt` is auxiliary: the inspection during or after which the
robot heard its answer.

*VisionGate.* `phase[k]` is where the callback of check `k` in `detect_main_node`
is, `station[k]` where that of `detect_station_node` is: `clear`, `cleared`,
`wait` and `read` are the four places of one round of `_collect_frames` between
which image callbacks run, and `writing` is the image callback between storing a
frame and setting the event. Waiting threads are woken by the event although
another thread clears it at once, as `threading.Event` does. `subs` is `_subs`,
`open` the subscriptions that exist. Both executors have `Threads` threads, and a
reply is received only by a free one. The result of `set_throttle` is not looked
at, so its reply and its time-out are one step; the request stays queued in
either case. What a frame shows is an input.

*ZoneRouter.* Pure operators, in the order of the code: `Parts` is the graph after
`insert_point`, `ShortestPath` the loop of Dijkstra's algorithm with the way kept
at each place instead of a predecessor, `RouteZone` the hops of a zone, `Shared`
what two robots use, `MergedBy` the union-find as a map to the root, `Tagged` the
`point_id` of a waypoint, `RouteToPoint` a detour. A patrol point is the place it
snaps to; the projection that finds the place, poses and yaw are left out. They
are recursive functions, so that the proofs about `AmrSystem` are untouched and
TLC evaluates the plans of an instance once. In `RoutedAmr` `Hop(r)` is the hop
behind the waypoint a robot drives to, which lets `OneRobotPerCorridor` speak of
corridors and not of the names robots ask for. An instance gives `Trips`, the
routes with their hops, and `ShortestPlans`, the plans the reference definition of
distance accepts, as constants; `TripsAssumption` and `ShortestAssumption` say that
they are `RoutedTrips` and `PlansByDistance`. `GraphAssumption` is about the graph:
corridors have a length and lead from every node to every other, as those of
`route_graph.yaml` do. `ListsAssumption` is about the lists: zones have points,
and these and where a robot was last heard are places of the graph. The reference
does not search: `Distances` makes the ways from a node longer by one corridor at all
nodes at once, and keeps the least, as often as there are nodes. `ShortestWay` asks that
the hops follow corridors and pass the goals in order, and that no way from one goal
to the next, along their corridor or over the nodes at its ends, is shorter than
what is driven between the two (`Undercut`).

*RobotBridge.* `phase[c]` is where `publish_command` is for a command: on the
event loop emitting and registering are one step, in a pool thread two.
`PoolCommands` are those whose handler is declared `def`, for which FastAPI uses
a pool thread. `resend[r]` is what `on_reconnect` copied under the lock and has
still to emit. `wire` and `inbound` are queues that forget their oldest element.
The environment is the robot, which reads, answers or loses a command, and the
caller of `on_disconnect` and `on_reconnect`: the repository has none outside its
tests, so both happen at any time.

*ConnectionManager, Monitor.* `telemetryQ` and `eventQ` are the two queues;
`casts` are the broadcasts under way, each with the targets it has still to send
to, since `broadcast` computes its targets at once and awaits one send after
another. `handler[c]` is the coroutine of a socket, `alive[c]` the socket itself,
which may break before any send. The robot's row is its version number, `view[c]`
the version a dashboard shows. A request handler and the watchdog commit a new row
and tell of it by one of the lists in `Announcements`, one for each kind of handler:
dock broadcasts nothing, the stop of all robots an alert, start and cancel a
mission, pause and resume a mission and then the status. The first broadcast sets
out with the commit, the next (`HandlerGoesOn`) when the one before has reached its
targets, and may carry the row of the commit or a newer one. A client subscribes to
one of the lists in `Wishes`, of which the code keeps the topics it knows. `due` and
`got`, `told`, `passed` and `missed` are auxiliary: alerts queued and shown; the
newest version announced, whether the last status set out among others or was
pushed out of the full queue by a detection frame, and the clients it was not for.

*Missions.* One action per handler, from its first read to its commit, since
handlers run on one event loop and do not suspend in between. The dock order (and
in `Incidents` the reinspection) is declared `def` and runs in a pool thread; it
writes one status that depends on nothing it read, so its effect is that of one
step at its commit. The exception is
the vision bridge: `decision` holds what it decided before it awaits a broadcast,
`AutoDispatch` and `AutoHold` are what it does after. `status` tells six values
apart; `FREE` stands for all others. `fresh` says that the last frame is younger
than the heartbeat time-out, `cooldown` that the window after a resume is open.
`held` and the field `named` of a mission are auxiliary: a robot stopped where it
is with nobody having decided since, and a mission the operator chose.

*Detection.* An inference sees any set of classes. The timer of the CCTV node infers
all cameras that have a new frame as one batch and handles the results one camera
after another: `done` are the cameras before the one that raises, whose counts are
updated and whose frame counts as new again (`broken`), and those behind it are
not looked at. The run has one such camera, the theorems any number.
`steady` is a camera that sees a class in every inference from now on,
`quiet` and `reports` tell an episode from what the frames show and not from what
the detector counts, `lost` is a report that was dropped from the queue or whose
handling failed; all four are auxiliary. The dedup window of an event is `recent`,
which ends at any time. Events are closed and opened again at any time, which
`set_status` never refuses. The detections of `align_engine.py:133` and `:214` create
events without looking for one in the window and are not modelled.

*Incidents.* Of an event's observations only the strong ones are kept, in their
order, because no verdict counts others. An approval and its commit are one step:
`failing` are the actions that fail each time they are tried. Another exception, or
a commit that fails, rolls the row back to where it waits for its approval
(`ApproveRollsBack`): `done` is what the stored approval of a row carried out, `lost`
what those carried out that were rolled back. `place` and `counts` are what the
interlock reads of the robots, `PersonPage` how many PERSON events of the zone it
looks at, the newest first (20 in the code).

*Steps that were merged.* The back-off and settle waits of the code (one second
after a failed drive, the undock attempts, the cancel window, the ten seconds a
route update is waited for) end in one step: they hold nothing that changes
meanwhile except flags, which the next label reads as the code does. The route
update has no responder in the repository, so `CollisionRisk` goes to the
outcome of its time-out. The mission topic is republished every second with the
current missions, so `OnMission` reads the Fleet Node's variable instead of a
queue. `DecideDock` replaces the anomaly's activation by the dock's, as
`return self._handle_dock()` does. An emergency that arrives while the dock
status is read is met at the next label that looks at it.

## 3. The runs

| run | instance | checks | states |
|---|---|---|---|
| `patrol` | `MCRouted`: two robots go round one corner of the data centre in opposite directions, sharing two corridors and a junction that is merged with one of them; stop and release of all robots | `MutualExclusion`, `OneRobotPerCorridor`, `KeepsAisleLock`, `EveryHoldEnds` | 52,111 |
| `replan` | the same with a second list of zones that sends the robots back, and faults, no operator; deadlock checked | `NoHoldAndWait`, `NoTwoDriving`, `NoOrphanHold`, `MissionsAreShortest` | 469,238 |
| `orders` | `MCAmr`: one robot, all seven commands, four of them, faults | `TypeOK`, `BusyAccounted`, `EmergencyAgreement`, `HoldsWhatFleetRecords` | 1,055,215 |
| `gate` | one robot, two inspections, two workers, two requests in flight, stop on mismatch | `OneCallPerRobot`, `HeardInTime`, `PassIsOnRecord`, `InspectionEnds`, `CallsEnd` | 91,471 |
| `vision_vote` | one check of three frames, four images that show the breaker closed, open or not at all | `VerdictSeen` | 420,172 |
| `vision_two` | checks of two robots on two threads, one image each | `ThrottleRestored`, `NoCameraLeft`, `AnswersChecks` | 271,168 |
| `bridge` | three commands, one from a pool thread, two robots, queues of two | `NothingForgotten`, `AnsweredIsClosed` | 617,100 |
| `hub` | one client, a telemetry queue of two, an event queue of one, three versions of the row, one alert, subscriptions to the log or to everything | `MonitorTypeOK`, `NoClientLeft`, `ShowsWhatWasTold`, `AlertsArrive` | 635,388 |
| `missions` | two robots of which one reports, two nodes, two overlapping routes, two events, three missions, two commands | `NoNestedAnomaly`, `CurrentIsOpen`, `OneHolderPerNode`, `HeldCanBeReleased`, `SilentIsOffline` | 225,549 |
| `detection` | one CCTV and one robot camera, one class, a REST client, a queue of two, two events | `DetectionTypeOK`, `OneReportPerEpisode`, `DuplicatesAreReopened`, `NoFalseAlarm`, `SteadyIsAnEvent` | 366,396 |
| `incidents` | one zone, one event with four strong observations of two labels, one robot, two suppressions of two actions, each rolled back once at most | `OnlyApprovedRuns`, `DoneInOrder`, `VerdictIsMajority` | 1,515,220 |
| `detour_lock` | `MCRouted`: two patrols of one cross-aisle, an anomaly that sends one robot through it | `OneRobotPerCorridor`, violated | |

The constants of the first three and the last: `Robots`, `Points`, `ZonePlans` and
the detours (in `MCAmr` named definitions, in `MCRouted` what `ZoneRouter` makes of
`ZoneLists` on the 13 corridors of `config/route_graph.yaml`), `PromptNetwork` (a
request is answered before it is repeated or given up, and a point is not asked for
while its release is in flight), `Faults` (Nav2, gate checks and docking may fail,
obstacles come close), and three bounds: `MaxInFlight` messages of a robot on a
topic, `MaxCommands` operator commands of the kinds in `OperatorCommands`, and
`MaxRecoveryAttempts`, which is the code's own.

Why these bounds are enough to be interesting:

* *Aisles.* Two robots and two points give the crossing wait in both orders, which
  is all a circular wait needs; two messages in flight let a repetition cross its
  answer; successive hops with one point show a point kept from hop to hop, a
  different next point shows the release on arrival; four commands nest
  two detours and still leave one for the operator's decision. The two lists of
  zones split corridors at nodes and merge a corridor with a junction. Deadlock is
  checked in `replan`, where nothing but the robots and new plans move the system;
  in the other runs the bounded commands run out, and a robot held by an emergency
  stop then rightly waits for good.
* *Gate check.* Two requests in flight let one be dropped and one start a second
  check, two inspections let an answer of the first arrive in the second, and two
  workers overlap. Three frames are the code's `sample_frame_count` and the fewest
  that give a tie among recognised frames; a fourth image lets one be overwritten.
  Two checks on two threads are the executor with all threads waiting. These
  systems stop when their bounded inspections and checks are over, so deadlock is
  not checked; that nobody waits for good is `InspectionEnds`, `CallsEnd` and
  `AnswersChecks`.
* *Bridge.* Three commands fill and overflow a queue of two, two of them go to one
  robot, and one of those two comes from a pool thread.
* *Hub.* Three versions of the row are a status being sent, one queued and one that
  overtakes; an event queue of one is full with one message; a client that narrows
  its subscription and widens it again misses a status in between. A second client
  shares only the table with the first: sends to different clients commute.
* *Missions.* Three missions are a patrol, the anomaly that pre-empts it and a
  second anomaly; two commands are a decision and its reverse. Telemetry, the
  vision bridge, the watchdog and the cool-down are not bounded. Each start names
  one robot, see below.
* *Detection.* Thresholds of two, and two hits in a window of three, are the fewest
  at which a count, its reset and a slide of the window differ; two reports and an
  initial status overflow the queue. `UiStart` is `{TRUE}` because that is all the
  backend publishes.
* *Incidents.* Four observations are two labels with two votes each, the tie; the
  second suppression of the zone may pass where the first was blocked. One approval
  of each that is rolled back, at any point of its actions, is followed by another
  that fails, completes or never comes. The page of the interlock is one event, as
  many as the run has; `interlock` has one more.

### Properties

Aisles:

* `MutualExclusion`: two robots are never on the same shared point.
* `OneRobotPerCorridor`: two robots never drive in one corridor or to one junction,
  whatever the points they asked for are called.
* `NoTwoDriving`: two robots never drive into one point, which must hold even with
  faults.
* `NoHoldAndWait`: a robot asks for a point with no other in its hands.
* `HoldsWhatFleetRecords`: what a robot believes it was granted is recorded.
* `NoOrphanHold`: a recorded holder holds, is being told, or is releasing.
* `MissionsAreShortest`: missions follow corridors and pass the points of their zones
  in order, and no way from one point to the next is shorter than what the mission
  drives between them.
* `BusyAccounted`: the Fleet Node's busy mark equals one dispatch in flight,
  pending, served or reported done.
* `EmergencyAgreement`: robot and Fleet Node agree once the signals are handled.
* `KeepsAisleLock`: refinement of `AisleLock`, with `granted` and `inside`.
* `EveryHoldEnds`: a recorded holder releases unless the operator holds it.

Gate check:

* `OneCallPerRobot`: the bridge has one call open per robot, and marks it exactly
  as long.
* `HeardInTime`: no inspection ends with an answer heard before it began.
* `PassIsOnRecord`: a robot told to go on has a check on record that saw the
  breaker.
* `InspectionEnds`, `CallsEnd`: inspections and calls end whatever fails.
* `VerdictSeen`: a reported position was seen, and not in the minority.
* `ThrottleRestored`: the ambient detector runs at full speed when all is done.
* `NoCameraLeft`: no camera is subscribed between inspections (of two robots).
* `AnswersChecks`: refinement of `GateService`, with its liveness.

Backend:

* `NothingForgotten`: a command whose ACK was not handled is still in flight, also
  when the link breaks or the full queue forgets its ACK.
* `AnsweredIsClosed`: one whose ACK was handled is not, so that no reconnection
  repeats it; a command from a pool thread is excepted, see below.
* `NoClientLeft`: no client is in the table after its handler ended.
* `ShowsWhatWasTold`: with nothing queued or under way a dashboard shows the newest
  state that was announced, or a newer one. It may show an older one if the last
  status was not for it (it had not subscribed, and no snapshot came since), or if
  that status set out while another was queued or being sent or was older itself;
  the next status that sets out alone ends that. A state that no handler announces
  stays unknown: section 3.
* `AlertsArrive`: a queued alert reaches the clients connected then.
* `NoNestedAnomaly`, `CurrentIsOpen`, `OneHolderPerNode`: see section 1.
* `HeldCanBeReleased`: a robot stopped in front of an anomaly stays in the only
  status from which it can be released, until somebody decides.
* `SilentIsOffline`: a silent robot is shown as offline.
* `OneReportPerEpisode`: a class that flickers is reported once.
* `DuplicatesAreReopened`: of two events of a zone and class in the window the older
  was closed when the newer came, and is open only if it was opened again since.
* `NoFalseAlarm`: a message makes an event only of what its camera saw.
* `SteadyIsAnEvent`: what every frame shows becomes an event, unless the report is
  lost or detection stopped.
* `OnlyApprovedRuns`, `DoneInOrder`: actuators run for an approved request whose
  interlock passed, in the order asked for; what the stored approval carried out was
  carried out once, what was rolled back before it had run as well.
* `VerdictIsMajority`: a verdict follows a label with two strong votes that none
  outvotes.

Type invariants: `TypeOK`, `MonitorTypeOK` and `DetectionTypeOK` are checked by the
runs and proved; `GateTypeOK`, `VisionTypeOK`, `BridgeTypeOK`, `MissionsTypeOK` and
`IncidentsTypeOK` are proved, and no run repeats them.

### Fairness

`EveryHoldEnds` is checked under weak fairness of each robot's thread, of its
callbacks, and of each of the Fleet Node's two subscriptions for it: fairness of
the Fleet Node as a whole would let a repeated request starve a release. The
executors serve every subscription that has a message, in turn, and the thread
loops for as long as the process runs; Nav2 goals, undock goals and gate checks all
end by themselves or by a time-out in the code. Nothing is assumed of the operator,
hence the exception in the property.

`InspectionEnds`, `CallsEnd` and `AnswersChecks` are checked under weak fairness
of the threads that wait, each of which has a time-out in the code
(`GATE_CHECK_TIMEOUT_SEC`, `request_timeout_sec`, `service_call_timeout_sec`,
`fresh_frame_timeout_sec`) and of the station and ambient callbacks. Nothing is
assumed of the network, the backend, the cameras, or of who starts detection.

`AlertsArrive` assumes that the event loop runs the consumer task and each send
that is under way; not that a socket lives. `SilentIsOffline` assumes that the
watchdog's `while True` goes on. `SteadyIsAnEvent` assumes that the steady camera
delivers frames, the inference timer fires and the consumer task runs.

### Where the code does not do what the repository says

`detour_lock` is the run that expects a violation; the trace TLC prints is the
scenario. A detour merges a corridor with the junction at its end along its own
route, the patrols merged what they share, and the aisle of the trace has two ids:
two robots drive in it, which `zone_router.py:412` describes as the accident the
canonical ids are there to prevent.

Seven more configurations are kept beside the runs. `tlc -config X.cfg M`
reproduces each of these counterexamples; they are the reasons for the hypotheses of the
properties that pass.

| configuration | module | property | what TLC shows |
|---|---|---|---|
| `detour_retry` | `MCAmr` | `NoTwoDriving` | a detour over the patrol's own aisle gives the aisle back; the interrupted waypoint is then driven without asking again |
| `detour_holds` | `MCAmr` | `NoOrphanHold` | a detour asks for a second point; its grant overwrites the first in `granted_point`, and nobody releases the first |
| `late_grant` | `MCAmr` | `MutualExclusion` | without `PromptNetwork` the second answer to a repeated request arrives after the release and is believed |
| `abort_inside` | `MCAmr` | `MutualExclusion` | an abort releases the aisle the robot stands in |
| `vision_throttle` | `MCVision` | `ThrottledWhileInspecting` | the check that ends first restores the ambient detector under the other |
| `node_lock` | `MCMissions` | `OneHolderPerNode` | a start of two robots looks away from the paused patrols of both (`node_lock.py:93`), so one gets the node the other has paused on |
| `interlock` | `MCIncidents` | `NobodyInside` | the interlock is not looked at again when the request is approved, and an INTRUSION is never looked for (`suppression_router.py:73`) |

Met while modelling. Robots and gate check:

* A second dock order nests in the first (`control_node.py:829`); the outer
  handler takes the inner's success for a failure and goes on patrolling.
* An anomaly during the ten-minute wait is driven to from the dock, without the
  undocking that precedes a mission (`control_node.py:940`).
* An undock goal that is not accepted in time is sent again
  (`control_node.py:690`).
* A patrol point that repeats the one before it gives no waypoint, and its gate
  check is lost.
* The bridge forgets a check before it has published the answer
  (`gate_check_bridge.py:123`); a repeated request then starts a second check,
  whose answer may come at the next gate.
* A tie of frames is reported as open (`detect_station_node.py:182`); a frame
  stored before its predecessor is read votes twice (`:138`); two overlapping
  checks of one robot leave a camera subscription open (`:121`).
* The backend adapter turns RESET of one robot into the release of all
  (`backend_adapter.py:276`) and drops the robot the backend chose (`:293`).
* CANCEL only leaves a robot out of the next plan, and the robot drives its patrol
  on: a plan made for the other robot alone shares nothing with it, so its hops get
  no point to ask for (`backend_adapter.py:318`, `fleet_node.py:250`).
* A start during the drive to the dock clears `docked` before the dock handler sets
  it (`backend_adapter.py:230`, `control_node.py:285`, `:838`): the robot docks and
  the start is lost.

Missions:

* A robot in INSPECTING that the watchdog shows as OFFLINE, or whose status
  telemetry overwrites with another than a patrolling one, cannot be released any
  more: the resume asks for INSPECTING. Telemetry overwrites EMERGENCY_STOP as well.
* Resuming from an anomaly revives the newest pre-empted patrol, also one the
  operator had paused, and without one clears the current mission of a robot whose
  patrol runs (`dispatch.py:239`).
* A second emergency stop saves EMERGENCY_STOP as the checkpoint
  (`robot_router.py:64`).
* A dispatch that names a robot only checks that it exists; the automatic one does
  not look at the event again, which may have been closed
  (`vision_bridge.py:336`).
* Commands are published before the transaction that records them commits
  (`dispatch.py:165`).

Bridge and hub:

* A command from a pool thread may be answered before it is registered; it then
  stays in flight, and a reconnection sends it again (`robot_bridge.py:241`).
  Nothing in the repository calls `on_reconnect` but the tests.
* A full event queue drops alerts and logs, although the queue is described as one
  that drops nothing (`connection_manager.py:142`).
* Dock (`robot_router.py:169`) broadcasts nothing; start and cancel of a patrol
  (`patrol_router.py:267`, `:391`), dispatch, and the stop of all robots
  (`robot_router.py:53`) commit a state of a robot and broadcast only missions, events
  or an alert. A dashboard shows the new state with the next status the robot sends.
* The watchdog broadcasts one robot after the other; the OFFLINE of a later one may
  set out when the robot has been heard again (`main.py:42`).
* A battery of 1 on the scale to 100 is read as 100 % (`robot_bridge.py:322`).

Events and suppression:

* Verdict, review, reinspection and the automatic dispatch open a closed event again
  (`event_router.py:205`, `:234`, `:246`, `vision_bridge.py:349`), also when another
  one was created in its window meanwhile, so that both are open; two strong
  observations of UNKNOWN confirm an event.
* A fire that still burns after its event was closed is not reported again: the
  detectors report a change, and only of one that was gone for a while. The ambient node keeps
  its active classes when detection is stopped and started.
* EVACUATE is carried out only when the interlock passed
  (`suppression_router.py:132`), and only the newest 20 PERSON events are looked at.
* Actuators run before the commit of the approval (`suppression_router.py:199`). An
  exception other than ActuatorError, a commit that fails or a crash in between leaves
  a request that can be approved, and run, again: `lost` in the model.

## 4. What is proved

TLAPS proves, for any sets of robots, points, checks, commands, events and zones,
any plans and routes, and any bounds:

| theorem | assumes of the constants | states |
|---|---|---|
| `TypeCorrect` | nothing more | `Spec => []TypeOK` |
| `StopsAgree` | nothing more | `Spec => []EmergencyAgreement`, with detours and faults |
| `GrantsAreRecorded` | `PromptNetwork` | `Spec => []HoldsWhatFleetRecords`, with detours and faults |
| `BusyIsAccounted` | nothing more | `Spec => []BusyAccounted`, with detours and faults |
| `NoOrphans` | `PromptNetwork`, no detours | `Spec => []NoOrphanHold`, with faults and new plans |
| `NoTwoDrive` | `PromptNetwork`, no detours | `Spec => []NoTwoDriving`, with faults and new plans |
| `OneInCorridor` | and one list of zones that names every robot, whose routes are the plans | `Spec => []OneRobotPerCorridor`, with faults |
| `LedByShortestWays` | the plans are those the router makes of the lists | `Spec => []MissionsAreShortest`, with detours, faults and new plans |
| `ShortestPathIsShortest` | of a split graph: the goal can be reached | `ShortestPath` is a way to the goal, and none is shorter |
| `AsksEmptyHanded` | as for `NoTwoDrive` | `Spec => []NoHoldAndWait` |
| `Exclusion` | the same, and no faults | `Spec => []MutualExclusion` |
| `ImplementsAisleLock` | the same, and no faults | `Spec => KeepsAisleLock` |
| `GateTypeCorrect` | nothing more | `GateSafety => []GateTypeOK` |
| `OneCall` | nothing more | `GateSafety => []OneCallPerRobot` |
| `NothingStale` | nothing more | `GateSafety => []HeardInTime` |
| `PassesOnRecord` | nothing more | `GateSafety => []PassIsOnRecord` |
| `RestoresThrottle` | nothing more | `VisionSafety => []ThrottleRestored` |
| `ImplementsService` | nothing more | `VisionSafety => Service!ServiceSafety` |
| `VisionTypeCorrect` | nothing more | `VisionSafety => []VisionTypeOK` |
| `ClosesCameras` | no two checks look through one camera | `VisionSafety => []NoCameraLeft` |
| `VerdictFollowsFrames` | nothing more | `VisionSafety => []VerdictSeen` |
| `BridgeTypeCorrect` | nothing more | `Spec => []BridgeTypeOK` |
| `ForgetsNothing` | nothing more | `Spec => []NothingForgotten` |
| `AnsweredStaysClosed` | nothing more | `Spec => []AnsweredIsClosed` |
| `HubTypeCorrect` | nothing more | `Spec => []MonitorTypeOK` |
| `TableIsListening` | nothing more | `Spec => []NoClientLeft` |
| `DashboardsCatchUp` | nothing more | `Spec => []ShowsWhatWasTold` |
| `MissionsTypeCorrect` | nothing more | `Spec => []MissionsTypeOK` |
| `NestsNoAnomaly` | nothing more | `Spec => []NoNestedAnomaly` |
| `NamesOpenMission` | nothing more | `Spec => []CurrentIsOpen` |
| `HeldStaysReleasable` | nothing more | `Spec => []HeldCanBeReleased` |
| `NodesHaveOneHolder` | each start names one robot | `Spec => []OneHolderPerNode` |
| `DetectionTypeCorrect` | nothing more | `Spec => []DetectionTypeOK` |
| `ReportedOnce` | nothing more | `Spec => []OneReportPerEpisode` |
| `OnlyReopenedDuplicates` | nothing more | `Spec => []DuplicatesAreReopened` |
| `OnlySeenBecomesEvent` | nothing more | `Spec => NoFalseAlarm` |
| `IncidentsTypeCorrect` | nothing more | `Spec => []IncidentsTypeOK` |
| `RunsOnlyApproved` | nothing more | `Spec => []OnlyApprovedRuns` |
| `RunsInOrder` | nothing more | `Spec => []DoneInOrder` |
| `JudgesByMajority` | nothing more | `Spec => []VerdictIsMajority` |

"Nothing more" is more than the named assumptions the modules declare beside their
constants, which every run evaluates.

The argument for the aisles has three layers, the sections of `AmrSystem_proofs`.
*Types*: a type is not inductive by itself, since a waypoint is looked up in the route of the top
frame; `StackShapes` says that only a loop about to look at its next waypoint
may be past the last one, that a frame waiting below it is not, and that a
request is made only at a shared waypoint. `StopsAgree` needs no more than those
types: the last signal on its way to a robot is the Fleet Node's word on it, and
only the callback that takes a signal writes what the robot believes.
*Crossings*: a robot has at
most one open exchange with the Fleet Node at a time. `RequestFlow` says that a
message about a point in flight belongs to the request the thread is waiting on,
and `GrantRecorded` that the Fleet Node's table already names the robot for a
grant in flight or believed, with no release of that point behind it. It needs
`PromptNetwork`: without it a release frees what a later request was granted.
*Patrols*: without detours the stack is one mission, and `PatrolInv`
relates where the thread is to what it holds: driving on a shared waypoint means
holding it, asking means holding nothing. Two robots that hold the same point
would both be recorded as its holder, which is a function. Without faults a
robot is on a point only while it holds it, which gives `Exclusion`, and every
step is an `Acquire`, an `Enter`, a `Leave` or a stutter of the lock. `NoOrphans`
follows each record to its end: a robot that patrols gives back the very point it
holds (`ReleasesItsOwn`), so what leaves its hands is in `releases`, and a grant is
taken out of its queue only by a robot that still wants it, which `RequestFlow` says.
A detour breaks exactly this: its grant overwrites the point in `granted_point`, which
is why the theorem has to exclude detours (`detour_holds` is the counterexample).

`NoTwoDrive` speaks of point_ids; `OneInCorridor` says what they are for, of the
corridors and junctions behind them. Two robots whose hops meet both use a resource,
so it is shared (`UsedByTwo`), and each of the two hops asks for the id of that
resource (`AsksForShared`): a hop that needs a shared corridor and a shared junction
has merged the two, and what is merged once stays merged (`MergedTogether`). The two
hops therefore ask for one id (`MeetingHopsShare`), and `NoTwoDrive` lets only one of
the robots drive. That a robot's waypoint is the one made of its hop is the invariant
`OnPlans`: the route of a frame is that of a plan. The hypothesis of one list is
needed: the ids of a second list may be other ones, and a robot still on the first
would ask for another point. A detour breaks the property, see `detour_lock`. The
union-find and the list of all hops are recursive functions. That such a function
exists, and what it holds after each hop, is proved with `AllNumbers`, an induction in which a
set stands for what holds of a number, since no operator can. Of the constants
the theorem uses `ListsAssumption` and `GraphAssumption`: where the graph does not lead
from one point to the next, `shortest_path` raises (`route_graph.py:187`) and the list is
not applied.

For `LedByShortestWays` the missions are one of the plans by a simple invariant; the
work is in the router. `SearchInv` is what each turn of the search keeps: every way it
found is one whose length adds up along parts of the graph (`Leads`), the ways to one
place are of one length, the parts from a visited place were taken account of
(`Relaxed`), and no place that waits is nearer than one that was visited (`Nearer`).
A turn visits one place more, so that after as many turns as there are places the goal
is among them (`SearchFinds`). The invariant is turned into one function of the
places, the gauge: the length found, cut off at the length of the way to the goal. It is 0
at the start, at a part's end at most its length more than where the part begins, and at
the goal it is the length of the way (`PathIsShortest`). Whatever adds up lengths of
parts from the start to the goal is then at least as long, which is
`ShortestPathIsShortest`, for every graph. What the reference adds up are lengths of
corridors, which the patrol points have split: between two stops of one corridor a
gauge grows by at most what is between them (`GaugeAlong`, from neighbour to
neighbour by `AlongStops`), so it does along a corridor, along the walks of the
reference (`GaugeOnDistances`) and over the exits of both places (`NotUndercut`). That
every point can be reached is the connected graph (`AllReached`). A leg is driven as
its parts say (`EmitHopIsLeg`), legs are joined one by one, with the hop at which
each goal is passed (`OneMoreLeg`, `JoinedRides`), and the miles of the reference are
those of the joined hops (`MileageIs`).

`BusyIsAccounted` needs none of that and holds with detours that nest and fail:
`AccountOK` counts, for each robot, the dispatches in its topic, the one pending,
the route loops on its stack that answer an anomaly, and the reports under way; they are
one if it is busy and none if not. The count over the stack needs `KindsOK`: a
mission is only ever at the bottom of the stack, and what the thread does fits the
loop it is in. An interrupt pushes one loop and takes the pending order with it, a
loop that ends is popped and reports once, and an aborted mission drops no loop
that has still to report, because it is the only one there.

For the gate check, `CheckInv` adds to the properties that a check is recorded
once and that `ok` comes only from a record (`Recorded`, `OkIsRecorded`); a call
that ends clears the mark of its robot because no other call of it is open. For
the throttle, what matters is not the flag but what it will be when the queue of
requests is served (`Settled`): the last request is a restoring one unless some
check has still to send its own, which each does on every path. For the service,
`AnsweredIsDone` says that exactly the finished checks have an answer.
For the cameras, `OpenIsStored` says that every open subscription is the one stored
for the camera of some check still under way; it is inductive only when no second
check can take the stored one's place, which is what `ClosesCameras` assumes. The
types of the inspection need `RoundsLeft` (a check in the collecting loop has made
fewer rounds than it may) and `CalledOnce` (the station works for a check only once
`detect_main` has called it).

For the verdict, `Judged` says that a check keeps what it was told from the frames
that it has read and that these are not exchanged afterwards; the rest is that two
disjoint sets of frames cannot both be more than half of them (`Halves`).

For the bridge, `BridgeInv` adds `OnlyIssued`: what is in flight, to be sent again,
on the topic or in the inbound queue was issued before, and only a pool thread lets
go between sending and registering. An ACK that is handled is therefore one of a
command that is registered already, or of a pool command.

For the hub, `NoClientLeft` follows from the types and the order in which a handler
registers and leaves. `ShowsWhatWasTold` speaks of an idle hub, so its invariant has
to say where the news is while the hub is not idle: `WillArrive`, that a queue that
holds a status has the newest announced one last, or, after a status was passed, holds
older ones only, and that without a status in the queue, unless it was passed, the newest
is in every broadcast of a status under way and every client it was meant for either
shows it, or a newer one, or is still to be sent it.

For the missions, `NoNestedAnomaly` is not inductive: the selection looks at the
newest running mission only, and an older anomaly could hide behind a patrol.
`Alone` excludes it: after a running anomaly that nobody named, its robot gets no
patrol and no anomaly that runs, unless it was named. `MissionsInv` is `Alone` with
`CurrentIsOpen` and the types, which the lemmas preserve action by action. That the
bridge's decision is taken before an await and carried out after it needs no
hypothesis, because `AutoHold` and `Candidates` look again. For `HeldCanBeReleased` every action is
looked at from the robot it does not touch: `RowsStayOf` says that a robot's rows
stay as they are, so that `in_anomaly_hold` answers for it as before; the handlers that do
change its rows are decisions, which end the hold. For `OneHolderPerNode`, an open patrol is new
only in a start, which has asked for the nodes of all others before (`NodesStay` for the rest);
a start of two robots breaks it, see `node_lock` above, hence the hypothesis.

For detection, `DuplicatesAreReopened` is inductive as it stands: a new event is only
added when no open one is in its window, and an event that was not open comes back as
one that was opened again. Beside it `DetInv` ties what the detectors count to what the cameras saw:
`CctvEpisodes` and `AmbientEpisodes` say that the misses a detector has counted of an
active class are the frames since its camera last saw it, so that a class is
inactive exactly when its episode is over, and `ReportsTrue` that every report in the queue
was sent for a class its camera saw, which is what makes `NoFalseAlarm`, a property
of the step that takes it out, hold.

For the suppressions, `IncidentsInv` adds `Waiting`: a request that waits for its
approval has passed its interlock and no approval of it is stored. `FirstFailing`
is the lemma that the search for the first failing action finds it, and with it
`CarriedOut` is the longest beginning of the list without one. For the verdicts, a label with the most
votes exists and among those one that was first (`WinnerExists`, by the least number of
votes missing and the least place); no other can beat it, so it is what the code finds.

Each inductive invariant was checked by TLC before it was proved; `SearchInv` and the
gauge, which are about one evaluation of a function, TLC checks by what they yield: that
the plans of the instance are those the reference accepts (`ShortestAssumption`).
Every safety property a passing run checks is proved, under the hypotheses the table
names. Only model-checked is
liveness (`EveryHoldEnds`, `InspectionEnds`, `CallsEnd`, the liveness of
`AnswersChecks`, `AlertsArrive`, `SilentIsOffline`, `SteadyIsAnEvent`), which with
ENABLED is beyond the prover.

## 5. Abstractions, and what is not modelled

* In `AmrSystem` routing is the constants `ZonePlans`, `AnomalyRoutes` and
  `DockRoutes`: any routes, which is what the theorems are about. `MCRouted` gives
  them the router's values.
* A waypoint keeps its point and whether it has a gate; poses and yaw are gone, and
  so is the snapping of a point or of an anomaly to the graph.
* The visual alignment at a gate and the attempts of the undock action are one step
  of `ControlNode` each.
* Topics between the robots' nodes do not lose messages: their depth of ten is not
  reached within `MaxInFlight`. The command link of `RobotBridge` does lose them.
* The nodes of the robots persist nothing; a crash of one is a restart of the system,
  and is not modelled. A crash of the backend between an effect and its commit is
  modelled only as the rollback of an approval; section 3 names the places.
* `BackendAdapter` (the debounced start of several robots, the mapping of a
  robot's commands to topics for all) is not modelled; its hazards are listed.
* Robot selection and robot status are thresholds on distances and are open choices
  in `OnAnomalyTrigger`, `Candidates` and `Telemetry`.
* Inference, box fusion, colour detection, homography and alignment scores are
  arithmetic on images: what they see is an input.
* The dashboard, schemas, CRUD of equipment, maps and statistics, timelines and
  pictures of events, and the demonstration scripts have no protocol of their own.

## 6. Plan

1. Done: topics, Fleet Node, Control Node, composition, abstract lock, proofs.
2. Done: `GateCheck`, `GateService`, `VisionGate`, with their proofs.
3. Done: `ZoneRouter` and `RoutedAmr`; `RobotBridge`, `Missions` and `Incidents` with
   their proofs; `ConnectionManager` and `Monitor`; `DetectCctv`, `DetectAmbient` and
   `Detection`.
4. Left: `BackendAdapter` between `Missions` and `FleetNode`, with the property that a
   robot the backend shows as stopped is stopped; the attempts of the undock action;
   lossy topics between the robots' nodes; a crash between effect and commit.
5. Left to prove: that a detour which fails gives back all it was granted.
