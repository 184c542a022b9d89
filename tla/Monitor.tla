------------------------------- MODULE Monitor -------------------------------
(***************************************************************************)
(* The hub fed by its two kinds of producers.  BackendSink                  *)
(* (app/bridge_backend.py) commits what a robot sends and queues it, on the *)
(* event loop; request handlers and the watchdog change the same row and    *)
(* tell of it past the queues: at once, after other broadcasts, or never.   *)
(* A robot's row is known by its version, a count of its commits.           *)
(***************************************************************************)
EXTENDS ConnectionManager

CONSTANTS Wishes,           \* the topic lists a client may subscribe to
          MaxRow,           \* bound on the versions of the row
          MaxAlerts         \* bound on the safety events

ASSUME BoundAssumption == MaxRow \in Nat /\ MaxAlerts \in Nat

VARIABLES row,              \* the version of the robot's row
          alerts,           \* safety events handled so far
          speaking,         \* coroutines in the middle of their broadcasts
          told,             \* the newest version announced, queued ones included
          passed,           \* whether the last status set out amid others (below)
          missed            \* the clients the last status that set out was not for

announced == <<told, passed, missed>>
vars == <<hubVars, row, alerts, speaking, announced>>

Init == /\ HubInit /\ row = 0 /\ alerts = 0 /\ speaking = {}
        /\ told = 0 /\ passed = FALSE /\ missed = {}

(***************************************************************************)
(* BackendSink.                                                             *)
(***************************************************************************)
Statuses(q) == {i \in DOMAIN q : q[i].type = "ROBOT_STATUS"}

\* robot_status: the publication follows the commit; an error in the
\* transaction rolls back and publishes nothing.
RobotStatus ==
    /\ row < MaxRow
    /\ row' = row + 1 /\ told' = row + 1
    /\ Publish(Status(row + 1))
    /\ UNCHANGED <<alerts, speaking, passed, missed>>

\* safety_event: the alert goes out whether or not the error was recorded.
SafetyEvent ==
    /\ alerts < MaxAlerts
    /\ alerts' = alerts + 1
    /\ Publish(Alert(alerts + 1))
    /\ UNCHANGED <<row, speaking, announced>>

CommandAck == Publish(Log) /\ UNCHANGED <<row, alerts, speaking, announced>>

\* A frame that takes the place of the only status that waits: see passed.
DetectionFrame ==
    /\ Publish(Detection)
    /\ passed' = (passed \/ (Statuses(telemetryQ) # {} /\ Statuses(telemetryQ') = {}))
    /\ UNCHANGED <<row, alerts, speaking, told, missed>>

(***************************************************************************)
(* Request handlers and the watchdog.                                       *)
(***************************************************************************)
\* What one of them broadcasts after it committed a new state of the robot:
\* nothing (dock), the alert of emergency_stop_all, the missions and events of
\* start, cancel, dispatch and hold, the state (resume, emergency_stop, the
\* first robot the watchdog finds offline), the state and then a mission
\* (anomaly_resume), the state after a mission (pause_patrol, resume_patrol)
\* or after another robot's (the watchdog).
Announcements ==
    {<<>>, <<"SYSTEM_ALERT">>, <<"MISSION_STATUS">>, <<"ROBOT_STATUS">>,
     <<"ROBOT_STATUS", "MISSION_STATUS">>, <<"MISSION_STATUS", "ROBOT_STATUS">>}

StatusUnderWay == \E k \in casts : k.msg.type = "ROBOT_STATUS"

\* What the state is known by when type is the next message.
Message(type, v) == [type |-> type, v |-> IF type = "ROBOT_STATUS" THEN v ELSE 0]

\* A status sets out past one that is queued or being sent, or is itself older
\* than one that was announced.
Announce(type, v, by) ==
    /\ PublishAsync(Message(type, v), by)
    /\ IF type = "ROBOT_STATUS"
          THEN /\ passed' = (StatusUnderWay \/ Statuses(telemetryQ) # {} \/ v < told)
               /\ told' = IF v < told THEN told ELSE v
               /\ missed' = Clients \ Targets(Message(type, v))
          ELSE UNCHANGED announced

Remain(by, list) == IF list = <<>> THEN {} ELSE {[by |-> by, list |-> list]}

\* The commit and the first broadcast: nothing suspends in between.
HandlerChangesRobot ==
    /\ row < MaxRow
    /\ row' = row + 1
    /\ \E list \in Announcements :
           IF list = <<>>
              THEN UNCHANGED <<hubVars, speaking, announced>>
              ELSE /\ Announce(Head(list), row + 1, row + 1)
                   /\ speaking' = speaking \cup Remain(row + 1, Tail(list))
    /\ UNCHANGED alerts

\* The next broadcast, once the one before has been sent to everybody.  Its
\* payload is of the commit (the watchdog) or read again (expire_on_commit).
HandlerGoesOn ==
    /\ \E s \in speaking :
           /\ \E v \in {s.by, row} : Announce(Head(s.list), v, s.by)
           /\ speaking' = (speaking \ {s}) \cup Remain(s.by, Tail(s.list))
    /\ UNCHANGED <<row, alerts>>

(***************************************************************************)
(* The system.                                                              *)
(***************************************************************************)
Produce == \/ RobotStatus \/ SafetyEvent \/ CommandAck \/ DetectionFrame
           \/ HandlerChangesRobot \/ HandlerGoesOn

Rest == <<row, alerts, speaking, announced>>

Send(c) == (\E k \in casts : Deliver(k, c)) /\ UNCHANGED Rest

\* A status the consumer takes sets out among others, or a newer one did before.
Consume ==
    /\ ConsumerTake
    /\ IF eventQ = <<>> /\ Head(telemetryQ).type = "ROBOT_STATUS"
          THEN /\ passed' = (StatusUnderWay \/ Head(telemetryQ).v # told)
               /\ missed' = Clients \ Targets(Head(telemetryQ))
          ELSE UNCHANGED <<passed, missed>>
    /\ UNCHANGED <<row, alerts, speaking, told>>

Client(c) == /\ \/ (Connect(c, row) \/ SendSnapshot(c, row)) /\ missed' = missed \ {c}
                \/ /\ \/ \E wanted \in Wishes : Subscribe(c, wanted)
                      \/ SocketDies(c) \/ HandlerEnds(c)
                   /\ UNCHANGED missed
             /\ UNCHANGED <<row, alerts, speaking, told, passed>>

Next == Produce \/ Consume \/ \E c \in Clients : Send(c) \/ Client(c)

\* The event loop runs every coroutine that is ready: the consumer and each send.
Fairness == /\ WF_vars(Consume)
            /\ \A c \in Clients : WF_vars(Send(c))

Spec == Init /\ [][Next]_vars /\ Fairness

-----------------------------------------------------------------------------
Types == {"ROBOT_STATUS", "MISSION_STATUS", "DETECTION", "SYSTEM_ALERT", "LOG"}
Messages == [type : Types, v : 0 .. (MaxRow + MaxAlerts)]

\* Every variable holds what its declaration says, and no queue exceeds its size.
MonitorTypeOK ==
    /\ handler \in [Clients -> {"new", "listening", "ended"}]
    /\ alive \in [Clients -> BOOLEAN]
    /\ clients \subseteq Clients
    /\ topics \in [Clients -> SUBSET Topics]
    /\ Len(telemetryQ) <= QueueSize /\ Len(eventQ) <= EventQueueSize
    /\ \A k \in casts : k.msg \in Messages /\ k.to \subseteq Clients /\ k.to # {}
    /\ view \in [Clients -> 0 .. row] /\ row <= MaxRow /\ alerts <= MaxAlerts
    /\ told \in 0 .. row /\ passed \in BOOLEAN /\ missed \subseteq Clients

\* A client whose handler ended is not in the table broadcasts use, although a
\* late subscribe request enters a dropped client again (connection_manager.py:87).
NoClientLeft == \A c \in clients : handler[c] = "listening"

\* When nothing is queued or being sent, a client shows the newest state that was
\* announced, or a newer one: telemetry dropped for newer telemetry
\* (connection_manager.py:136) and broadcasts past the queues (146) leave no
\* dashboard behind for good.  A client may show an older state if the last status
\* that set out was not for it, and the hub if that status set out among others
\* or a detection frame took its place, until the next status sets out alone.
\* Of a state that no handler announces, as of dock (robot_router.py:169), a
\* client may know nothing.
ShowsWhatWasTold ==
    telemetryQ = <<>> /\ casts = {} /\ ~passed =>
        \A c \in clients \ missed : alive[c] => view[c] \in told .. row

\* An alert that was queued while a client was connected reaches this client,
\* whatever it subscribed to, unless its socket breaks.
AlertsArrive ==
    \A c \in Clients, n \in 1 .. MaxAlerts :
        (Alert(n) \in due[c]) ~> (Alert(n) \in got[c] \/ ~alive[c])
=============================================================================
