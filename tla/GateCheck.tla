------------------------------ MODULE GateCheck ------------------------------
(***************************************************************************)
(* The gate check from the robot to the vision service and back: the       *)
(* Control Node (inspection_flow.py) repeats its request until an answer   *)
(* comes, the bridge (gate_check_bridge.py) runs one worker thread per     *)
(* check, the backend asks the vision nodes (GateService) and records what *)
(* they say.  A check is named here; its messages carry only the robot.    *)
(***************************************************************************)
EXTENDS GateService, Sequences, FiniteSets

CONSTANTS
  Robots,
  AbortOnMismatch,  \* parameter of the bridge, FALSE as delivered
  MaxGates,         \* bound on the inspections of a robot
  MaxInFlight,      \* bound on its requests in flight
  NoCheck, NoRobot

ASSUME GateCheckAssumption ==
  /\ AbortOnMismatch \in BOOLEAN
  /\ MaxGates \in Nat
  /\ MaxInFlight \in Nat \ {0}
  /\ NoCheck \notin Checks
  /\ NoRobot \notin Robots

VARIABLES
  amr,       \* what the Control Node does
  gate,      \* how many inspections it has begun
  response,  \* _gate_check_response, as the check it answers
  heardAt,   \* the inspection begun last when that response was heard (auxiliary)
  requests,  \* messages in flight on gate_check_request
  replies,   \* messages in flight on gate_check_response
  inflight,  \* _inflight of the bridge
  worker,    \* the thread of a check
  robotOf,   \* the robot it was started for
  outcome,   \* the state it answers
  handling,  \* the backend's request handler of a check
  recorded   \* the error_state it recorded

amrVars     == << amr, gate, response, heardAt >>
topicVars   == << requests, replies >>
bridgeVars  == << inflight, worker, robotOf, outcome >>
backendVars == << handling, recorded >>
vars == << amrVars, topicVars, bridgeVars, backendVars, serviceVars >>

GateInit ==
  /\ amr = [r \in Robots |-> "driving"]
  /\ gate = [r \in Robots |-> 0]
  /\ response = [r \in Robots |-> NoCheck]
  /\ heardAt = [r \in Robots |-> 0]
  /\ requests = [r \in Robots |-> 0]
  /\ replies = [r \in Robots |-> << >>]
  /\ inflight = {}
  /\ worker = [k \in Checks |-> "unused"]
  /\ robotOf = [k \in Checks |-> NoRobot]
  /\ outcome = [k \in Checks |-> "none"]
  /\ handling = [k \in Checks |-> "idle"]
  /\ recorded = [k \in Checks |-> NoCode]
  /\ ServiceInit

-----------------------------------------------------------------------------
(* Control Node *)

\* Mutant: the last answer is kept.
BugKeepsAnswer(r) ==
  /\ amr[r] # "inspecting"
  /\ gate[r] < MaxGates
  /\ amr' = [amr EXCEPT ![r] = "inspecting"]
  /\ gate' = [gate EXCEPT ![r] = @ + 1]
  /\ UNCHANGED << response, heardAt, topicVars, bridgeVars, backendVars, serviceVars >>

\* The robot reaches a waypoint with a gate, on this mission or, after a
\* failure, on a later one.
InspectGate(r) ==
  /\ amr[r] # "inspecting"
  /\ gate[r] < MaxGates
  /\ amr' = [amr EXCEPT ![r] = "inspecting"]
  /\ gate' = [gate EXCEPT ![r] = @ + 1]
  /\ response' = [response EXCEPT ![r] = NoCheck]
  /\ UNCHANGED << heardAt, topicVars, bridgeVars, backendVars, serviceVars >>

Waiting(r) == amr[r] = "inspecting" /\ response[r] = NoCheck

RepeatRequest(r) ==
  /\ Waiting(r)
  /\ requests[r] < MaxInFlight
  /\ requests' = [requests EXCEPT ![r] = @ + 1]
  /\ UNCHANGED << amrVars, replies, bridgeVars, backendVars, serviceVars >>

\* The callback runs whenever the node spins, except between hearing an answer
\* and acting on it.
OnResponse(r) ==
  /\ replies[r] # << >>
  /\ amr[r] # "inspecting" \/ Waiting(r)
  /\ response' = [response EXCEPT ![r] = Head(replies[r])]
  /\ heardAt' = [heardAt EXCEPT ![r] = gate[r]]
  /\ replies' = [replies EXCEPT ![r] = Tail(@)]
  /\ UNCHANGED << amr, gate, requests, bridgeVars, backendVars, serviceVars >>

EndInspection(r, next) ==
  /\ amr' = [amr EXCEPT ![r] = next]
  /\ UNCHANGED << gate, response, heardAt, topicVars, bridgeVars, backendVars,
                  serviceVars >>

TakeAnswer(r) ==
  /\ amr[r] = "inspecting"
  /\ response[r] # NoCheck
  /\ EndInspection(r, IF outcome[response[r]] = "ok" THEN "driving" ELSE "aborted")

\* Mutant: the robot waits for an answer for good.
BugWaitsForever(r) == FALSE

InspectionTimeout(r) ==
  /\ Waiting(r)
  /\ EndInspection(r, "aborted")

-----------------------------------------------------------------------------
(* Bridge *)

\* Mutant: the robot is not marked when its check starts.
BugNotMarked(r) ==
  /\ requests[r] > 0
  /\ requests' = [requests EXCEPT ![r] = @ - 1]
  /\ \/ /\ r \in inflight
        /\ UNCHANGED bridgeVars
     \/ /\ r \notin inflight
        /\ \E k \in Checks :
             /\ worker[k] = "unused"
             /\ worker' = [worker EXCEPT ![k] = "calling"]
             /\ robotOf' = [robotOf EXCEPT ![k] = r]
        /\ UNCHANGED << inflight, outcome >>
  /\ UNCHANGED << amrVars, replies, backendVars, serviceVars >>

\* A request of a robot with a check in progress is dropped.
OnRequest(r) ==
  /\ requests[r] > 0
  /\ requests' = [requests EXCEPT ![r] = @ - 1]
  /\ \/ /\ r \in inflight
        /\ UNCHANGED bridgeVars
     \/ /\ r \notin inflight
        /\ inflight' = inflight \cup {r}
        /\ \E k \in Checks :
             /\ worker[k] = "unused"
             /\ worker' = [worker EXCEPT ![k] = "calling"]
             /\ robotOf' = [robotOf EXCEPT ![k] = r]
        /\ UNCHANGED outcome
  /\ UNCHANGED << amrVars, replies, backendVars, serviceVars >>

\* Mutant: only a mismatch stops the robot.
BugUnseenPasses(code) == IF code = 1 THEN "fail" ELSE "ok"

\* error_state to the state the robot is told.
StateOf(code) ==
  IF code = 0 \/ (code = 1 /\ ~ AbortOnMismatch) THEN "ok" ELSE "fail"

\* The finally of _run_check: the check is no longer in progress, whether the
\* call returned or raised, and the answer is not published yet.
LeaveCall(k, next) ==
  /\ inflight' = inflight \ {robotOf[k]}
  /\ worker' = [worker EXCEPT ![k] = next]
  /\ UNCHANGED << amrVars, topicVars, robotOf, backendVars, serviceVars >>

CallReturns(k) ==
  /\ worker[k] = "calling"
  /\ recorded[k] # NoCode
  /\ outcome' = [outcome EXCEPT ![k] = StateOf(recorded[k])]
  /\ LeaveCall(k, "answering")

\* No connection, an HTTP error, or the time-out of the request.
CallFails(k) ==
  /\ worker[k] = "calling"
  /\ outcome' = [outcome EXCEPT ![k] = "fail"]
  /\ LeaveCall(k, "answering")

\* Mutant: the mark is removed only if the call returns.
BugMarkStays(k) ==
  /\ worker[k] = "calling"
  /\ worker' = [worker EXCEPT ![k] = "done"]
  /\ UNCHANGED << amrVars, topicVars, inflight, robotOf, outcome, backendVars,
                  serviceVars >>

\* An exception the call does not catch, such as a truncated reply.
CallRaises(k) ==
  /\ worker[k] = "calling"
  /\ UNCHANGED outcome
  /\ LeaveCall(k, "done")

PublishAnswer(k) ==
  /\ worker[k] = "answering"
  /\ worker' = [worker EXCEPT ![k] = "done"]
  /\ replies' = [replies EXCEPT ![robotOf[k]] = Append(@, k)]
  /\ UNCHANGED << amrVars, requests, inflight, robotOf, outcome, backendVars,
                  serviceVars >>

-----------------------------------------------------------------------------
(* Backend *)

\* The handler asks the vision nodes; it may start after the bridge gave up.
CheckGate(k) ==
  /\ worker[k] # "unused" /\ handling[k] = "idle"
  /\ handling' = [handling EXCEPT ![k] = "waiting"]
  /\ Ask(k)
  /\ UNCHANGED << amrVars, topicVars, bridgeVars, recorded >>

Record(k, code) ==
  /\ handling' = [handling EXCEPT ![k] = "recorded"]
  /\ recorded' = [recorded EXCEPT ![k] = code]
  /\ UNCHANGED << amrVars, topicVars, bridgeVars, serviceVars >>

\* The vision service is not there.
VisionUnready(k) ==
  /\ worker[k] # "unused" /\ handling[k] = "idle"
  /\ Record(k, 3)

VisionAnswers(k) ==
  /\ handling[k] = "waiting"
  /\ answer[k] # NoCode
  /\ Record(k, answer[k])

VisionTimeout(k) ==
  /\ handling[k] = "waiting"
  /\ Record(k, 3)

\* The vision nodes, of which only their promise is used.
VisionReplies(k) ==
  /\ \E code \in Codes : Reply(k, code)
  /\ UNCHANGED << amrVars, topicVars, bridgeVars, backendVars >>

-----------------------------------------------------------------------------
AmrThread(r)  == TakeAnswer(r) \/ InspectionTimeout(r)
WorkerStep(k) == CallReturns(k) \/ CallFails(k) \/ CallRaises(k) \/ PublishAnswer(k)
BackendStep(k) ==
  CheckGate(k) \/ VisionUnready(k) \/ VisionAnswers(k) \/ VisionTimeout(k)

Next ==
  \/ \E r \in Robots :
       InspectGate(r) \/ RepeatRequest(r) \/ OnResponse(r) \/ OnRequest(r) \/ AmrThread(r)
  \/ \E k \in Checks : WorkerStep(k) \/ BackendStep(k) \/ VisionReplies(k)

\* Threads run on; every call has a time-out.
Fairness ==
  /\ \A r \in Robots : WF_vars(AmrThread(r))
  /\ \A k \in Checks : WF_vars(WorkerStep(k))

GateSafety == GateInit /\ [][Next]_vars
GateSpec   == GateSafety /\ Fairness

-----------------------------------------------------------------------------
\* Every variable keeps its type.
GateTypeOK ==
  /\ amr \in [Robots -> {"driving", "inspecting", "aborted"}]
  /\ gate \in [Robots -> 0 .. MaxGates] /\ heardAt \in [Robots -> 0 .. MaxGates]
  /\ response \in [Robots -> Checks \cup {NoCheck}]
  /\ requests \in [Robots -> 0 .. MaxInFlight] /\ replies \in [Robots -> Seq(Checks)]
  /\ inflight \subseteq Robots
  /\ worker \in [Checks -> {"unused", "calling", "answering", "done"}]
  /\ robotOf \in [Checks -> Robots \cup {NoRobot}]
  /\ outcome \in [Checks -> {"none", "ok", "fail"}]
  /\ handling \in [Checks -> {"idle", "waiting", "recorded"}]
  /\ recorded \in [Checks -> Codes \cup {NoCode}]
  /\ asked \subseteq Checks /\ answer \in [Checks -> Codes \cup {NoCode}]

Calling(r) == {k \in Checks : worker[k] = "calling" /\ robotOf[k] = r}

\* The bridge never has two calls to the backend open for one robot, however its
\* requests are repeated, and a robot is marked exactly while one is open
\* (gate_check_bridge.py:108-123).
OneCallPerRobot ==
  /\ \A k, l \in Checks :
       worker[k] = "calling" /\ worker[l] = "calling" /\ robotOf[k] = robotOf[l] => k = l
  /\ inflight = {r \in Robots : Calling(r) # {}}

\* A robot never acts on an answer it heard before the inspection began, such as
\* the second answer to the gate before (inspection_flow.py:65).
HeardInTime ==
  \A r \in Robots : amr[r] = "inspecting" /\ response[r] # NoCheck => heardAt[r] = gate[r]

\* A robot that is told to go on has a check on record at the backend in which
\* the cameras saw the breaker, and saw it as expected if the bridge is to stop
\* on a mismatch (gate_check_bridge.py:127, equipment_router.py:205).
PassIsOnRecord ==
  \A r \in Robots : amr[r] = "inspecting" /\ response[r] # NoCheck
      /\ outcome[response[r]] = "ok" =>
    /\ recorded[response[r]] \in {0, 1}
    /\ AbortOnMismatch => recorded[response[r]] = 0

\* Every inspection ends although the bridge, the backend or the cameras may not
\* answer (inspection_flow.py:56).
InspectionEnds == \A r \in Robots : amr[r] = "inspecting" ~> amr[r] # "inspecting"

\* A check in progress ends, also by an exception, so that a later request of
\* the robot is served (gate_check_bridge.py:121).
CallsEnd == \A r \in Robots : r \in inflight ~> r \notin inflight
=============================================================================
