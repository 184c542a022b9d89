-------------------------- MODULE GateCheck_proofs --------------------------
(***************************************************************************)
(* Proofs about GateCheck, for any robots, checks and bounds: one call per *)
(* robot, no answer heard before its inspection, and a pass on record.     *)
(***************************************************************************)
EXTENDS GateCheck, TLAPS

\* An answered check of a known robot, and a record that was made once.
Recorded ==
  \A k \in Checks : recorded[k] # NoCode => handling[k] = "recorded"

OkIsRecorded ==
  \A k \in Checks : outcome[k] = "ok" =>
    recorded[k] \in {0, 1} /\ (AbortOnMismatch => recorded[k] = 0)

CheckInv == GateTypeOK /\ OneCallPerRobot /\ HeardInTime /\ Recorded /\ OkIsRecorded

LEMMA CodeFacts == NoCode \notin Codes /\ 0 \in Codes /\ 1 \in Codes /\ 3 \in Codes
BY NoCodeAssumption DEF Codes

\* What the robot is told is ok only for the codes that let it pass.
LEMMA StateOfFacts ==
  \A code \in Codes :
    /\ StateOf(code) \in {"ok", "fail"}
    /\ StateOf(code) = "ok" => code \in {0, 1} /\ (AbortOnMismatch => code = 0)
BY DEF StateOf

LEMMA TypeInit == GateInit => GateTypeOK
BY GateCheckAssumption DEF GateInit, ServiceInit, GateTypeOK

LEMMA TypeNext == GateTypeOK /\ [Next]_vars => GateTypeOK'
<1> SUFFICES ASSUME GateTypeOK, [Next]_vars PROVE GateTypeOK'
  OBVIOUS
<1> USE GateCheckAssumption
<1>1. CASE UNCHANGED vars
  BY <1>1 DEF GateTypeOK, vars, amrVars, topicVars, bridgeVars, backendVars, serviceVars
<1>2. ASSUME NEW r \in Robots, InspectGate(r) PROVE GateTypeOK'
  <2>1. gate[r] + 1 \in 0 .. MaxGates
    BY <1>2 DEF InspectGate, GateTypeOK
  <2> QED
    BY <1>2, <2>1 DEF InspectGate, GateTypeOK, topicVars, bridgeVars, backendVars,
                      serviceVars
<1>3. ASSUME NEW r \in Robots, RepeatRequest(r) PROVE GateTypeOK'
  <2>1. requests[r] + 1 \in 0 .. MaxInFlight
    BY <1>3 DEF RepeatRequest, GateTypeOK
  <2> QED
    BY <1>3, <2>1 DEF RepeatRequest, GateTypeOK, amrVars, bridgeVars, backendVars,
                      serviceVars
<1>4. ASSUME NEW r \in Robots, OnResponse(r) PROVE GateTypeOK'
  <2>1. Head(replies[r]) \in Checks /\ Tail(replies[r]) \in Seq(Checks)
    BY <1>4 DEF OnResponse, GateTypeOK
  <2> QED
    BY <1>4, <2>1 DEF OnResponse, GateTypeOK, bridgeVars, backendVars, serviceVars
<1>5. ASSUME NEW r \in Robots, AmrThread(r) PROVE GateTypeOK'
  BY <1>5, ZenonT(40) DEF AmrThread, TakeAnswer, InspectionTimeout, EndInspection, GateTypeOK,
              topicVars, bridgeVars, backendVars, serviceVars
<1>6. ASSUME NEW r \in Robots, OnRequest(r) PROVE GateTypeOK'
  <2>1. requests[r] - 1 \in 0 .. MaxInFlight
    BY <1>6 DEF OnRequest, GateTypeOK
  <2> QED
    BY <1>6, <2>1, ZenonT(40) DEF OnRequest, GateTypeOK, amrVars, bridgeVars, backendVars,
                      serviceVars
<1>7. ASSUME NEW k \in Checks, WorkerStep(k) PROVE GateTypeOK'
  <2>1. CASE CallReturns(k)
    <3>1. StateOf(recorded[k]) \in {"none", "ok", "fail"}
      BY <2>1, StateOfFacts DEF CallReturns, GateTypeOK
    <3> QED
      BY <2>1, <3>1 DEF CallReturns, LeaveCall, GateTypeOK, amrVars, topicVars,
                        backendVars, serviceVars
  <2>2. CASE CallFails(k) \/ CallRaises(k)
    BY <2>2, ZenonT(40) DEF CallFails, CallRaises, LeaveCall, GateTypeOK, amrVars, topicVars,
                backendVars, serviceVars
  <2>3. CASE PublishAnswer(k)
    <3> DEFINE s == robotOf[k]
    <3>0. replies \in [Robots -> Seq(Checks)]
      BY DEF GateTypeOK
    <3>1. replies' \in [Robots -> Seq(Checks)]
      <4>1. replies' = [replies EXCEPT ![s] = Append(replies[s], k)]
        BY <2>3 DEF PublishAnswer
      <4> HIDE DEF s
      <4>2. CASE s \in Robots
        <5>1. Append(replies[s], k) \in Seq(Checks)
          BY <3>0, <4>2
        <5> QED
          BY <3>0, <4>1, <5>1
      <4>3. CASE s \notin Robots
        BY <3>0, <4>1, <4>3
      <4> QED
        BY <4>2, <4>3
    <3> QED
      BY <2>3, <3>1 DEF PublishAnswer, GateTypeOK, amrVars, backendVars, serviceVars
  <2> QED
    BY <1>7, <2>1, <2>2, <2>3 DEF WorkerStep
<1>8. ASSUME NEW k \in Checks, BackendStep(k) PROVE GateTypeOK'
  BY <1>8, CodeFacts, ZenonT(40) DEF BackendStep, CheckGate, Ask, VisionUnready, VisionAnswers,
     VisionTimeout, Record, GateTypeOK, amrVars, topicVars, bridgeVars, serviceVars
<1>9. ASSUME NEW k \in Checks, VisionReplies(k) PROVE GateTypeOK'
  BY <1>9 DEF VisionReplies, Reply, GateTypeOK, amrVars, topicVars, bridgeVars,
              backendVars
<1> QED
  BY <1>1, <1>2, <1>3, <1>4, <1>5, <1>6, <1>7, <1>8, <1>9 DEF Next

-----------------------------------------------------------------------------
(* One call per robot *)

LEMMA OneCallInit == GateInit => OneCallPerRobot
BY DEF GateInit, OneCallPerRobot, Calling

LEMMA OneCallNext ==
  GateTypeOK /\ OneCallPerRobot /\ [Next]_vars => OneCallPerRobot'
<1> SUFFICES ASSUME GateTypeOK, OneCallPerRobot, [Next]_vars PROVE OneCallPerRobot'
  OBVIOUS
<1>a. ASSUME UNCHANGED << worker, robotOf, inflight >> PROVE OneCallPerRobot'
  BY <1>a DEF OneCallPerRobot, Calling
<1>b. /\ worker \in [Checks -> {"unused", "calling", "answering", "done"}]
      /\ robotOf \in [Checks -> Robots \cup {NoRobot}]
  BY DEF GateTypeOK
<1>1. CASE UNCHANGED vars
  BY <1>1, <1>a DEF vars, bridgeVars
<1>2. ASSUME NEW r \in Robots, InspectGate(r) \/ RepeatRequest(r) \/ OnResponse(r)
                                 \/ AmrThread(r)
      PROVE  OneCallPerRobot'
  BY <1>2, <1>a DEF InspectGate, RepeatRequest, OnResponse, AmrThread, TakeAnswer,
     InspectionTimeout, EndInspection, bridgeVars
<1>3. ASSUME NEW r \in Robots, OnRequest(r) PROVE OneCallPerRobot'
  <2>1. CASE r \in inflight
    BY <1>3, <1>a, <2>1 DEF OnRequest, bridgeVars
  <2>2. CASE r \notin inflight
    <3>1. PICK k \in Checks :
            /\ worker[k] = "unused"
            /\ worker' = [worker EXCEPT ![k] = "calling"]
            /\ robotOf' = [robotOf EXCEPT ![k] = r]
      BY <1>3, <2>2 DEF OnRequest
    <3>2. inflight' = inflight \cup {r}
      BY <1>3, <2>2 DEF OnRequest
    <3>3. \A l \in Checks : ~ (worker[l] = "calling" /\ robotOf[l] = r)
      BY <2>2 DEF OneCallPerRobot, Calling
    <3>4. \A l \in Checks : worker'[l] = "calling" =>
            IF l = k THEN robotOf'[l] = r
            ELSE worker[l] = "calling" /\ robotOf'[l] = robotOf[l]
      BY <1>b, <3>1
    <3>5. \A l, m \in Checks : worker'[l] = "calling" /\ worker'[m] = "calling"
            /\ robotOf'[l] = robotOf'[m] => l = m
      BY <3>3, <3>4 DEF OneCallPerRobot
    <3>6. \A s \in Robots : Calling(s)' = IF s = r THEN {k} ELSE Calling(s)
      BY <1>b, <3>1, <3>3 DEF Calling
    <3>7. inflight' = {s \in Robots : Calling(s)' # {}}
      BY <3>2, <3>6 DEF OneCallPerRobot
    <3> QED
      BY <3>5, <3>7 DEF OneCallPerRobot
  <2> QED
    BY <2>1, <2>2
<1>4. ASSUME NEW k \in Checks, CallReturns(k) \/ CallFails(k) \/ CallRaises(k)
      PROVE  OneCallPerRobot'
  <2>1. /\ worker[k] = "calling" /\ UNCHANGED robotOf
        /\ inflight' = inflight \ {robotOf[k]}
    BY <1>4 DEF CallReturns, CallFails, CallRaises, LeaveCall
  <2>2. PICK next \in {"answering", "done"} : worker' = [worker EXCEPT ![k] = next]
    BY <1>4 DEF CallReturns, CallFails, CallRaises, LeaveCall
  <2>3. \A s \in Robots : Calling(s)' = Calling(s) \ {k}
    BY <1>b, <2>1, <2>2 DEF Calling
  <2>4. \A s \in Robots : k \in Calling(s) => Calling(s) = {k} /\ s = robotOf[k]
    BY <2>1 DEF OneCallPerRobot, Calling
  <2>5. k \in Calling(robotOf[k])
    BY <2>1 DEF Calling
  <2>6. inflight' = {s \in Robots : Calling(s)' # {}}
    BY <2>1, <2>3, <2>4, <2>5 DEF OneCallPerRobot
  <2>7. \A l \in Checks : worker'[l] = "calling" => worker[l] = "calling"
    BY <1>b, <2>2
  <2> QED
    BY <2>1, <2>6, <2>7 DEF OneCallPerRobot
<1>5. ASSUME NEW k \in Checks, PublishAnswer(k) PROVE OneCallPerRobot'
  <2>1. /\ worker[k] = "answering" /\ worker' = [worker EXCEPT ![k] = "done"]
        /\ UNCHANGED << robotOf, inflight >>
    BY <1>5 DEF PublishAnswer
  <2>2. \A l \in Checks : worker'[l] = "calling" <=> worker[l] = "calling"
    BY <1>b, <2>1
  <2> QED
    BY <2>1, <2>2 DEF OneCallPerRobot, Calling
<1>6. ASSUME NEW k \in Checks, BackendStep(k) \/ VisionReplies(k) PROVE OneCallPerRobot'
  BY <1>6, <1>a DEF BackendStep, CheckGate, VisionUnready, VisionAnswers,
     VisionTimeout, Record, VisionReplies, bridgeVars
<1> QED
  BY <1>1, <1>2, <1>3, <1>4, <1>5, <1>6 DEF Next, WorkerStep

-----------------------------------------------------------------------------
(* No stale answer *)

LEMMA HeardInit == GateInit => HeardInTime
BY DEF GateInit, HeardInTime

LEMMA HeardNext == GateTypeOK /\ HeardInTime /\ [Next]_vars => HeardInTime'
<1> SUFFICES ASSUME GateTypeOK, HeardInTime, [Next]_vars PROVE HeardInTime'
  OBVIOUS
<1>a. ASSUME UNCHANGED amrVars PROVE HeardInTime'
  BY <1>a DEF HeardInTime, amrVars
<1>1. CASE UNCHANGED vars
  BY <1>1, <1>a DEF vars
<1>2. ASSUME NEW r \in Robots, InspectGate(r) PROVE HeardInTime'
  BY <1>2 DEF InspectGate, HeardInTime, GateTypeOK
<1>3. ASSUME NEW r \in Robots, OnResponse(r) PROVE HeardInTime'
  BY <1>3 DEF OnResponse, HeardInTime, GateTypeOK
<1>4. ASSUME NEW r \in Robots, AmrThread(r) PROVE HeardInTime'
  BY <1>4 DEF AmrThread, TakeAnswer, InspectionTimeout, EndInspection, HeardInTime,
              GateTypeOK
<1>5. ASSUME NEW r \in Robots, RepeatRequest(r) \/ OnRequest(r) PROVE HeardInTime'
  BY <1>5, <1>a DEF RepeatRequest, OnRequest
<1>6. ASSUME NEW k \in Checks, WorkerStep(k) PROVE HeardInTime'
  BY <1>6, <1>a DEF WorkerStep, CallReturns, CallFails, CallRaises, LeaveCall,
                    PublishAnswer
<1>7. ASSUME NEW k \in Checks, BackendStep(k) \/ VisionReplies(k) PROVE HeardInTime'
  BY <1>7, <1>a DEF BackendStep, CheckGate, VisionUnready, VisionAnswers,
                    VisionTimeout, Record, VisionReplies
<1> QED
  BY <1>1, <1>2, <1>3, <1>4, <1>5, <1>6, <1>7 DEF Next

-----------------------------------------------------------------------------
(* A pass is on record *)

LEMMA RecordInit == GateInit => Recorded /\ OkIsRecorded
BY DEF GateInit, Recorded, OkIsRecorded

LEMMA RecordNext ==
  GateTypeOK /\ Recorded /\ OkIsRecorded /\ [Next]_vars => Recorded' /\ OkIsRecorded'
<1> SUFFICES ASSUME GateTypeOK, Recorded, OkIsRecorded, [Next]_vars
             PROVE  Recorded' /\ OkIsRecorded'
  OBVIOUS
<1>a. ASSUME UNCHANGED << outcome, backendVars >> PROVE Recorded' /\ OkIsRecorded'
  BY <1>a DEF Recorded, OkIsRecorded, backendVars
<1>b. ASSUME NEW k \in Checks, NEW code \in Codes, handling[k] \in {"idle", "waiting"},
             Record(k, code)
      PROVE  Recorded' /\ OkIsRecorded'
  <2>1. recorded[k] = NoCode
    BY <1>b DEF Recorded
  <2>2. outcome[k] # "ok" /\ UNCHANGED outcome
    BY <1>b, <2>1, CodeFacts DEF OkIsRecorded, Record, bridgeVars
  <2> QED
    BY <1>b, <2>2 DEF Recorded, OkIsRecorded, Record, GateTypeOK
<1>1. CASE UNCHANGED vars
  BY <1>1, <1>a DEF vars, bridgeVars
<1>2. ASSUME NEW r \in Robots,
             InspectGate(r) \/ RepeatRequest(r) \/ OnResponse(r) \/ OnRequest(r)
               \/ AmrThread(r)
      PROVE  Recorded' /\ OkIsRecorded'
  BY <1>2, <1>a DEF InspectGate, RepeatRequest, OnResponse, OnRequest, AmrThread,
     TakeAnswer, InspectionTimeout, EndInspection, bridgeVars
<1>3. ASSUME NEW k \in Checks, CallReturns(k) PROVE Recorded' /\ OkIsRecorded'
  <2>1. /\ recorded[k] \in Codes /\ UNCHANGED backendVars
        /\ outcome' = [outcome EXCEPT ![k] = StateOf(recorded[k])]
    BY <1>3 DEF CallReturns, LeaveCall, GateTypeOK
  <2> QED
    BY <2>1, StateOfFacts DEF Recorded, OkIsRecorded, GateTypeOK, backendVars
<1>4. ASSUME NEW k \in Checks, CallFails(k) \/ CallRaises(k) \/ PublishAnswer(k)
      PROVE  Recorded' /\ OkIsRecorded'
  BY <1>4 DEF CallFails, CallRaises, PublishAnswer, LeaveCall, Recorded, OkIsRecorded,
              GateTypeOK, backendVars
<1>5. ASSUME NEW k \in Checks, CheckGate(k) PROVE Recorded' /\ OkIsRecorded'
  BY <1>5, CodeFacts DEF CheckGate, Recorded, OkIsRecorded, GateTypeOK, bridgeVars
<1>6. ASSUME NEW k \in Checks, VisionUnready(k) \/ VisionTimeout(k)
      PROVE  Recorded' /\ OkIsRecorded'
  BY <1>6, <1>b, CodeFacts DEF VisionUnready, VisionTimeout
<1>7. ASSUME NEW k \in Checks, VisionAnswers(k) PROVE Recorded' /\ OkIsRecorded'
  BY <1>7, <1>b DEF VisionAnswers, GateTypeOK
<1>8. ASSUME NEW k \in Checks, VisionReplies(k) PROVE Recorded' /\ OkIsRecorded'
  BY <1>8, <1>a DEF VisionReplies, bridgeVars
<1> QED
  BY <1>1, <1>2, <1>3, <1>4, <1>5, <1>6, <1>7, <1>8 DEF Next, WorkerStep, BackendStep

-----------------------------------------------------------------------------
LEMMA CheckInvariant == GateSafety => []CheckInv
<1>1. GateInit => CheckInv
  BY TypeInit, OneCallInit, HeardInit, RecordInit DEF CheckInv
<1>2. CheckInv /\ [Next]_vars => CheckInv'
  BY TypeNext, OneCallNext, HeardNext, RecordNext DEF CheckInv
<1> QED
  BY <1>1, <1>2, PTL DEF GateSafety

\* Every variable of the check keeps its type (inspection_flow.py, gate_check_bridge.py):
\* a robot is told only ok or fail, whatever the backend makes of its check.
THEOREM GateTypeCorrect == GateSafety => []GateTypeOK
BY TypeInit, TypeNext, PTL DEF GateSafety

\* The bridge never has two calls open for a robot, and marks it exactly as
\* long as it has one.
THEOREM OneCall == GateSafety => []OneCallPerRobot
<1>1. CheckInv => OneCallPerRobot
  BY DEF CheckInv
<1> QED
  BY <1>1, CheckInvariant, PTL

\* An inspection never ends with an answer heard before it began.
THEOREM NothingStale == GateSafety => []HeardInTime
<1>1. CheckInv => HeardInTime
  BY DEF CheckInv
<1> QED
  BY <1>1, CheckInvariant, PTL

\* A robot told to go on passes on a check the backend recorded as seen, however
\* late or often the checks of that robot ran.
THEOREM PassesOnRecord == GateSafety => []PassIsOnRecord
<1>1. CheckInv => PassIsOnRecord
  BY DEF CheckInv, OkIsRecorded, PassIsOnRecord, GateTypeOK
<1> QED
  BY <1>1, CheckInvariant, PTL
=============================================================================
