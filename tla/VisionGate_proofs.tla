-------------------------- MODULE VisionGate_proofs --------------------------
(***************************************************************************)
(* Proofs about the breaker inspection of VisionGate, for any checks,      *)
(* cameras, numbers of threads and frames: the ambient detector is         *)
(* restored, the nodes implement the safety part of GateService, cameras   *)
(* are closed, and a verdict follows what the frames show.                 *)
(***************************************************************************)
EXTENDS VisionGate, SequenceTheorems, FiniteSetTheorems, TLAPS

Phase == {"idle", "called", "answered"} \cup Throttling

\* The part of the types that both arguments rest on.
MainType ==
  /\ phase \in [Checks -> Phase]
  /\ result \in [Checks -> Code]
  /\ answer \in [Checks -> Code]
  /\ verdict \in [Checks -> Code]
  /\ calls \in Seq(BOOLEAN)

\* What the ambient node will do in the end with what it was asked so far.
Settled == IF calls = << >> THEN throttled ELSE calls[Len(calls)]

\* A check has asked for the throttle and not yet for the restoring.
Open(k) == phase[k] \in {"throttling", "inspecting"}

\* The last request that will be served is a restoring one, unless a check is
\* still to send its own.
SettlesRestored == (\A k \in Checks : ~ Open(k)) => ~ Settled

\* Exactly the checks main is done with have an answer.
AnsweredIsDone ==
  \A k \in Checks : phase[k] = "answered" <=> answer[k] # NoCode

LEMMA CodeFacts == NoCode \notin Codes /\ 3 \in Codes
BY VisionAssumption DEF Codes

LEMMA JudgementCode == \A k \in Checks : Judgement(k) \in Codes
BY DEF Judgement, Codes

LEMMA MainTypeInit == VisionInit => MainType
BY DEF VisionInit, MainType, Phase, Code

\* The main callbacks, the station and everything else keep the types.
LEMMA MainTypeNext == MainType /\ [VisionNext]_visionVars => MainType'
<1> SUFFICES ASSUME MainType, [VisionNext]_visionVars PROVE MainType'
  OBVIOUS
<1> USE DEF MainType, Phase, Throttling, Code
<1>1. CASE UNCHANGED visionVars
  BY <1>1 DEF visionVars, mainVars, ambientVars, checkVars
<1>2. ASSUME NEW n \in {"main", "station"}, HearStart(n) PROVE MainType'
  BY <1>2 DEF HearStart, mainVars, ambientVars, checkVars
<1>3. ASSUME NEW k \in Checks, BackendAsks(k) PROVE MainType'
  BY <1>3 DEF BackendAsks, ambientVars, checkVars
<1>4. ASSUME NEW k \in Checks, MainStep(k) PROVE MainType'
  <2>1. CASE Refuse(k)
    BY <2>1, CodeFacts DEF Refuse, ambientVars, checkVars
  <2>2. CASE Throttle(k)
    BY <2>2 DEF Throttle, checkVars
  <2>3. CASE CallStation(k)
    BY <2>3 DEF CallStation, ambientVars
  <2>4. CASE StationReplies(k)
    BY <2>4 DEF StationReplies, Restore, checkVars
  <2>5. CASE StationTimeout(k)
    BY <2>5 DEF StationTimeout, Restore, checkVars
  <2>6. CASE AnswerBackend(k)
    BY <2>6, CodeFacts DEF AnswerBackend, ambientVars, checkVars
  <2> QED
    BY <1>4, <2>1, <2>2, <2>3, <2>4, <2>5, <2>6 DEF MainStep
<1>5. ASSUME NEW k \in Checks, StationStep(k) PROVE MainType'
  <2>1. CASE RefuseInspection(k)
    BY <2>1, CodeFacts DEF RefuseInspection, StationReply, mainVars, ambientVars
  <2>2. CASE Judge(k)
    BY <2>2, JudgementCode DEF Judge, StationReply, mainVars, ambientVars
  <2>3. CASE ActivateCamera(k) \/ ClearSignal(k) \/ WaitForFrame(k)
               \/ FramesTimeout(k) \/ ReadFrame(k)
    BY <2>3 DEF ActivateCamera, ClearSignal, WaitForFrame, FramesTimeout, ReadFrame,
                mainVars, ambientVars
  <2> QED
    BY <1>5, <2>1, <2>2, <2>3 DEF StationStep
<1>6. CASE SetThrottle
  BY <1>6 DEF SetThrottle, mainVars, checkVars
<1>7. CASE CameraStep
  BY <1>7 DEF CameraStep, CameraPublishes, StoreFrame, SignalFrame,
              mainVars, ambientVars, checkVars
<1> QED
  BY <1>1, <1>2, <1>3, <1>4, <1>5, <1>6, <1>7 DEF VisionNext

-----------------------------------------------------------------------------
(* The throttle *)

\* Sending a request decides what the ambient node ends with.
LEMMA SettledAfterSend ==
  ASSUME NEW on \in BOOLEAN, calls \in Seq(BOOLEAN), calls' = Append(calls, on)
  PROVE  Settled' = on
BY DEF Settled

\* A sequence of which the first element is taken keeps its last one.
LEMMA LastOfTail ==
  ASSUME NEW S, NEW s \in Seq(S), s # << >>
  PROVE  IF Tail(s) = << >> THEN Head(s) = s[Len(s)]
         ELSE Tail(s)[Len(Tail(s))] = s[Len(s)]
<1> DEFINE t == Tail(s)
<1>1. /\ t \in Seq(S) /\ Len(t) = Len(s) - 1
      /\ \A i \in 1 .. Len(t) : t[i] = s[i + 1]
  BY HeadTailProperties
<1>2. Head(s) = s[1]
  OBVIOUS
<1>3. Len(s) \in Nat /\ Len(t) \in Nat
  BY <1>1, LenProperties
<1>4. CASE t = << >>
  <2> HIDE DEF t
  <2>1. Len(t) = 0
    BY <1>4, EmptySeq
  <2>2. Len(s) = 1
    BY <1>1, <1>3, <2>1
  <2> QED
    BY <1>2, <1>4, <2>2 DEF t
<1>5. CASE t # << >>
  <2> HIDE DEF t
  <2>1. Len(t) # 0
    BY <1>1, <1>5, EmptySeq
  <2>2. Len(t) \in 1 .. Len(t) /\ Len(t) + 1 = Len(s)
    BY <1>1, <1>3, <2>1
  <2>3. t[Len(t)] = s[Len(s)]
    BY <1>1, <2>2
  <2> QED
    BY <1>5, <2>3 DEF t
<1> QED
  BY <1>4, <1>5

\* Serving one changes nothing about it.
LEMMA SettledAfterServe ==
  ASSUME calls \in Seq(BOOLEAN), SetThrottle
  PROVE  Settled' = Settled
<1>1. calls # << >> /\ calls' = Tail(calls) /\ throttled' = Head(calls)
  BY DEF SetThrottle
<1> QED
  BY <1>1, LastOfTail DEF Settled

LEMMA SettlesInit == VisionInit => SettlesRestored
BY DEF VisionInit, SettlesRestored, Settled

LEMMA SettlesNext ==
  MainType /\ SettlesRestored /\ [VisionNext]_visionVars => SettlesRestored'
<1> SUFFICES ASSUME MainType, SettlesRestored, [VisionNext]_visionVars
             PROVE  SettlesRestored'
  OBVIOUS
<1>a. calls \in Seq(BOOLEAN) /\ phase \in [Checks -> Phase]
  BY DEF MainType
<1>b. ASSUME UNCHANGED << phase, calls, throttled >> PROVE SettlesRestored'
  BY <1>b DEF SettlesRestored, Settled, Open
<1>1. CASE UNCHANGED visionVars
  BY <1>1, <1>b DEF visionVars, mainVars, ambientVars
<1>2. ASSUME NEW n \in {"main", "station"}, HearStart(n) PROVE SettlesRestored'
  BY <1>2, <1>b DEF HearStart, mainVars, ambientVars
<1>3. ASSUME NEW k \in Checks, BackendAsks(k) \/ Refuse(k) \/ AnswerBackend(k)
      PROVE  SettlesRestored'
  <2>1. UNCHANGED << calls, throttled >>
    BY <1>3 DEF BackendAsks, Refuse, AnswerBackend, ambientVars
  <2>2. \A l \in Checks : Open(l)' <=> Open(l)
    BY <1>a, <1>3 DEF BackendAsks, Refuse, AnswerBackend, Open
  <2> QED
    BY <2>1, <2>2 DEF SettlesRestored, Settled
<1>4. ASSUME NEW k \in Checks, Throttle(k) \/ CallStation(k) PROVE SettlesRestored'
  <2>1. Open(k)'
    BY <1>a, <1>4 DEF Throttle, CallStation, Open
  <2> QED
    BY <2>1 DEF SettlesRestored
<1>5. ASSUME NEW k \in Checks, StationReplies(k) \/ StationTimeout(k)
      PROVE  SettlesRestored'
  <2>1. calls' = Append(calls, FALSE)
    BY <1>5 DEF StationReplies, StationTimeout, Restore
  <2> QED
    BY <1>a, <2>1, SettledAfterSend DEF SettlesRestored
<1>6. ASSUME NEW k \in Checks, StationStep(k) PROVE SettlesRestored'
  BY <1>6, <1>b DEF StationStep, RefuseInspection, ActivateCamera, ClearSignal,
     WaitForFrame, FramesTimeout, ReadFrame, Judge, mainVars, ambientVars
<1>7. CASE SetThrottle
  <2>1. UNCHANGED phase
    BY <1>7 DEF SetThrottle, mainVars
  <2> QED
    BY <1>a, <1>7, <2>1, SettledAfterServe DEF SettlesRestored, Open
<1>8. CASE CameraStep
  BY <1>8, <1>b DEF CameraStep, CameraPublishes, StoreFrame, SignalFrame,
                    mainVars, ambientVars
<1> QED
  BY <1>1, <1>2, <1>3, <1>4, <1>5, <1>6, <1>7, <1>8 DEF VisionNext, MainStep

\* The ambient detector is back at full speed once no check is under way and
\* its requests are served, however many checks overlapped.
THEOREM RestoresThrottle == VisionSafety => []ThrottleRestored
<1>1. MainType /\ SettlesRestored => ThrottleRestored
  BY DEF SettlesRestored, Settled, Open, ThrottleRestored, MainBusy, Throttling
<1>2. VisionInit => MainType /\ SettlesRestored
  BY MainTypeInit, SettlesInit
<1>3. MainType /\ SettlesRestored /\ [VisionNext]_visionVars
        => MainType' /\ SettlesRestored'
  BY MainTypeNext, SettlesNext
<1> QED
  BY <1>1, <1>2, <1>3, PTL DEF VisionSafety

-----------------------------------------------------------------------------
(* The abstract service *)

LEMMA AnsweredInit == VisionInit => AnsweredIsDone
BY DEF VisionInit, AnsweredIsDone

\* A step keeps AnsweredIsDone, and is a step of the service or a stutter.
LEMMA ServiceStep ==
  MainType /\ AnsweredIsDone /\ [VisionNext]_visionVars
    => AnsweredIsDone' /\ [Service!ServiceNext]_Service!serviceVars
<1> SUFFICES ASSUME MainType, AnsweredIsDone, [VisionNext]_visionVars
             PROVE  AnsweredIsDone' /\ [Service!ServiceNext]_Service!serviceVars
  OBVIOUS
<1> DEFINE Goal == AnsweredIsDone' /\ [Service!ServiceNext]_Service!serviceVars
<1>a. /\ phase \in [Checks -> Phase] /\ result \in [Checks -> Code]
      /\ answer \in [Checks -> Code]
  BY DEF MainType
<1>b. ASSUME UNCHANGED answer, DOMAIN phase' = Checks,
             \A k \in Checks : phase'[k] = phase[k]
               \/ (phase[k] \notin {"idle", "answered"}
                     /\ phase'[k] \notin {"idle", "answered"})
      PROVE  Goal
  <2>1. AnsweredIsDone'
    BY <1>b DEF AnsweredIsDone
  <2>2. Asked' = Asked
    BY <1>b DEF Asked
  <2> QED
    BY <1>b, <2>1, <2>2 DEF Service!serviceVars
<1>c. ASSUME UNCHANGED << phase, answer >> PROVE Goal
  BY <1>a, <1>b, <1>c
<1>d. ASSUME NEW k \in Checks, NEW code \in Codes, phase[k] \notin {"idle", "answered"},
             phase' = [phase EXCEPT ![k] = "answered"],
             answer' = [answer EXCEPT ![k] = code]
      PROVE  Goal
  <2>1. answer[k] = NoCode
    BY <1>d DEF AnsweredIsDone
  <2>2. AnsweredIsDone'
    BY <1>a, <1>d, CodeFacts DEF AnsweredIsDone
  <2>3. Asked' = Asked
    BY <1>a, <1>d DEF Asked
  <2>4. k \in Asked
    BY <1>d DEF Asked
  <2>5. Service!Reply(k, code)
    BY <1>d, <2>1, <2>3, <2>4 DEF Service!Reply
  <2>6. code \in Service!Codes
    BY <1>d DEF Service!Codes, Codes
  <2> QED
    BY <2>2, <2>5, <2>6 DEF Service!ServiceNext
<1>1. CASE UNCHANGED visionVars
  BY <1>1, <1>c DEF visionVars, mainVars
<1>2. ASSUME NEW n \in {"main", "station"}, HearStart(n) PROVE Goal
  BY <1>2, <1>c DEF HearStart, mainVars
<1>3. ASSUME NEW k \in Checks, BackendAsks(k) PROVE Goal
  <2>1. phase[k] = "idle" /\ phase' = [phase EXCEPT ![k] = "called"] /\ UNCHANGED answer
    BY <1>3 DEF BackendAsks
  <2>2. AnsweredIsDone'
    BY <1>a, <2>1 DEF AnsweredIsDone
  <2>3. k \notin Asked /\ Asked' = Asked \cup {k}
    BY <1>a, <2>1 DEF Asked
  <2>4. Service!Ask(k)
    BY <2>1, <2>3 DEF Service!Ask
  <2> QED
    BY <2>2, <2>4 DEF Service!ServiceNext
<1>4. ASSUME NEW k \in Checks, Refuse(k) PROVE Goal
  BY <1>4, <1>d, CodeFacts DEF Refuse
<1>5. ASSUME NEW k \in Checks, AnswerBackend(k) PROVE Goal
  <2> DEFINE code == IF result[k] = NoCode THEN 3 ELSE result[k]
  <2>1. code \in Codes
    BY <1>a, CodeFacts DEF Code
  <2>2. /\ phase[k] = "restoring"
        /\ phase' = [phase EXCEPT ![k] = "answered"]
        /\ answer' = [answer EXCEPT ![k] = code]
    BY <1>5 DEF AnswerBackend
  <2> HIDE DEF code
  <2> QED
    BY <1>d, <2>1, <2>2
<1>6. ASSUME NEW k \in Checks, Throttle(k) \/ CallStation(k) \/ StationReplies(k)
                                 \/ StationTimeout(k)
      PROVE  Goal
  <2>1. UNCHANGED answer
    BY <1>6 DEF Throttle, CallStation, StationReplies, StationTimeout, Restore
  <2>2. \E next \in {"throttling", "inspecting", "restoring"} :
          phase' = [phase EXCEPT ![k] = next]
    BY <1>6 DEF Throttle, CallStation, StationReplies, StationTimeout, Restore
  <2>3. phase[k] \notin {"idle", "answered"}
    BY <1>6 DEF Throttle, CallStation, StationReplies, StationTimeout
  <2>4. /\ DOMAIN phase' = Checks
        /\ \A l \in Checks : phase'[l] = phase[l]
             \/ (phase[l] \notin {"idle", "answered"}
                   /\ phase'[l] \notin {"idle", "answered"})
    BY <1>a, <2>2, <2>3
  <2> QED
    BY <1>b, <2>1, <2>4
<1>7. ASSUME NEW k \in Checks, StationStep(k) PROVE Goal
  BY <1>7, <1>c DEF StationStep, RefuseInspection, ActivateCamera, ClearSignal,
     WaitForFrame, FramesTimeout, ReadFrame, Judge, mainVars
<1>8. CASE SetThrottle
  BY <1>8, <1>c DEF SetThrottle, mainVars
<1>9. CASE CameraStep
  BY <1>9, <1>c DEF CameraStep, CameraPublishes, StoreFrame, SignalFrame, mainVars
<1> QED
  BY <1>1, <1>2, <1>3, <1>4, <1>5, <1>6, <1>7, <1>8, <1>9 DEF VisionNext, MainStep

\* The vision nodes answer a check at most once, only if it was asked for, and
\* never take an answer back: they implement the safety part of the service.
THEOREM ImplementsService == VisionSafety => Service!ServiceSafety
<1>1. VisionInit => Service!ServiceInit
  BY DEF VisionInit, Service!ServiceInit, Asked
<1>2. VisionInit => MainType /\ AnsweredIsDone
  BY MainTypeInit, AnsweredInit
<1>3. MainType /\ AnsweredIsDone /\ [VisionNext]_visionVars
        => MainType' /\ AnsweredIsDone' /\ [Service!ServiceNext]_Service!serviceVars
  BY MainTypeNext, ServiceStep
<1> QED
  BY <1>1, <1>2, <1>3, PTL DEF VisionSafety, Service!ServiceSafety
-----------------------------------------------------------------------------
(* Types *)

\* A check that has not judged has rounds of the collecting loop left.
RoundsLeft ==
  \A k \in Checks : station[k] \notin {"judge", "replied"} => tries[k] < SampleCount

\* The station works for a check only once main has called it.
CalledOnce ==
  \A k \in Checks : phase[k] \in {"idle", "called", "throttling"} => station[k] = "idle"

LEMMA TypeInit == VisionInit => VisionTypeOK /\ RoundsLeft /\ CalledOnce
<1> SUFFICES ASSUME VisionInit PROVE VisionTypeOK /\ RoundsLeft /\ CalledOnce
  OBVIOUS
<1>1. /\ phase \in [Checks -> {"idle", "called", "answered"} \cup Throttling]
      /\ result \in [Checks -> Code] /\ answer \in [Checks -> Code]
      /\ verdict \in [Checks -> Code] /\ calls \in Seq(BOOLEAN)
  BY MainTypeInit DEF MainType, Phase
<1>2. /\ started \in [{"main", "station"} -> BOOLEAN]
      /\ throttled \in BOOLEAN /\ signal \in BOOLEAN /\ writing \in BOOLEAN
      /\ subs \in [Cameras -> Checks \cup {NoCheck}] /\ open \subseteq Checks
      /\ inbox \in [Checks -> Frames \cup {NoFrame}]
      /\ latest \in [Cameras -> Frames \cup {NoFrame}]
  BY DEF VisionInit
<1>3. /\ station \in [Checks -> {"idle", "called", "clear", "cleared", "wait", "read",
                                 "judge", "replied"}]
      /\ frames \in [Checks -> Seq(Frames)]
  BY DEF VisionInit
<1>4. tries \in [Checks -> 0 .. SampleCount] /\ RoundsLeft
  BY VisionAssumption DEF VisionInit, RoundsLeft
<1>5. taken \in [Cameras -> 0 .. MaxFrames]
  BY VisionAssumption DEF VisionInit
<1>6. CalledOnce
  BY DEF VisionInit, CalledOnce
<1> QED
  BY <1>1, <1>2, <1>3, <1>4, <1>5, <1>6 DEF VisionTypeOK

\* The station's steps; a read frame was published, and fills one round.
LEMMA StationTypes ==
  ASSUME VisionTypeOK, RoundsLeft, NEW k \in Checks, StationStep(k)
  PROVE  VisionTypeOK' /\ RoundsLeft'
<1> USE VisionAssumption DEF VisionTypeOK, RoundsLeft
<1>1. CASE RefuseInspection(k)
  BY <1>1, CodeFacts DEF RefuseInspection, StationReply, Code, mainVars, ambientVars, cameraVars, subVars
<1>2. CASE ActivateCamera(k)
  BY <1>2 DEF ActivateCamera, mainVars, ambientVars
<1>3. CASE ClearSignal(k)
  BY <1>3 DEF ClearSignal, mainVars, ambientVars, subVars
<1>6. CASE WaitForFrame(k)
  BY <1>6 DEF WaitForFrame, mainVars, ambientVars, cameraVars, subVars
<1>7. CASE FramesTimeout(k)
  BY <1>7 DEF FramesTimeout, mainVars, ambientVars, cameraVars, subVars
<1>4. CASE ReadFrame(k)
  <2> DEFINE frame == latest[CameraOf[k]]
  <2>1. frame \in Frames \cup {NoFrame}
    OBVIOUS
  <2>2. frames' \in [Checks -> Seq(Frames)]
    BY <1>4, <2>1 DEF ReadFrame
  <2>3. tries[k] < SampleCount /\ tries' = [tries EXCEPT ![k] = tries[k] + 1]
    BY <1>4 DEF ReadFrame
  <2>4. tries' \in [Checks -> 0 .. SampleCount]
    BY <2>3
  <2>5. station' = [station EXCEPT ![k] = IF tries[k] + 1 = SampleCount THEN "judge" ELSE "clear"]
    BY <1>4 DEF ReadFrame
  <2>6. ASSUME NEW l \in Checks, station'[l] \notin {"judge", "replied"}
        PROVE  tries'[l] < SampleCount
    <3>1. CASE l = k
      <4>1. tries[k] + 1 # SampleCount
        BY <2>5, <2>6, <3>1
      <4> QED
        BY <2>3, <3>1, <4>1
    <3>2. CASE l # k
      BY <2>3, <2>5, <2>6, <3>2
    <3> QED
      BY <3>1, <3>2
  <2> QED
    BY <1>4, <2>2, <2>4, <2>5, <2>6 DEF ReadFrame, mainVars, ambientVars, cameraVars, subVars
<1>5. CASE Judge(k)
  <2>1. Judgement(k) \in Code
    BY JudgementCode DEF Code
  <2> QED
    BY <1>5, <2>1 DEF Judge, StationReply, DeactivateCamera, mainVars, ambientVars
<1> QED
  BY <1>1, <1>2, <1>3, <1>4, <1>5, <1>6, <1>7 DEF StationStep

\* The images and their callbacks.
LEMMA CameraTypes ==
  ASSUME VisionTypeOK, RoundsLeft, CameraStep
  PROVE  VisionTypeOK' /\ RoundsLeft'
<1> USE VisionAssumption DEF VisionTypeOK, RoundsLeft
<1>1. ASSUME NEW c \in Cameras, NEW look \in Looks, CameraPublishes(c, look)
      PROVE  VisionTypeOK' /\ RoundsLeft'
  <2>1. taken[c] + 1 \in 1 .. MaxFrames
    BY <1>1 DEF CameraPublishes
  <2>2. [n |-> taken[c] + 1, look |-> look] \in Frames
    BY <2>1 DEF Frames
  <2>3. inbox' \in [Checks -> Frames \cup {NoFrame}]
    BY <1>1, <2>2 DEF CameraPublishes
  <2>4. taken' \in [Cameras -> 0 .. MaxFrames]
    BY <1>1, <2>1 DEF CameraPublishes
  <2> QED
    BY <1>1, <2>3, <2>4 DEF CameraPublishes, mainVars, ambientVars, checkVars, subVars
<1>2. ASSUME NEW k \in Checks, StoreFrame(k)
      PROVE  VisionTypeOK' /\ RoundsLeft'
  BY <1>2 DEF StoreFrame, mainVars, ambientVars, checkVars, subVars
<1>3. CASE SignalFrame
  BY <1>3 DEF SignalFrame, mainVars, ambientVars, subVars
<1> QED
  BY <1>1, <1>2, <1>3 DEF CameraStep

LEMMA TypeNext ==
  VisionTypeOK /\ RoundsLeft /\ CalledOnce /\ [VisionNext]_visionVars
    => VisionTypeOK' /\ RoundsLeft'
<1> SUFFICES ASSUME VisionTypeOK, RoundsLeft, CalledOnce, [VisionNext]_visionVars
             PROVE  VisionTypeOK' /\ RoundsLeft'
  OBVIOUS
<1> USE DEF VisionTypeOK, RoundsLeft
<1>1. CASE UNCHANGED visionVars
  BY <1>1 DEF visionVars, mainVars, ambientVars, cameraVars, checkVars, subVars
<1>2. ASSUME NEW n \in {"main", "station"}, HearStart(n) PROVE VisionTypeOK' /\ RoundsLeft'
  BY <1>2 DEF HearStart, mainVars, ambientVars, cameraVars, checkVars, subVars
<1>3. ASSUME NEW k \in Checks, BackendAsks(k) PROVE VisionTypeOK' /\ RoundsLeft'
  BY <1>3 DEF BackendAsks, ambientVars, cameraVars, checkVars, subVars
<1>4. ASSUME NEW k \in Checks, MainStep(k) PROVE VisionTypeOK' /\ RoundsLeft'
  <2>1. CASE Refuse(k) \/ AnswerBackend(k)
    BY <2>1, CodeFacts DEF Refuse, AnswerBackend, Code, ambientVars, cameraVars, checkVars, subVars
  <2>2. CASE Throttle(k)
    <3>1. phase' \in [Checks -> Phase] /\ calls' \in Seq(BOOLEAN)
      BY <1>4, MainTypeNext DEF MainType, Phase, VisionNext
    <3> QED
      BY <2>2, <3>1 DEF Throttle, Phase, cameraVars, checkVars, subVars
  <2>3. CASE CallStation(k)
    <3>1. phase' \in [Checks -> Phase]
      BY <1>4, MainTypeNext DEF MainType, Phase, VisionNext
    <3>2. station' = [station EXCEPT ![k] = "called"] /\ UNCHANGED tries
      BY <2>3 DEF CallStation
    <3>3. RoundsLeft'
      BY <2>3, <3>2 DEF CallStation, CalledOnce
    <3> QED
      BY <2>3, <3>1, <3>2, <3>3 DEF CallStation, Phase, ambientVars, cameraVars, subVars
  <2>4. CASE StationReplies(k) \/ StationTimeout(k)
    <3>1. /\ phase' \in [Checks -> Phase] /\ calls' \in Seq(BOOLEAN)
          /\ result' \in [Checks -> Code]
      BY <1>4, MainTypeNext DEF MainType, Phase, VisionNext
    <3> QED
      BY <2>4, <3>1 DEF StationReplies, StationTimeout, Restore, Phase,
                        cameraVars, checkVars, subVars
  <2> QED
    BY <1>4, <2>1, <2>2, <2>3, <2>4 DEF MainStep
<1>5. ASSUME NEW k \in Checks, StationStep(k) PROVE VisionTypeOK' /\ RoundsLeft'
  BY <1>5, StationTypes
<1>6. CASE SetThrottle
  BY <1>6 DEF SetThrottle, mainVars, cameraVars, checkVars, subVars
<1>7. CASE CameraStep
  BY <1>7, CameraTypes
<1> QED
  BY <1>1, <1>2, <1>3, <1>4, <1>5, <1>6, <1>7 DEF VisionNext

LEMMA CalledNext ==
  ASSUME VisionTypeOK, CalledOnce, [VisionNext]_visionVars
  PROVE  CalledOnce'
<1>a. DOMAIN station = Checks /\ DOMAIN phase = Checks
  BY DEF VisionTypeOK
<1>b. ASSUME UNCHANGED << phase, station >> PROVE CalledOnce'
  BY <1>b DEF CalledOnce
<1>1. CASE UNCHANGED visionVars
  BY <1>1, <1>b DEF visionVars, mainVars, checkVars
<1>2. CASE (\E n \in {"main", "station"} : HearStart(n)) \/ SetThrottle
  BY <1>2, <1>b DEF HearStart, SetThrottle, mainVars, checkVars
<1>3. ASSUME NEW k \in Checks, BackendAsks(k) \/ MainStep(k) PROVE CalledOnce'
  <2>1. CASE BackendAsks(k) \/ Refuse(k) \/ Throttle(k)
    BY <1>a, <2>1 DEF BackendAsks, Refuse, Throttle, checkVars, CalledOnce
  <2>2. CASE CallStation(k)
    BY <1>a, <2>2 DEF CallStation, CalledOnce
  <2>3. CASE StationReplies(k) \/ StationTimeout(k) \/ AnswerBackend(k)
    BY <1>a, <2>3 DEF StationReplies, StationTimeout, Restore, AnswerBackend, checkVars,
                      CalledOnce
  <2> QED
    BY <1>3, <2>1, <2>2, <2>3 DEF MainStep
<1>4. ASSUME NEW k \in Checks, StationStep(k) PROVE CalledOnce'
  <2>1. /\ station[k] # "idle" /\ UNCHANGED phase
        /\ \E next : station' = [station EXCEPT ![k] = next]
    BY <1>4 DEF StationStep, RefuseInspection, ActivateCamera, ClearSignal, WaitForFrame,
                FramesTimeout, ReadFrame, Judge, StationReply, mainVars
  <2> QED
    BY <1>a, <2>1 DEF CalledOnce
<1>5. CASE CameraStep
  <2>1. UNCHANGED phase /\ \A k \in Checks : station[k] = "idle" => station'[k] = "idle"
    BY <1>5 DEF CameraStep, CameraPublishes, StoreFrame, SignalFrame, mainVars, checkVars
  <2> QED
    BY <2>1 DEF CalledOnce
<1> QED
  BY <1>1, <1>2, <1>3, <1>4, <1>5 DEF VisionNext

LEMMA TypeInvariant == VisionSafety => [](VisionTypeOK /\ RoundsLeft /\ CalledOnce)
<1>1. VisionTypeOK /\ RoundsLeft /\ CalledOnce /\ [VisionNext]_visionVars
        => VisionTypeOK' /\ RoundsLeft' /\ CalledOnce'
  BY TypeNext, CalledNext
<1> QED
  BY <1>1, TypeInit, PTL DEF VisionSafety

\* Every variable of the inspection keeps its type, and no check makes more rounds
\* than sample_frame_count (detect_station_node.py), however checks overlap.
THEOREM VisionTypeCorrect == VisionSafety => []VisionTypeOK
BY TypeInvariant, PTL

-----------------------------------------------------------------------------
(* The subscriptions *)

\* No two checks look through one camera.
OneCheckPerCamera == \A k, l \in Checks : CameraOf[k] = CameraOf[l] => k = l

\* What is open is stored for its camera, and its check will close it.
OpenIsStored == \A k \in open : Looking(k) /\ subs[CameraOf[k]] = k

LEMMA StoredInit == VisionInit => OpenIsStored
BY DEF VisionInit, OpenIsStored

LEMMA StoredNext ==
  ASSUME OneCheckPerCamera, VisionTypeOK, CalledOnce, OpenIsStored, [VisionNext]_visionVars
  PROVE  OpenIsStored'
<1>a. /\ open \subseteq Checks /\ subs \in [Cameras -> Checks \cup {NoCheck}]
      /\ DOMAIN station = Checks
      /\ CameraOf \in [Checks -> Cameras]
  BY VisionAssumption DEF VisionTypeOK
<1>b. ASSUME NEW k \in Checks, UNCHANGED << subs, open >>,
             NEW next, station' = [station EXCEPT ![k] = next],
             station[k] \in {"clear", "cleared", "wait", "read"}
               => next \in {"clear", "cleared", "wait", "read", "judge"},
             station[k] # "judge"
      PROVE  OpenIsStored'
  BY <1>a, <1>b DEF OpenIsStored, Looking
<1>c. ASSUME UNCHANGED << station, subs, open >> PROVE OpenIsStored'
  BY <1>c DEF OpenIsStored, Looking
<1>1. CASE UNCHANGED visionVars
  BY <1>1, <1>c DEF visionVars, checkVars, subVars
<1>2. CASE (\E n \in {"main", "station"} : HearStart(n)) \/ SetThrottle
  BY <1>2, <1>c DEF HearStart, SetThrottle, checkVars, subVars
<1>3. ASSUME NEW k \in Checks, BackendAsks(k) \/ MainStep(k) PROVE OpenIsStored'
  <2>1. CASE CallStation(k)
    <3>1. ~ Looking(k)
      BY <2>1 DEF CallStation, CalledOnce, Looking
    <3> QED
      BY <2>1, <3>1, <1>b DEF CallStation, Looking, subVars
  <2>2. CASE BackendAsks(k) \/ Refuse(k) \/ Throttle(k)
    BY <2>2, <1>c DEF BackendAsks, Refuse, Throttle, checkVars, subVars
  <2>3. CASE StationReplies(k) \/ StationTimeout(k) \/ AnswerBackend(k)
    BY <2>3, <1>c DEF StationReplies, StationTimeout, Restore, AnswerBackend,
                      checkVars, subVars
  <2> QED
    BY <1>3, <2>1, <2>2, <2>3 DEF MainStep
<1>4. ASSUME NEW k \in Checks, StationStep(k) PROVE OpenIsStored'
  <2>1. CASE RefuseInspection(k)
    BY <2>1, <1>b DEF RefuseInspection, StationReply, subVars
  <2>2. CASE ClearSignal(k)
    BY <2>2, <1>b DEF ClearSignal, subVars
  <2>3. CASE WaitForFrame(k)
    BY <2>3, <1>b DEF WaitForFrame, subVars
  <2>4. CASE FramesTimeout(k)
    BY <2>4, <1>b DEF FramesTimeout, subVars
  <2>5. CASE ReadFrame(k)
    BY <2>5, <1>b DEF ReadFrame, subVars
  <2>6. CASE ActivateCamera(k)
    BY <1>a, <2>6 DEF ActivateCamera, Looking, OpenIsStored, OneCheckPerCamera
  <2>7. CASE Judge(k)
    <3>1. open' = open \ {subs[CameraOf[k]]}
          /\ subs' = [subs EXCEPT ![CameraOf[k]] = NoCheck]
          /\ station' = [station EXCEPT ![k] = "replied"]
      BY <2>7 DEF Judge, StationReply, DeactivateCamera
    <3>2. k \notin open'
      BY <3>1 DEF OpenIsStored
    <3> QED
      BY <1>a, <3>1, <3>2 DEF Looking, OpenIsStored, OneCheckPerCamera
  <2> QED
    BY <1>4, <2>1, <2>2, <2>3, <2>4, <2>5, <2>6, <2>7 DEF StationStep
<1>5. CASE CameraStep
  <2>1. ASSUME NEW c \in Cameras, NEW look \in Looks, CameraPublishes(c, look)
        PROVE  OpenIsStored'
    BY <2>1, <1>c DEF CameraPublishes, checkVars, subVars
  <2>2. ASSUME NEW k \in Checks, StoreFrame(k) PROVE OpenIsStored'
    BY <2>2, <1>c DEF StoreFrame, checkVars, subVars
  <2>3. CASE SignalFrame
    <3>1. /\ UNCHANGED << subs, open >>
          /\ station' = [k \in Checks |-> IF station[k] = "wait" THEN "read" ELSE station[k]]
      BY <2>3 DEF SignalFrame, subVars
    <3> QED
      BY <1>a, <3>1 DEF OpenIsStored, Looking
  <2> QED
    BY <1>5, <2>1, <2>2, <2>3 DEF CameraStep
<1> QED
  BY <1>1, <1>2, <1>3, <1>4, <1>5 DEF VisionNext

\* As long as the checks are of different robots, no camera stays subscribed between
\* inspections (detect_station_node.py:76), for any number of robots and threads.
THEOREM ClosesCameras ==
  OneCheckPerCamera /\ VisionSafety => []NoCameraLeft
<1>1. ASSUME OneCheckPerCamera PROVE VisionSafety => []NoCameraLeft
  <2>1. VisionTypeOK /\ OpenIsStored => NoCameraLeft
    BY DEF VisionTypeOK, OpenIsStored, NoCameraLeft
  <2>2. VisionTypeOK /\ CalledOnce /\ OpenIsStored /\ [VisionNext]_visionVars
          => OpenIsStored'
    BY <1>1, StoredNext
  <2> QED
    BY <2>1, <2>2, StoredInit, TypeInvariant, PTL DEF VisionSafety
<1> QED
  BY <1>1

-----------------------------------------------------------------------------
(* The verdict *)

\* What a check was told was judged from the frames it has.
Judged == \A k \in Checks : verdict[k] # NoCode =>
             station[k] = "replied" /\ verdict[k] \in {3, Judgement(k)}

LEMMA ShowingType ==
  ASSUME NEW seen \in Seq(Frames), NEW look PROVE Showing(seen, look) \in Nat
<1> DEFINE I == {i \in DOMAIN seen : seen[i].look = look}
<1>1. DOMAIN seen = 1 .. Len(seen) /\ Len(seen) \in Nat
  OBVIOUS
<1>2. IsFiniteSet(1 .. Len(seen))
  BY <1>1, FS_Interval
<1>3. I \subseteq 1 .. Len(seen)
  BY <1>1
<1> HIDE DEF I
<1>4. IsFiniteSet(I)
  BY <1>2, <1>3, FS_Subset
<1>5. Cardinality(I) \in Nat
  BY <1>4, FS_CardinalityType
<1> QED
  BY <1>5 DEF I, Showing

\* Halves of numbers.
LEMMA Halves == \A n \in Nat : n \div 2 \in Nat /\ 2 * (n \div 2) <= n /\ n <= 2 * (n \div 2) + 1
OBVIOUS

\* The vote, one way and the other, rests on half of the frames with a breaker.
LEMMA VoteFacts ==
  ASSUME NEW seen \in Seq(Frames)
  PROVE  /\ VotesClosed(seen) => 2 * Showing(seen, "closed") >= Recognised(seen)
         /\ ~ VotesClosed(seen) => 2 * Showing(seen, "open") >= Recognised(seen)
<1> DEFINE c == Showing(seen, "closed")
           o == Showing(seen, "open")
<1>1. c \in Nat /\ o \in Nat
  BY ShowingType
<1>2. Recognised(seen) = c + o /\ (VotesClosed(seen) <=> c >= ((c + o) \div 2) + 1)
  BY DEF Recognised, VotesClosed
<1> HIDE DEF c, o
<1>3. PICK h : h = (c + o) \div 2
  OBVIOUS
<1>4. h \in Nat /\ 2 * h <= c + o /\ c + o <= 2 * h + 1
  BY <1>1, <1>3, Halves
<1>5. c >= h + 1 => 2 * c >= c + o
  BY <1>1, <1>4
<1>6. ~ (c >= h + 1) => 2 * o >= c + o
  BY <1>1, <1>4
<1> QED
  BY <1>2, <1>3, <1>5, <1>6 DEF c, o

\* A judgement that is not an error had frames with a breaker.
LEMMA JudgementFacts ==
  ASSUME NEW k \in Checks, frames[k] \in Seq(Frames), Judgement(k) \in {0, 1}
  PROVE  /\ Recognised(frames[k]) > 0
         /\ (Judgement(k) = 0) <=> (VotesClosed(frames[k]) = Expected[k])
<1> DEFINE none == frames[k] = << >>
           few  == Recognised(frames[k]) < (Len(frames[k]) \div 2) + 1
           met  == VotesClosed(frames[k]) = Expected[k]
<1>1. Judgement(k) = IF none THEN 3 ELSE IF few THEN 2 ELSE IF met THEN 0 ELSE 1
  BY Zenon DEF Judgement
<1>2. Recognised(frames[k]) \in Nat /\ Len(frames[k]) \div 2 \in Nat
  <2>1. Showing(frames[k], "closed") \in Nat /\ Showing(frames[k], "open") \in Nat
    BY ShowingType
  <2>2. Recognised(frames[k]) \in Nat
    <3>1. \A c, o \in Nat : c + o \in Nat
      OBVIOUS
    <3> QED
      BY <2>1, <3>1, Zenon DEF Recognised
  <2>3. Len(frames[k]) \in Nat
    OBVIOUS
  <2>4. Len(frames[k]) \div 2 \in Nat
    BY <2>3, Halves, Zenon
  <2> QED
    BY <2>2, <2>4
<1>3. ~ few => Recognised(frames[k]) > 0
  <2>1. \A n, h \in Nat : ~ (n < h + 1) => n > 0
    OBVIOUS
  <2> QED
    BY <1>2, <2>1, Zenon
<1> HIDE DEF none, few, met
<1>4. ~ few /\ ((Judgement(k) = 0) <=> met)
  BY <1>1
<1> QED
  BY <1>3, <1>4 DEF met

LEMMA JudgedInit == VisionInit => Judged
BY DEF VisionInit, Judged

LEMMA JudgedNext ==
  ASSUME VisionTypeOK, CalledOnce, Judged, [VisionNext]_visionVars
  PROVE  Judged'
<1>a. DOMAIN station = Checks /\ DOMAIN verdict = Checks /\ DOMAIN frames = Checks
  BY DEF VisionTypeOK
<1>b. ASSUME UNCHANGED << station, verdict, frames >> PROVE Judged'
  BY <1>b DEF Judged, Judgement
\* A check that was told nothing goes on, the frames and verdicts of the others stay.
<1>c. ASSUME NEW k \in Checks, station[k] # "replied", UNCHANGED verdict,
             \A l \in Checks \ {k} : station'[l] = station[l] /\ frames'[l] = frames[l]
      PROVE  Judged'
  <2> SUFFICES ASSUME NEW l \in Checks, verdict'[l] # NoCode
               PROVE  station'[l] = "replied" /\ verdict'[l] \in {3, Judgement(l)'}
    BY DEF Judged
  <2>1. station[l] = "replied" /\ verdict[l] \in {3, Judgement(l)}
    BY <1>c DEF Judged
  <2>2. l # k
    BY <1>c, <2>1
  <2>3. Judgement(l)' = Judgement(l)
    BY <1>c, <2>2 DEF Judgement
  <2> QED
    BY <1>c, <2>1, <2>2, <2>3
<1>1. CASE UNCHANGED visionVars
  BY <1>1, <1>b DEF visionVars, checkVars
<1>2. CASE (\E n \in {"main", "station"} : HearStart(n)) \/ SetThrottle
  BY <1>2, <1>b DEF HearStart, SetThrottle, checkVars
<1>3. ASSUME NEW k \in Checks, BackendAsks(k) \/ MainStep(k) PROVE Judged'
  <2>1. CASE CallStation(k)
    <3>1. station[k] = "idle"
      BY <2>1 DEF CallStation, CalledOnce
    <3>2. station' = [station EXCEPT ![k] = "called"] /\ UNCHANGED << verdict, frames >>
      BY <2>1 DEF CallStation
    <3>3. \A l \in Checks \ {k} : station'[l] = station[l] /\ frames'[l] = frames[l]
      BY <1>a, <3>2
    <3> QED
      BY <1>c, <3>1, <3>2, <3>3
  <2>2. CASE BackendAsks(k) \/ Refuse(k) \/ Throttle(k)
    BY <2>2, <1>b DEF BackendAsks, Refuse, Throttle, checkVars
  <2>3. CASE StationReplies(k) \/ StationTimeout(k) \/ AnswerBackend(k)
    BY <2>3, <1>b DEF StationReplies, StationTimeout, Restore, AnswerBackend, checkVars
  <2> QED
    BY <1>3, <2>1, <2>2, <2>3 DEF MainStep
<1>4. ASSUME NEW k \in Checks, StationStep(k) PROVE Judged'
  <2>1. ASSUME NEW code, StationReply(k, code), code \in {3, Judgement(k)}, UNCHANGED frames
        PROVE  Judged'
    <3> SUFFICES ASSUME NEW l \in Checks, verdict'[l] # NoCode
                 PROVE  station'[l] = "replied" /\ verdict'[l] \in {3, Judgement(l)'}
      BY DEF Judged
    <3>1. Judgement(l)' = Judgement(l)
      BY <2>1 DEF Judgement
    <3>2. /\ l = k => station'[l] = "replied" /\ verdict'[l] = code
          /\ l # k => station'[l] = station[l] /\ verdict'[l] = verdict[l]
      BY <1>a, <2>1 DEF StationReply
    <3> QED
      BY <2>1, <3>1, <3>2 DEF Judged
  <2>2. CASE RefuseInspection(k)
    BY <2>1, <2>2 DEF RefuseInspection
  <2>3. CASE Judge(k)
    BY <2>1, <2>3 DEF Judge
  <2>4. CASE ActivateCamera(k) \/ ClearSignal(k) \/ WaitForFrame(k) \/ FramesTimeout(k) \/ ReadFrame(k)
    <3>1. /\ station[k] # "replied" /\ UNCHANGED verdict
          /\ \E next : station' = [station EXCEPT ![k] = next]
      BY <2>4 DEF ActivateCamera, ClearSignal, WaitForFrame, FramesTimeout, ReadFrame
    <3>2. \A l \in Checks \ {k} : frames'[l] = frames[l]
      BY <1>a, <2>4 DEF ActivateCamera, ClearSignal, WaitForFrame, FramesTimeout, ReadFrame
    <3>3. \A l \in Checks \ {k} : station'[l] = station[l]
      BY <1>a, <3>1
    <3> QED
      BY <1>c, <3>1, <3>2, <3>3
  <2> QED
    BY <1>4, <2>2, <2>3, <2>4 DEF StationStep
<1>5. CASE CameraStep
  <2>1. CASE SignalFrame
    <3>1. /\ UNCHANGED << verdict, frames >>
          /\ \A k \in Checks : station[k] = "replied" => station'[k] = "replied"
      BY <2>1 DEF SignalFrame
    <3>2. \A k \in Checks : Judgement(k)' = Judgement(k)
      BY <3>1 DEF Judgement
    <3> QED
      BY <3>1, <3>2 DEF Judged
  <2>2. CASE \/ \E c \in Cameras, look \in Looks : CameraPublishes(c, look)
            \/ \E k \in Checks : StoreFrame(k)
    BY <2>2, <1>b DEF CameraPublishes, StoreFrame, checkVars
  <2> QED
    BY <1>5, <2>1, <2>2 DEF CameraStep
<1> QED
  BY <1>1, <1>2, <1>3, <1>4, <1>5 DEF VisionNext

\* A breaker is reported closed or open only if frames showed one, and at least half of
\* those that did show it so (detect_station_node.py:168), for any sample_frame_count
\* and whatever other checks do to the shared table of frames meanwhile.
THEOREM VerdictFollowsFrames == VisionSafety => []VerdictSeen
<1>1. ASSUME VisionTypeOK, Judged PROVE VerdictSeen
  <2>1. ASSUME NEW k \in Checks, verdict[k] \in {0, 1}
        PROVE  /\ Recognised(frames[k]) > 0
               /\ (verdict[k] = 0) = Expected[k] => 2 * Showing(frames[k], "closed") >= Recognised(frames[k])
               /\ (verdict[k] = 0) # Expected[k] => 2 * Showing(frames[k], "open") >= Recognised(frames[k])
    <3>1. verdict[k] # NoCode
      BY <2>1, VisionAssumption DEF Codes
    <3>2. Judgement(k) = verdict[k] /\ frames[k] \in Seq(Frames)
      BY <1>1, <2>1, <3>1 DEF Judged, VisionTypeOK
    <3>3. Recognised(frames[k]) > 0 /\ ((verdict[k] = 0) <=> (VotesClosed(frames[k]) = Expected[k]))
      BY <2>1, <3>2, JudgementFacts
    <3>4. Expected[k] \in BOOLEAN /\ VotesClosed(frames[k]) \in BOOLEAN
      BY VisionAssumption DEF VotesClosed
    <3>5. /\ VotesClosed(frames[k]) => 2 * Showing(frames[k], "closed") >= Recognised(frames[k])
          /\ ~ VotesClosed(frames[k]) => 2 * Showing(frames[k], "open") >= Recognised(frames[k])
      BY <3>2, VoteFacts
    <3>6. /\ (verdict[k] = 0) = Expected[k] => VotesClosed(frames[k])
          /\ (verdict[k] = 0) # Expected[k] => ~ VotesClosed(frames[k])
      BY <3>3, <3>4
    <3> QED
      BY <3>3, <3>5, <3>6, Zenon
  <2> QED
    BY <2>1 DEF VerdictSeen
<1>2. VisionTypeOK /\ CalledOnce /\ Judged /\ [VisionNext]_visionVars => Judged'
  BY JudgedNext
<1> QED
  BY <1>1, <1>2, JudgedInit, TypeInvariant, PTL DEF VisionSafety
=============================================================================
