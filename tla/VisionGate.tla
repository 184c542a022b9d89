----------------------------- MODULE VisionGate -----------------------------
(***************************************************************************)
(* The breaker inspection of the vision nodes.  detect_main_node answers   *)
(* each check of the backend in a thread of its own: it throttles the      *)
(* ambient detector, lets detect_station_node look at the robot's camera,  *)
(* and restores the ambient detector.  The station collects frames while   *)
(* the image callbacks of all its open subscriptions share one table of    *)
(* latest frames and one event.                                            *)
(***************************************************************************)
EXTENDS Naturals, Sequences, FiniteSets

CONSTANTS
  Checks,       \* calls of /backend/check_gate
  Cameras,      \* AMR camera topics
  CameraOf,     \* the camera of the robot a check names
  Expected,     \* request.gate_state of a check: TRUE for closed
  Looks,        \* what a frame may show, of "closed", "open", "nothing"
  SampleCount,  \* sample_frame_count
  Threads,      \* threads of an executor
  MaxFrames,    \* bound on the images a camera publishes
  NoCheck, NoFrame, NoCode

Codes == 0 .. 3

ASSUME VisionAssumption ==
  /\ CameraOf \in [Checks -> Cameras]
  /\ Expected \in [Checks -> BOOLEAN]
  /\ Looks \subseteq {"closed", "open", "nothing"}
  /\ SampleCount \in Nat \ {0}
  /\ Threads \in Nat \ {0}
  /\ MaxFrames \in Nat
  /\ NoCheck \notin Checks
  /\ NoCode \notin Codes

Frames == [n : 1 .. MaxFrames, look : Looks]

ASSUME NoFrameAssumption == NoFrame \notin Frames

VARIABLES
  phase,     \* where detect_main's callback of a check is
  result,    \* inspect_result of a check
  answer,    \* the error_state answered
  started,   \* task_started of main and station
  calls,     \* set_throttle requests the ambient node has not served
  throttled, \* process_every_n is the throttled one
  station,   \* where the station's callback of a check is
  verdict,   \* the error_state the station replied
  subs,      \* _subs: the check whose subscription is stored for a camera
  open,      \* the subscriptions that exist, named by the check that made them
  inbox,     \* the image waiting for a subscription (KEEP_LAST 1)
  latest,    \* _latest_frames
  signal,    \* _new_frame_event is set
  writing,   \* an image callback has stored its frame and not set the event
  frames,    \* the frames a check has collected
  tries,     \* rounds of the collecting loop it has made
  taken      \* images a camera has published

mainVars    == << phase, result, answer >>
ambientVars == << calls, throttled >>
cameraVars  == << inbox, latest, signal, writing, taken >>
checkVars   == << station, verdict, frames, tries >>
subVars     == << subs, open >>
visionVars  == << mainVars, started, ambientVars, cameraVars, checkVars, subVars >>

VisionInit ==
  /\ phase = [k \in Checks |-> "idle"]
  /\ result = [k \in Checks |-> NoCode]
  /\ answer = [k \in Checks |-> NoCode]
  /\ started = [n \in {"main", "station"} |-> FALSE]
  /\ calls = << >>
  /\ throttled = FALSE
  /\ station = [k \in Checks |-> "idle"]
  /\ verdict = [k \in Checks |-> NoCode]
  /\ subs = [c \in Cameras |-> NoCheck]
  /\ open = {}
  /\ inbox = [k \in Checks |-> NoFrame]
  /\ latest = [c \in Cameras |-> NoFrame]
  /\ signal = FALSE
  /\ writing = FALSE
  /\ frames = [k \in Checks |-> << >>]
  /\ tries = [k \in Checks |-> 0]
  /\ taken = [c \in Cameras |-> 0]

\* /ui/start reaches one of the nodes and changes its flag.
HearStart(n) ==
  /\ started' = [started EXCEPT ![n] = ~ @]
  /\ UNCHANGED << mainVars, ambientVars, cameraVars, checkVars, subVars >>

-----------------------------------------------------------------------------
(* detect_main_node *)

Throttling == {"throttling", "inspecting", "restoring"}
MainBusy   == {k \in Checks : phase[k] \in Throttling}

\* The backend calls the service.
BackendAsks(k) ==
  /\ phase[k] = "idle"
  /\ phase' = [phase EXCEPT ![k] = "called"]
  /\ UNCHANGED << result, answer, started, ambientVars, cameraVars, checkVars, subVars >>

\* A thread takes the call; before detection has started it answers at once.
Refuse(k) ==
  /\ phase[k] = "called"
  /\ Cardinality(MainBusy) < Threads
  /\ ~ started["main"]
  /\ phase' = [phase EXCEPT ![k] = "answered"]
  /\ answer' = [answer EXCEPT ![k] = 3]
  /\ UNCHANGED << result, started, ambientVars, cameraVars, checkVars, subVars >>

\* The request to throttle is on its way to the ambient node.
Throttle(k) ==
  /\ phase[k] = "called"
  /\ Cardinality(MainBusy) < Threads
  /\ started["main"]
  /\ phase' = [phase EXCEPT ![k] = "throttling"]
  /\ calls' = Append(calls, TRUE)
  /\ UNCHANGED << result, answer, started, throttled, cameraVars, checkVars, subVars >>

\* Reply or time-out: the result of set_throttle is not looked at.
CallStation(k) ==
  /\ phase[k] = "throttling"
  /\ phase' = [phase EXCEPT ![k] = "inspecting"]
  /\ station' = [station EXCEPT ![k] = "called"]
  /\ UNCHANGED << result, answer, started, ambientVars, cameraVars, verdict,
                  frames, tries, subVars >>

\* Mutant: the ambient detector is restored only after an inspection that answered.
BugRestoresOnSuccess(k, code) ==
  /\ phase' = [phase EXCEPT ![k] = "restoring"]
  /\ result' = [result EXCEPT ![k] = code]
  /\ calls' = IF code = NoCode THEN calls ELSE Append(calls, FALSE)
  /\ UNCHANGED << answer, started, throttled, cameraVars, checkVars, subVars >>

\* The restoring request follows the inspection whatever came of it.
Restore(k, code) ==
  /\ phase' = [phase EXCEPT ![k] = "restoring"]
  /\ result' = [result EXCEPT ![k] = code]
  /\ calls' = Append(calls, FALSE)
  /\ UNCHANGED << answer, started, throttled, cameraVars, checkVars, subVars >>

\* A second thread is needed to receive the station's reply.
StationReplies(k) ==
  /\ phase[k] = "inspecting"
  /\ verdict[k] # NoCode
  /\ Cardinality(MainBusy) < Threads
  /\ Restore(k, verdict[k])

\* Mutant: the call to the station has no deadline.
BugNoDeadline(k) == FALSE

StationTimeout(k) ==
  /\ phase[k] = "inspecting"
  /\ Restore(k, NoCode)

AnswerBackend(k) ==
  /\ phase[k] = "restoring"
  /\ phase' = [phase EXCEPT ![k] = "answered"]
  /\ answer' = [answer EXCEPT ![k] = IF result[k] = NoCode THEN 3 ELSE result[k]]
  /\ UNCHANGED << result, started, ambientVars, cameraVars, checkVars, subVars >>

\* The ambient node, between two frames, serves the oldest request.
SetThrottle ==
  /\ calls # << >>
  /\ throttled' = Head(calls)
  /\ calls' = Tail(calls)
  /\ UNCHANGED << mainVars, started, cameraVars, checkVars, subVars >>

-----------------------------------------------------------------------------
(* detect_station_node *)

Looking(k) == station[k] \in {"clear", "cleared", "wait", "read", "judge"}
StationBusy == Cardinality({k \in Checks : Looking(k)}) + (IF writing THEN 1 ELSE 0)

StationReply(k, code) ==
  /\ station' = [station EXCEPT ![k] = "replied"]
  /\ verdict' = [verdict EXCEPT ![k] = code]

RefuseInspection(k) ==
  /\ station[k] = "called"
  /\ StationBusy < Threads
  /\ ~ started["station"]
  /\ StationReply(k, 3)
  /\ UNCHANGED << mainVars, started, ambientVars, cameraVars, frames, tries, subVars >>

\* The whole table of frames is dropped, also what others have in it, and the
\* subscription of the camera is stored over one that may be there.
ActivateCamera(k) ==
  /\ station[k] = "called"
  /\ StationBusy < Threads
  /\ started["station"]
  /\ station' = [station EXCEPT ![k] = "clear"]
  /\ latest' = [c \in Cameras |-> NoFrame]
  /\ signal' = FALSE
  /\ subs' = [subs EXCEPT ![CameraOf[k]] = k]
  /\ open' = open \cup {k}
  /\ UNCHANGED << mainVars, started, ambientVars, inbox, writing, taken, verdict,
                  frames, tries >>

\* A camera publishes an image; each open subscription keeps the newest.
CameraPublishes(c, look) ==
  /\ taken[c] < MaxFrames
  /\ taken' = [taken EXCEPT ![c] = @ + 1]
  /\ inbox' = [k \in Checks |->
                 IF k \in open /\ CameraOf[k] = c
                 THEN [n |-> taken[c] + 1, look |-> look] ELSE inbox[k]]
  /\ UNCHANGED << mainVars, started, ambientVars, latest, signal, writing,
                  checkVars, subVars >>

\* Image callbacks exclude one another, but not the collecting threads.
StoreFrame(k) ==
  /\ k \in open /\ inbox[k] # NoFrame
  /\ ~ writing
  /\ StationBusy < Threads
  /\ latest' = [latest EXCEPT ![CameraOf[k]] = inbox[k]]
  /\ inbox' = [inbox EXCEPT ![k] = NoFrame]
  /\ writing' = TRUE
  /\ UNCHANGED << mainVars, started, ambientVars, signal, taken, checkVars, subVars >>

\* The event wakes whoever waits, also if another thread clears it at once.
SignalFrame ==
  /\ writing
  /\ writing' = FALSE
  /\ signal' = TRUE
  /\ station' = [k \in Checks |-> IF station[k] = "wait" THEN "read" ELSE station[k]]
  /\ UNCHANGED << mainVars, started, ambientVars, inbox, latest, taken, verdict,
                  frames, tries, subVars >>

ClearSignal(k) ==
  /\ station[k] = "clear"
  /\ signal' = FALSE
  /\ station' = [station EXCEPT ![k] = "cleared"]
  /\ UNCHANGED << mainVars, started, ambientVars, inbox, latest, writing, taken,
                  verdict, frames, tries, subVars >>

WaitForFrame(k) ==
  /\ station[k] = "cleared"
  /\ station' = [station EXCEPT ![k] = IF signal THEN "read" ELSE "wait"]
  /\ UNCHANGED << mainVars, started, ambientVars, cameraVars, verdict, frames,
                  tries, subVars >>

\* fresh_frame_timeout_sec is over, before a wait or in one.
FramesTimeout(k) ==
  /\ station[k] \in {"clear", "wait"}
  /\ station' = [station EXCEPT ![k] = "judge"]
  /\ UNCHANGED << mainVars, started, ambientVars, cameraVars, verdict, frames,
                  tries, subVars >>

ReadFrame(k) ==
  LET frame == latest[CameraOf[k]] IN
  /\ station[k] = "read"
  /\ frames' = IF frame = NoFrame THEN frames
               ELSE [frames EXCEPT ![k] = Append(@, frame)]
  /\ tries' = [tries EXCEPT ![k] = @ + 1]
  /\ station' = [station EXCEPT ![k] =
                   IF tries[k] + 1 = SampleCount THEN "judge" ELSE "clear"]
  /\ UNCHANGED << mainVars, started, ambientVars, cameraVars, verdict, subVars >>

Showing(seen, look) == Cardinality({i \in DOMAIN seen : seen[i].look = look})
Recognised(seen)    == Showing(seen, "closed") + Showing(seen, "open")

\* Mutant: more than the majority is needed for closed.
BugStrictVote(seen) == Showing(seen, "closed") > (Recognised(seen) \div 2) + 1

\* The vote: closed needs more than half of the frames that show a breaker.
VotesClosed(seen) == Showing(seen, "closed") >= (Recognised(seen) \div 2) + 1

Judgement(k) ==
  LET seen == frames[k] IN
  IF seen = << >> THEN 3
  ELSE IF Recognised(seen) < (Len(seen) \div 2) + 1 THEN 2
  ELSE IF VotesClosed(seen) = Expected[k] THEN 0 ELSE 1

\* _deactivate_cam_sub, in the finally of the callback: the subscription that
\* is stored for the camera is destroyed, if there is one.
DeactivateCamera(c) ==
  /\ subs' = [subs EXCEPT ![c] = NoCheck]
  /\ open' = open \ {subs[c]}
  /\ inbox' = [k \in Checks |-> IF k = subs[c] THEN NoFrame ELSE inbox[k]]

\* Mutant: without frames the callback returns past the clean-up.
BugReturnsEarly(k) ==
  /\ station[k] = "judge"
  /\ StationReply(k, Judgement(k))
  /\ IF frames[k] = << >> THEN UNCHANGED << subs, open, inbox >>
     ELSE DeactivateCamera(CameraOf[k])
  /\ UNCHANGED << mainVars, started, ambientVars, latest, signal, writing, taken,
                  frames, tries >>

Judge(k) ==
  /\ station[k] = "judge"
  /\ StationReply(k, Judgement(k))
  /\ DeactivateCamera(CameraOf[k])
  /\ UNCHANGED << mainVars, started, ambientVars, latest, signal, writing, taken,
                  frames, tries >>

-----------------------------------------------------------------------------
MainStep(k) ==
  \/ Refuse(k) \/ Throttle(k) \/ CallStation(k)
  \/ StationReplies(k) \/ StationTimeout(k) \/ AnswerBackend(k)

StationStep(k) ==
  \/ RefuseInspection(k) \/ ActivateCamera(k)
  \/ ClearSignal(k) \/ WaitForFrame(k) \/ FramesTimeout(k) \/ ReadFrame(k) \/ Judge(k)

CameraStep ==
  \/ \E c \in Cameras, look \in Looks : CameraPublishes(c, look)
  \/ \E k \in Checks : StoreFrame(k)
  \/ SignalFrame

VisionNext ==
  \/ \E n \in {"main", "station"} : HearStart(n)
  \/ \E k \in Checks : BackendAsks(k) \/ MainStep(k) \/ StationStep(k)
  \/ SetThrottle
  \/ CameraStep

\* Threads run, and a wait ends with its time-out; nothing is assumed of the
\* cameras or of who starts detection.
VisionFairness ==
  /\ \A k \in Checks : WF_visionVars(MainStep(k)) /\ WF_visionVars(StationStep(k))
  /\ WF_visionVars(SetThrottle)

VisionSafety == VisionInit /\ [][VisionNext]_visionVars
VisionSpec   == VisionSafety /\ VisionFairness

-----------------------------------------------------------------------------
(* Properties *)

Code == Codes \cup {NoCode}

\* Every variable of the inspection keeps its type.
VisionTypeOK ==
  /\ phase \in [Checks -> {"idle", "called", "answered"} \cup Throttling]
  /\ result \in [Checks -> Code] /\ answer \in [Checks -> Code]
  /\ started \in [{"main", "station"} -> BOOLEAN]
  /\ calls \in Seq(BOOLEAN) /\ throttled \in BOOLEAN
  /\ station \in [Checks -> {"idle", "called", "clear", "cleared", "wait", "read",
                             "judge", "replied"}]
  /\ verdict \in [Checks -> Code]
  /\ subs \in [Cameras -> Checks \cup {NoCheck}] /\ open \subseteq Checks
  /\ inbox \in [Checks -> Frames \cup {NoFrame}]
  /\ latest \in [Cameras -> Frames \cup {NoFrame}]
  /\ signal \in BOOLEAN /\ writing \in BOOLEAN
  /\ frames \in [Checks -> Seq(Frames)]
  /\ tries \in [Checks -> 0 .. SampleCount]
  /\ taken \in [Cameras -> 0 .. MaxFrames]

\* The ambient detector is back at full speed once no check is under way and it
\* has served what was asked of it, in whatever order the checks throttled and
\* restored it and whichever of their calls timed out (detect_main_node.py:82,93).
ThrottleRestored ==
  MainBusy = {} /\ calls = << >> => ~ throttled

\* Between inspections the station is subscribed to no AMR camera
\* (detect_station_node.py:76 "opens and closes at every inspect_gate call").
NoCameraLeft ==
  open # {} => \E k \in Checks : Looking(k)

\* A breaker is reported closed or open only if at least half of the frames in
\* which it was recognised show it so (detect_station_node.py:168-186).
VerdictSeen ==
  \A k \in Checks : verdict[k] \in {0, 1} =>
    LET claim == IF (verdict[k] = 0) = Expected[k] THEN "closed" ELSE "open" IN
    /\ Recognised(frames[k]) > 0
    /\ 2 * Showing(frames[k], claim) >= Recognised(frames[k])

\* Once the ambient detector was throttled for a check it stays so while the
\* station works for that check and main waits for it (detect_ambient_node.py:90
\* "while detect_station_node inspects").
ThrottledWhileInspecting ==
  [][\A k \in Checks : phase[k] = "inspecting" /\ Looking(k)
       => (throttled => throttled')]_visionVars

\* The nodes together are the check service of GateService: one answer for each
\* check asked for, never withdrawn, and it comes although every thread of the
\* executor may be taken by a check that waits (detect_main_node.py:61-72).
Asked == {k \in Checks : phase[k] # "idle"}
Service == INSTANCE GateService WITH asked <- Asked
AnswersChecks == Service!ServiceSpec
=============================================================================
