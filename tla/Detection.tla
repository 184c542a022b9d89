------------------------------ MODULE Detection ------------------------------
(***************************************************************************)
(* From the frames to the events: the two detectors publish on              *)
(* /detection/cam_state, the vision bridge queues the messages and ingests  *)
(* them into events, merging what is in the same zone within a window.  The *)
(* REST call /events/detect ingests by the same function.                   *)
(***************************************************************************)
EXTENDS DetectCctv, DetectAmbient

CONSTANTS ZoneOf,          \* zone_id of a camera, NoZone of a robot's
          NoZone,
          RestZones,       \* zones in which a REST client detects something
          SteadyCams,      \* cameras that may come to see a class all the time
          UiStart,         \* values of /ui/start; the backend only publishes TRUE
          InboundSize, MaxEvents

ASSUME DetectionAssumption == /\ Cctvs \cap AmrCams = {} /\ IsFiniteSet(Cctvs) /\ UiStart \subseteq BOOLEAN
                              /\ IsFiniteSet(StatusStates) /\ IsFiniteSet(AnomalyClasses)
                              /\ InboundSize \in Nat /\ MaxEvents \in Nat

VARIABLES inbound,         \* _inbound
          events,          \* rows: zone, class, status (open, closed, open again), within the dedup window
          steady,          \* the camera and class that every inference sees from now on
          quiet,           \* inferences in a row that did not see it, up to Off; more: it was never seen
          reports,         \* reports since it was last gone
          lost             \* a report was dropped, or its handling failed

worldVars == <<inbound, events, steady, quiet, reports, lost>>
vars == <<cctvVars, ambientVars, worldVars>>

Cams == Cctvs \cup AmrCams
ClassesOf(c) == IF c \in Cctvs THEN StatusStates ELSE AnomalyClasses
Off(c) == IF c \in Cctvs THEN OffMissThreshold ELSE AmbientOff

Init == /\ CctvInit /\ AmbientInit
        /\ inbound = <<>> /\ events = <<>> /\ lost = FALSE
        /\ steady = <<>>
        /\ quiet = [c \in Cams |-> [k \in ClassesOf(c) |-> Off(c) + 1]]
        /\ reports = [c \in Cams |-> [k \in ClassesOf(c) |-> 0]]

IsReport(m) == m.camera \in AmrCams \/ m.box

\* _produce and _enqueue: the newest messages, as many as the queue has places.
Enqueue(msgs) ==
    LET all == inbound \o msgs
        out == IF Len(all) > InboundSize THEN Len(all) - InboundSize ELSE 0
    IN  /\ inbound' = SubSeq(all, out + 1, Len(all))
        /\ lost' = (lost \/ \E i \in 1 .. out : IsReport(all[i]))

\* What the frames of the watched cameras show, told from what the detectors make of
\* it: a report counts against the last time the class was gone for as long as it
\* takes to end it.
Watched(watched, seen) ==
    /\ quiet' = [c \in Cams |-> [k \in ClassesOf(c) |->
                   IF c \notin watched THEN quiet[c][k]
                   ELSE IF k \in seen[c] THEN 0
                   ELSE IF quiet[c][k] < Off(c) THEN quiet[c][k] + 1 ELSE quiet[c][k]]]
    /\ \A c \in watched : \A k \in ClassesOf(c) : steady = <<c, k>> => k \in seen[c]

\* The step reports the class.
Reported(c, k) == IF c \in Cctvs THEN lastStatus'[c][k] /\ ~lastStatus[c][k]
                                 ELSE k \in active'[c] /\ k \notin active[c]

Counted ==
    reports' = [c \in Cams |-> [k \in ClassesOf(c) |->
                  IF quiet'[c][k] >= Off(c) THEN 0
                  ELSE IF Reported(c, k) /\ reports[c][k] < 2 THEN reports[c][k] + 1
                  ELSE reports[c][k]]]

StartStopCctv(on) ==
    /\ StartCctv(on) /\ Enqueue(InitialStatus)
    /\ reports' = [c \in Cams |-> IF c \in Cctvs THEN [k \in StatusStates |-> 0] ELSE reports[c]]
    /\ UNCHANGED <<ambientVars, events, steady, quiet>>

StartStopAmbient(on) ==
    /\ StartAmbient(on)
    /\ UNCHANGED <<cctvVars, worldVars>>

CaptureFrame(c) == Capture(c) /\ UNCHANGED <<ambientVars, worldVars>>

\* The timer: a batch of all new frames, or as many cameras as come before the broken one.
InferCctv ==
    \E seen \in [Cctvs -> SUBSET StatusStates], broken \in Cctvs \cup {NoCamera}, done \in SUBSET Cctvs :
        /\ ProcessFrames(seen, broken, done)
        /\ Enqueue(StatusChanges)
        /\ UNCHANGED <<ambientVars, events, steady>>
        /\ Watched(done \cup ({broken} \cap Cctvs), seen) /\ Counted

InferAmbient(a) ==
    \E seen \in SUBSET AnomalyClasses :
        /\ Image(a, seen) /\ Enqueue(Appeared(a))
        /\ UNCHANGED <<cctvVars, events, steady>>
        /\ Watched({a}, [b \in {a} |-> seen]) /\ Counted

BecomesSteady(c, k) ==
    /\ steady = <<>> /\ steady' = <<c, k>>
    /\ UNCHANGED <<cctvVars, ambientVars, inbound, events, quiet, reports, lost>>

\* Its status is not one of CLOSED_STATUSES.
IsOpen(i) == events[i].status # "closed"

\* Mutant: the window is compared the wrong way round.
BugOutsideWindow(zone, k) ==
    {i \in DOMAIN events : /\ zone # NoZone /\ events[i].zone = zone /\ events[i].class = k
                           /\ ~events[i].recent /\ IsOpen(i)}

\* find_dedup_target.
DedupTargets(zone, k) ==
    {i \in DOMAIN events : /\ zone # NoZone /\ events[i].zone = zone /\ events[i].class = k
                           /\ events[i].recent /\ IsOpen(i)}

\* detection.ingest: merged, which only counts a hit, or a new event.
Ingest(zone, k) ==
    IF DedupTargets(zone, k) # {} THEN UNCHANGED events
    ELSE /\ Len(events) < MaxEvents
         /\ events' = Append(events, [zone |-> zone, class |-> k, status |-> "open", recent |-> zone # NoZone])

\* Mutant: a CCTV message without a box is a detection too.
BugNoBoxNeeded(m) == FALSE

\* A CCTV message without a box is the initial status or an end.
Ignored(m) == m.camera \in Cctvs /\ ~m.box

\* _handle, up to what Missions makes of a new event; an exception is logged.
Handle ==
    /\ inbound # <<>> /\ inbound' = Tail(inbound)
    /\ LET m == Head(inbound)
       IN  \/ /\ Ignored(m) /\ UNCHANGED <<events, lost>>
           \/ /\ ~Ignored(m) /\ Ingest(ZoneOf[m.camera], m.class) /\ UNCHANGED lost
           \/ /\ ~Ignored(m) /\ lost' = TRUE /\ UNCHANGED events
    /\ UNCHANGED <<cctvVars, ambientVars, steady, quiet, reports>>

\* POST /events/detect.  An older time that the client names is a later WindowEnds.
Detect(zone, k) ==
    /\ Ingest(zone, k)
    /\ UNCHANGED <<cctvVars, ambientVars, inbound, steady, quiet, reports, lost>>

WindowEnds(i) ==
    /\ events[i].recent
    /\ events' = [events EXCEPT ![i].recent = FALSE]
    /\ UNCHANGED <<cctvVars, ambientVars, inbound, steady, quiet, reports, lost>>

\* set_status, to a status of CLOSED_STATUSES.
Close(i) ==
    /\ IsOpen(i)
    /\ events' = [events EXCEPT ![i].status = "closed"]
    /\ UNCHANGED <<cctvVars, ambientVars, inbound, steady, quiet, reports, lost>>

\* set_status, of a closed event to another status: a verdict, a review or a new
\* inspection, a dispatch.  None of them asks whether it was closed.
Reopen(i) ==
    /\ ~IsOpen(i)
    /\ events' = [events EXCEPT ![i].status = "reopened"]
    /\ UNCHANGED <<cctvVars, ambientVars, inbound, steady, quiet, reports, lost>>

Next == \/ \E on \in UiStart : StartStopCctv(on) \/ StartStopAmbient(on)
        \/ InferCctv \/ \E c \in Cctvs : CaptureFrame(c)
        \/ \E a \in AmrCams : InferAmbient(a)
        \/ \E c \in SteadyCams : \E k \in ClassesOf(c) : BecomesSteady(c, k)
        \/ Handle
        \/ \E zone \in RestZones, k \in StatusStates : Detect(zone, k)
        \/ \E i \in DOMAIN events : WindowEnds(i) \/ Close(i) \/ Reopen(i)

\* Cameras deliver frames, the timer fires and the consumer task runs.
Fairness == /\ \A c \in SteadyCams \cap Cctvs : WF_vars(CaptureFrame(c))
            /\ WF_vars(InferCctv)
            /\ \A a \in SteadyCams \cap AmrCams : WF_vars(InferAmbient(a))
            /\ WF_vars(Handle)

Spec == Init /\ [][Next]_vars /\ Fairness

-----------------------------------------------------------------------------
\* The counts of both detectors stay below their thresholds and the queue within its size.
DetectionTypeOK == CctvTypeOK /\ AmbientTypeOK /\ Len(inbound) <= InboundSize /\ Len(events) <= MaxEvents

\* An anomaly that flickers is reported once, until it was gone for as many frames
\* as it takes to end it (detect_ambient_node.py:45, :247; detect_cctv_node.py:534).
OneReportPerEpisode == \A c \in Cams : \A k \in ClassesOf(c) : reports[c][k] <= 1

\* The bridge makes no event of what its camera never saw: starting the detection
\* raises no false alarms (vision_bridge.py:262).
NoFalseAlarm ==
    [][Len(events') > Len(events) /\ inbound' # inbound
          => LET m == Head(inbound) IN quiet[m.camera][m.class] <= Off(m.camera)]_vars

\* Of two events of one zone and class within the window the older was closed
\* when the newer came, and is open only if it was opened again since: the two
\* ways in share one memory (detection.py:3), also with a closed event in it.
DuplicatesAreReopened ==
    \A i, j \in DOMAIN events :
        /\ i < j /\ events[i].zone = events[j].zone /\ events[i].zone # NoZone
        /\ events[i].class = events[j].class /\ events[i].recent /\ IsOpen(i)
        => events[i].status = "reopened"

\* What every frame shows becomes an event, unless detection is stopped, the
\* message is lost, or the bound of the model is reached.
SteadyIsAnEvent ==
    \A c \in SteadyCams : \A k \in ClassesOf(c) :
        steady = <<c, k>> ~> \/ \E i \in DOMAIN events : events[i].class = k /\ events[i].zone = ZoneOf[c]
                            \/ lost
                            \/ Len(events) = MaxEvents
                            \/ ~(IF c \in Cctvs THEN cctvStarted ELSE ambientStarted)
=============================================================================
