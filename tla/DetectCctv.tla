------------------------------ MODULE DetectCctv ------------------------------
(***************************************************************************)
(* detect_cctv_node: a capture thread per camera keeps the newest frame, a  *)
(* timer infers the frames that are new and reports, per class of anomaly,  *)
(* a status that changed.  A class appears after HitThreshold inferences in *)
(* a row that see it and ends after OffMissThreshold in a row that do not.  *)
(* What an inference sees is left open.                                     *)
(***************************************************************************)
EXTENDS Naturals, Sequences, SequencesExt

CONSTANTS Cctvs, StatusStates,
          HitThreshold, OffMissThreshold,
          NoCamera

ASSUME CctvAssumption == /\ HitThreshold \in Nat \ {0} /\ OffMissThreshold \in Nat \ {0}
                         /\ NoCamera \notin Cctvs

VARIABLES cctvStarted,     \* task_started
          newFrame,        \* frame_sequence # last_inferred_sequence
          lastStatus, hitCounts, missCounts

cctvVars == <<cctvStarted, newFrame, lastStatus, hitCounts, missCounts>>

ForAll(x) == [c \in Cctvs |-> [k \in StatusStates |-> x]]

CctvInit == /\ cctvStarted = FALSE
            /\ newFrame = [c \in Cctvs |-> FALSE]
            /\ lastStatus = ForAll(FALSE) /\ hitCounts = ForAll(0) /\ missCounts = ForAll(0)

\* A message of /detection/cam_state.  It does not say whether the class appeared
\* or ended; only one that appeared has a box.
CamState(c, k, box) == [camera |-> c, class |-> k, box |-> box]

\* _publish_initial_status, of every camera.
InitialStatus == SetToSeq({CamState(c, k, FALSE) : c \in Cctvs, k \in StatusStates})

\* _start_callback, which publishes InitialStatus.
StartCctv(on) ==
    /\ on # cctvStarted
    /\ cctvStarted' = on
    /\ lastStatus' = ForAll(FALSE) /\ hitCounts' = ForAll(0) /\ missCounts' = ForAll(0)
    /\ UNCHANGED newFrame

\* _capture_loop: the frame replaces the one before it, whether it was inferred or not.
Capture(c) ==
    /\ newFrame' = [newFrame EXCEPT ![c] = TRUE]
    /\ UNCHANGED <<cctvStarted, lastStatus, hitCounts, missCounts>>

\* _apply_debounce, for one class.
NextHits(c, k, detected) ==
    IF ~detected THEN 0
    ELSE IF lastStatus[c][k] THEN hitCounts[c][k]
    ELSE IF hitCounts[c][k] + 1 >= HitThreshold THEN 0 ELSE hitCounts[c][k] + 1

\* Mutant: the count of misses is not reset when the class ends.
BugMissesStay(c, k, detected) ==
    IF detected THEN 0
    ELSE IF lastStatus[c][k] THEN missCounts[c][k] + 1 ELSE missCounts[c][k]

NextMisses(c, k, detected) ==
    IF detected THEN 0
    ELSE IF ~lastStatus[c][k] THEN missCounts[c][k]
    ELSE IF missCounts[c][k] + 1 >= OffMissThreshold THEN 0 ELSE missCounts[c][k] + 1

\* Mutant: the count is reset before it is compared.
BugResetFirst(c, k, detected) ==
    IF detected THEN lastStatus[c][k] \/ NextHits(c, k, detected) >= HitThreshold
                ELSE lastStatus[c][k] /\ missCounts[c][k] + 1 < OffMissThreshold

NextStatus(c, k, detected) ==
    IF detected THEN lastStatus[c][k] \/ hitCounts[c][k] + 1 >= HitThreshold
                ELSE lastStatus[c][k] /\ missCounts[c][k] + 1 < OffMissThreshold

\* process_frames.  The new frames are inferred in one batch and handled camera by
\* camera, and StatusChanges is published; when handling one raises after that, the
\* frames of that camera and of the later ones count as new again.
ProcessFrames(seen, broken, done) ==
    LET counted == done \cup ({broken} \cap Cctvs)
    IN  /\ cctvStarted
        /\ counted # {} /\ \A c \in counted : newFrame[c]
        /\ broken = NoCamera => done = {c \in Cctvs : newFrame[c]}
        /\ broken \notin done
        /\ newFrame' = [c \in Cctvs |-> newFrame[c] /\ c \notin done]
        /\ hitCounts' = [c \in Cctvs |-> [k \in StatusStates |->
                           IF c \in counted THEN NextHits(c, k, k \in seen[c]) ELSE hitCounts[c][k]]]
        /\ missCounts' = [c \in Cctvs |-> [k \in StatusStates |->
                           IF c \in counted THEN NextMisses(c, k, k \in seen[c]) ELSE missCounts[c][k]]]
        /\ lastStatus' = [c \in Cctvs |-> [k \in StatusStates |->
                           IF c \in counted THEN NextStatus(c, k, k \in seen[c]) ELSE lastStatus[c][k]]]
        /\ UNCHANGED cctvStarted

\* _publish_status of the cameras: the classes whose status a step changes.
StatusChanges ==
    LET changed == {ck \in Cctvs \X StatusStates : lastStatus'[ck[1]][ck[2]] # lastStatus[ck[1]][ck[2]]}
    IN  SetToSeq({CamState(ck[1], ck[2], lastStatus'[ck[1]][ck[2]]) : ck \in changed})

CctvTypeOK ==
    /\ cctvStarted \in BOOLEAN /\ newFrame \in [Cctvs -> BOOLEAN]
    /\ lastStatus \in [Cctvs -> [StatusStates -> BOOLEAN]]
    /\ hitCounts \in [Cctvs -> [StatusStates -> 0 .. HitThreshold - 1]]
    /\ missCounts \in [Cctvs -> [StatusStates -> 0 .. OffMissThreshold - 1]]
=============================================================================
