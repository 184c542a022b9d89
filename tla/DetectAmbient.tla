---------------------------- MODULE DetectAmbient ----------------------------
(***************************************************************************)
(* detect_ambient_node: the cameras of the robots.  A class appears when    *)
(* HitRequired of the last HitWindow frames show it and ends after          *)
(* AmbientOff frames in a row that do not; only its appearing is reported.  *)
(* A frame that the throttle skips changes nothing and is no step here.     *)
(***************************************************************************)
EXTENDS Naturals, Sequences, SequencesExt

CONSTANTS AmrCams, AnomalyClasses,
          HitWindow, HitRequired, AmbientOff

ASSUME AmbientAssumption == /\ HitWindow \in Nat /\ HitRequired \in 1 .. HitWindow
                            /\ AmbientOff \in Nat \ {0}

VARIABLES ambientStarted, active, hitWindows, ambientMisses

ambientVars == <<ambientStarted, active, hitWindows, ambientMisses>>

AmbientInit == /\ ambientStarted = FALSE
               /\ active = [a \in AmrCams |-> {}]
               /\ hitWindows = [a \in AmrCams |-> [k \in AnomalyClasses |-> <<>>]]
               /\ ambientMisses = [a \in AmrCams |-> [k \in AnomalyClasses |-> 0]]

\* _start_callback: nothing is forgotten, unlike at the CCTV node.
StartAmbient(on) ==
    /\ on # ambientStarted
    /\ ambientStarted' = on
    /\ UNCHANGED <<active, hitWindows, ambientMisses>>

Hits(window) == Cardinality({i \in DOMAIN window : window[i]})

Slid(a, k, detected) ==
    LET window == Append(hitWindows[a][k], detected)
    IN  IF Len(window) > HitWindow THEN Tail(window) ELSE window

Appears(a, k, detected) == k \notin active[a] /\ Hits(Slid(a, k, detected)) >= HitRequired
Ends(a, k, detected)    == k \in active[a] /\ ~detected /\ ambientMisses[a][k] + 1 >= AmbientOff

\* Mutant: the misses need not be in a row.
BugMissesAddUp(a, k, detected) ==
    IF k \notin active[a] THEN IF Appears(a, k, detected) THEN 0 ELSE ambientMisses[a][k]
    ELSE IF Ends(a, k, detected) THEN 0
    ELSE IF detected THEN ambientMisses[a][k] ELSE ambientMisses[a][k] + 1

AmbientMissesNext(a, k, detected) ==
    IF k \notin active[a] THEN IF Appears(a, k, detected) THEN 0 ELSE ambientMisses[a][k]
    ELSE IF detected \/ Ends(a, k, detected) THEN 0 ELSE ambientMisses[a][k] + 1

\* The image callback, of a frame that is not skipped; it publishes Appeared.
Image(a, seen) ==
    LET appeared == {k \in AnomalyClasses : Appears(a, k, k \in seen)}
        ended    == {k \in AnomalyClasses : Ends(a, k, k \in seen)}
    IN  /\ ambientStarted
        /\ active' = [active EXCEPT ![a] = (@ \cup appeared) \ ended]
        /\ hitWindows' = [hitWindows EXCEPT ![a] = [k \in AnomalyClasses |->
                            IF k \in appeared \cup ended THEN <<>>
                            ELSE IF k \in active[a] THEN @[k] ELSE Slid(a, k, k \in seen)]]
        /\ ambientMisses' = [ambientMisses EXCEPT ![a] =
                               [k \in AnomalyClasses |-> AmbientMissesNext(a, k, k \in seen)]]
        /\ UNCHANGED ambientStarted

\* The classes a step makes appear before a camera.
Appeared(a) == SetToSeq({[camera |-> a, class |-> k, box |-> FALSE] : k \in active'[a] \ active[a]})

AmbientTypeOK ==
    /\ ambientStarted \in BOOLEAN
    /\ active \in [AmrCams -> SUBSET AnomalyClasses]
    /\ \A a \in AmrCams, k \in AnomalyClasses : /\ Len(hitWindows[a][k]) <= HitWindow
                                         /\ Hits(hitWindows[a][k]) < HitRequired
                                         /\ ambientMisses[a][k] \in 0 .. AmbientOff - 1
=============================================================================
