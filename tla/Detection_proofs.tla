--------------------------- MODULE Detection_proofs ---------------------------
(***************************************************************************)
(* Proofs about Detection: the counts of both detectors stay below their    *)
(* thresholds, a class is reported once while it lasts, a report names      *)
(* what its camera saw, and the two ways in open a duplicate of no event.    *)
(***************************************************************************)
EXTENDS Detection, FunctionTheorems, FiniteSetTheorems,
        SequenceTheorems, TLAPS

Classes == StatusStates \cup AnomalyClasses
CamStates == [camera : Cams, class : Classes, box : BOOLEAN]
Rows == [zone : RestZones \cup {ZoneOf[c] : c \in Cams}, class : Classes,
         status : {"open", "closed", "reopened"}, recent : BOOLEAN]

\* What the variables hold.
AmbientInv ==
  /\ ambientStarted \in BOOLEAN
  /\ active \in [AmrCams -> SUBSET AnomalyClasses]
  /\ hitWindows \in [AmrCams -> [AnomalyClasses -> Seq(BOOLEAN)]]
  /\ ambientMisses \in [AmrCams -> [AnomalyClasses -> 0 .. AmbientOff - 1]]
  /\ \A a \in AmrCams : \A k \in AnomalyClasses :
       Len(hitWindows[a][k]) <= HitWindow /\ Hits(hitWindows[a][k]) < HitRequired
QueueInv == inbound \in Seq(CamStates) /\ Len(inbound) <= InboundSize
EventsInv == events \in Seq(Rows) /\ Len(events) <= MaxEvents
ViewInv == \A c \in Cams : \A k \in ClassesOf(c) :
             quiet[c][k] \in Nat /\ reports[c][k] \in Nat

\* A class counts as present for as long as its camera missed it less often in
\* a row than it takes to end it, and was reported at most once in that time.
CctvEpisodes ==
  \A c \in Cctvs : \A k \in StatusStates :
    /\ lastStatus[c][k] => missCounts[c][k] = quiet[c][k] /\ reports[c][k] <= 1
    /\ ~ lastStatus[c][k] => reports[c][k] = 0
AmbientEpisodes ==
  \A a \in AmrCams : \A k \in AnomalyClasses :
    /\ k \in active[a] => ambientMisses[a][k] = quiet[a][k] /\ reports[a][k] <= 1
    /\ k \notin active[a] => reports[a][k] = 0

\* A report names a class that its camera saw.
Saw(m) == m.class \in ClassesOf(m.camera) /\ quiet[m.camera][m.class] <= Off(m.camera)
ReportsTrue == \A i \in DOMAIN inbound : IsReport(inbound[i]) => Saw(inbound[i])

CountsInv == CctvTypeOK /\ AmbientInv /\ ViewInv /\ CctvEpisodes /\ AmbientEpisodes
DetInv == CountsInv /\ QueueInv /\ EventsInv /\ ReportsTrue /\ DuplicatesAreReopened

-----------------------------------------------------------------------------
(***************************************************************************)
(* Sets and sequences.                                                      *)
(***************************************************************************)

LEMMA SetAsSeq ==
  ASSUME NEW S, IsFiniteSet(S)
  PROVE  SetToSeq(S) \in Seq(S)
<1>1. Cardinality(S) \in Nat /\ ExistsBijection(1 .. Cardinality(S), S)
  BY FS_CardinalityType
<1>2. \E f \in [1 .. Cardinality(S) -> S] : IsInjective(f)
  BY <1>1 DEF ExistsBijection, Bijection, Injection
<1>3. SetToSeq(S) \in [1 .. Cardinality(S) -> S]
  BY <1>2 DEF SetToSeq
<1> QED
  BY <1>1, <1>3

\* The queue keeps the newest messages, at most as many as it has places.
LEMMA Enqueued ==
  ASSUME NEW M, inbound \in Seq(M), NEW msgs \in Seq(M), Enqueue(msgs)
  PROVE  /\ inbound' \in Seq(M) /\ Len(inbound') <= InboundSize
         /\ \A i \in DOMAIN inbound' :
              \/ \E j \in DOMAIN inbound : inbound'[i] = inbound[j]
              \/ \E j \in DOMAIN msgs : inbound'[i] = msgs[j]
<1>1. PICK all \in Seq(M) : all = inbound \o msgs
  BY ConcatProperties
<1>2. /\ Len(all) = Len(inbound) + Len(msgs)
      /\ Len(all) \in Nat /\ Len(inbound) \in Nat /\ Len(msgs) \in Nat
      /\ \A i \in 1 .. Len(all) :
           all[i] = IF i <= Len(inbound) THEN inbound[i] ELSE msgs[i - Len(inbound)]
  <2>1. Len(all) \in Nat /\ Len(inbound) \in Nat /\ Len(msgs) \in Nat
    BY LenProperties
  <2> QED
    BY <1>1, <2>1, ConcatProperties
<1>3. PICK out \in Nat :
        /\ out = IF Len(all) > InboundSize THEN Len(all) - InboundSize ELSE 0
        /\ inbound' = SubSeq(all, out + 1, Len(all))
  <2> DEFINE n == IF Len(all) > InboundSize THEN Len(all) - InboundSize ELSE 0
  <2>1. n \in Nat
    BY <1>2, DetectionAssumption
  <2>2. inbound' = SubSeq(all, n + 1, Len(all))
    BY <1>1, Zenon DEF Enqueue
  <2> QED
    BY <2>1, <2>2
<1>4. out <= Len(all) /\ Len(all) - out <= InboundSize
  BY <1>2, <1>3, DetectionAssumption
<1>5. /\ inbound' \in Seq(M) /\ Len(inbound') = Len(all) - out
      /\ \A i \in 1 .. Len(inbound') : inbound'[i] = all[out + i]
  <2>1. out + 1 \in Int /\ Len(all) \in Int
    BY <1>2
  <2>2. \A i \in out + 1 .. Len(all) : all[i] \in M
    <3> SUFFICES ASSUME NEW i \in out + 1 .. Len(all) PROVE all[i] \in M
      OBVIOUS
    <3>1. i \in 1 .. Len(all)
      BY <1>2
    <3> QED
      BY <3>1, ElementOfSeq
  <2>3. /\ SubSeq(all, out + 1, Len(all)) \in Seq(M)
        /\ Len(SubSeq(all, out + 1, Len(all))) =
             IF out + 1 <= Len(all) THEN Len(all) - (out + 1) + 1 ELSE 0
        /\ \A i \in 1 .. Len(all) - (out + 1) + 1 :
             SubSeq(all, out + 1, Len(all))[i] = all[out + 1 + i - 1]
    BY <2>1, <2>2, SubSeqProperties
  <2>4. Len(inbound') = Len(all) - out
    BY <1>2, <1>3, <1>4, <2>3
  <2>5. ASSUME NEW i \in 1 .. Len(inbound') PROVE inbound'[i] = all[out + i]
    <3>1. i \in 1 .. Len(all) - (out + 1) + 1 /\ out + 1 + i - 1 = out + i
      BY <1>2, <2>4
    <3> QED
      BY <1>3, <2>3, <3>1
  <2> QED
    BY <1>3, <2>3, <2>4, <2>5
<1>6. ASSUME NEW i \in DOMAIN inbound'
      PROVE  \/ \E j \in DOMAIN inbound : inbound'[i] = inbound[j]
             \/ \E j \in DOMAIN msgs : inbound'[i] = msgs[j]
  <2>1. i \in Nat /\ 1 <= i /\ i <= Len(all) - out /\ inbound'[i] = all[out + i]
    BY <1>2, <1>5, <1>6
  <2>2. out + i \in 1 .. Len(all)
    BY <1>2, <1>4, <2>1
  <2>3. CASE out + i <= Len(inbound)
    <3>1. out + i \in DOMAIN inbound /\ inbound'[i] = inbound[out + i]
      BY <1>2, <2>1, <2>2, <2>3
    <3> QED
      BY <3>1
  <2>4. CASE out + i > Len(inbound)
    <3>1. out + i - Len(inbound) \in 1 .. Len(msgs)
      BY <1>2, <2>1, <2>2, <2>4
    <3>2. inbound'[i] = msgs[out + i - Len(inbound)]
      BY <1>2, <2>1, <2>2, <2>4
    <3> QED
      BY <3>1, <3>2
  <2> QED
    BY <1>2, <2>1, <2>3, <2>4
<1> QED
  BY <1>4, <1>5, <1>6

\* A frame that shows nothing adds no hit, and a window loses none by sliding
\* but its oldest.
LEMMA HitsOfWindow ==
  ASSUME NEW w \in Seq(BOOLEAN)
  PROVE  /\ Hits(w) \in Nat
         /\ Hits(Append(w, FALSE)) = Hits(w)
         /\ w # << >> => Hits(Tail(w)) <= Hits(w)
<1> DEFINE On(s) == {i \in DOMAIN s : s[i]}
<1>1. Len(w) \in Nat /\ DOMAIN w = 1 .. Len(w)
  OBVIOUS
<1>2. IsFiniteSet(On(w)) /\ Cardinality(On(w)) \in Nat
  <2>1. IsFiniteSet(1 .. Len(w)) /\ On(w) \in SUBSET (1 .. Len(w))
    BY <1>1, FS_Interval
  <2>2. IsFiniteSet(On(w))
    BY <2>1, FS_Subset
  <2> QED
    BY <2>2, FS_CardinalityType
<1>3. On(Append(w, FALSE)) = On(w)
  <2>1. /\ DOMAIN Append(w, FALSE) = 1 .. Len(w) + 1
        /\ \A i \in 1 .. Len(w) : Append(w, FALSE)[i] = w[i]
        /\ Append(w, FALSE)[Len(w) + 1] = FALSE
    OBVIOUS
  <2> QED
    BY <1>1, <2>1
<1>4. ASSUME w # << >>
      PROVE  Cardinality(On(Tail(w))) <= Cardinality(On(w))
  <2>1. /\ DOMAIN Tail(w) = 1 .. Len(w) - 1
        /\ \A i \in 1 .. Len(w) - 1 : Tail(w)[i] = w[i + 1]
    BY <1>4
  <2>2. \A i \in On(Tail(w)) : i \in Int /\ i + 1 \in On(w)
    BY <1>1, <2>1
  <2>3. PICK f : f = [i \in On(Tail(w)) |-> i + 1]
    OBVIOUS
  <2>4. f \in [On(Tail(w)) -> On(w)]
    BY <2>2, <2>3
  <2>5. \A a, b \in On(Tail(w)) : f[a] = f[b] => a = b
    BY <2>2, <2>3
  <2>6. f \in Injection(On(Tail(w)), On(w))
    BY <2>4, <2>5, Fun_IsInj
  <2> QED
    BY <1>2, <2>6, FS_Injection
<1> QED
  BY <1>2, <1>3, <1>4 DEF Hits

-----------------------------------------------------------------------------
(***************************************************************************)
(* What the detectors publish.                                              *)
(***************************************************************************)

LEMMA MessagesOf ==
  ASSUME NEW X, IsFiniteSet(X), NEW f \in [X -> CamStates],
         NEW S, \A m \in S : \E x \in X : m = f[x]
  PROVE  /\ SetToSeq(S) \in Seq(CamStates)
         /\ \A i \in DOMAIN SetToSeq(S) : \E x \in X : SetToSeq(S)[i] = f[x]
<1>1. f \in Surjection(X, Range(f)) /\ S \in SUBSET Range(f)
  BY Fun_RangeProperties DEF Range
<1>2. IsFiniteSet(Range(f))
  BY <1>1, FS_Surjection
<1>3. IsFiniteSet(S)
  BY <1>1, <1>2, FS_Subset
<1>4. SetToSeq(S) \in Seq(S)
  BY <1>3, SetAsSeq
<1>5. \A i \in DOMAIN SetToSeq(S) : SetToSeq(S)[i] \in S
  BY <1>4, LenProperties
<1>6. S \subseteq CamStates
  OBVIOUS
<1>7. SetToSeq(S) \in Seq(CamStates)
  BY <1>4, <1>6, SeqMonotonic
<1> QED
  BY <1>5, <1>7

LEMMA InitialStatusIs ==
  /\ InitialStatus \in Seq(CamStates)
  /\ \A i \in DOMAIN InitialStatus : ~ IsReport(InitialStatus[i])
<1>1. PICK X : X = Cctvs \X StatusStates /\ IsFiniteSet(X)
  BY DetectionAssumption, FS_Product
<1>2. PICK f : f = [x \in X |-> CamState(x[1], x[2], FALSE)]
  OBVIOUS
<1>3. f \in [X -> CamStates]
  <2>1. \A x \in X : x[1] \in Cctvs /\ x[2] \in StatusStates
    BY <1>1
  <2>2. \A x \in X : CamState(x[1], x[2], FALSE) \in CamStates
    BY <2>1 DEF CamState, CamStates, Cams, Classes
  <2> QED
    BY <1>2, <2>2
<1> DEFINE S == {CamState(c, k, FALSE) : c \in Cctvs, k \in StatusStates}
<1>4. \A c \in Cctvs, k \in StatusStates :
        \E x \in X : CamState(c, k, FALSE) = f[x]
  <2> SUFFICES ASSUME NEW c \in Cctvs, NEW k \in StatusStates
               PROVE  \E x \in X : CamState(c, k, FALSE) = f[x]
    OBVIOUS
  <2>1. PICK x \in X : x = << c, k >>
    BY <1>1
  <2>2. x[1] = c /\ x[2] = k
    BY <2>1
  <2>3. f[x] = CamState(x[1], x[2], FALSE)
    BY <1>2
  <2> QED
    BY <2>2, <2>3
<1>5. \A m \in S : \E c \in Cctvs, k \in StatusStates : m = CamState(c, k, FALSE)
  BY DEF CamState
<1>6. InitialStatus = SetToSeq(S)
  BY DEF InitialStatus
<1> HIDE DEF S
<1>7. \A m \in S : \E x \in X : m = f[x]
  BY <1>5, <1>4
<1>8. /\ SetToSeq(S) \in Seq(CamStates)
      /\ \A i \in DOMAIN SetToSeq(S) : \E x \in X : SetToSeq(S)[i] = f[x]
  BY <1>1, <1>3, <1>7, MessagesOf
<1>9. \A x \in X : f[x].camera \in Cctvs /\ f[x].box = FALSE
  BY <1>1, <1>2 DEF CamState
<1> QED
  BY <1>8, <1>9, <1>6, DetectionAssumption DEF IsReport

\* Of a class with a box the status is on now and was not before.
LEMMA StatusChangesAre ==
  ASSUME CctvTypeOK, CctvTypeOK'
  PROVE  /\ StatusChanges \in Seq(CamStates)
         /\ \A i \in DOMAIN StatusChanges :
              LET m == StatusChanges[i]
              IN  /\ m.camera \in Cctvs /\ m.class \in StatusStates
                  /\ m.box => lastStatus'[m.camera][m.class] /\ ~ lastStatus[m.camera][m.class]
<1>1. PICK X : /\ X = {ck \in Cctvs \X StatusStates :
                         lastStatus'[ck[1]][ck[2]] # lastStatus[ck[1]][ck[2]]}
               /\ IsFiniteSet(X)
  BY DetectionAssumption, FS_Product, FS_Subset
<1>2. \A ck \in X : /\ ck[1] \in Cctvs /\ ck[2] \in StatusStates
                    /\ lastStatus'[ck[1]][ck[2]] \in BOOLEAN
                    /\ lastStatus[ck[1]][ck[2]] \in BOOLEAN
                    /\ lastStatus'[ck[1]][ck[2]] # lastStatus[ck[1]][ck[2]]
  BY <1>1 DEF CctvTypeOK
<1>3. PICK f : f = [ck \in X |-> CamState(ck[1], ck[2], lastStatus'[ck[1]][ck[2]])]
  OBVIOUS
<1>4. f \in [X -> CamStates]
  BY <1>2, <1>3 DEF CamState, CamStates, Cams, Classes
<1>5. PICK S : S = {CamState(ck[1], ck[2], lastStatus'[ck[1]][ck[2]]) : ck \in X}
  OBVIOUS
<1>6. \A m \in S : \E ck \in X : m = f[ck]
  BY <1>3, <1>5
<1>7. StatusChanges = SetToSeq(S)
  BY <1>1, <1>5 DEF StatusChanges
<1>8. /\ StatusChanges \in Seq(CamStates)
      /\ \A i \in DOMAIN StatusChanges : \E ck \in X : StatusChanges[i] = f[ck]
  BY <1>1, <1>4, <1>6, <1>7, MessagesOf
<1>9. \A ck \in X : /\ f[ck].camera = ck[1] /\ f[ck].class = ck[2]
                    /\ f[ck].box = lastStatus'[ck[1]][ck[2]]
  BY <1>3 DEF CamState
<1>10. ASSUME NEW i \in DOMAIN StatusChanges, NEW m, m = StatusChanges[i]
      PROVE  /\ m.camera \in Cctvs /\ m.class \in StatusStates
             /\ m.box => lastStatus'[m.camera][m.class] /\ ~ lastStatus[m.camera][m.class]
  <2>1. PICK ck \in X : m = f[ck]
    BY <1>8, <1>10
  <2> QED
    BY <1>2, <1>9, <2>1
<1> QED
  BY <1>8, <1>10

LEMMA AppearedAre ==
  ASSUME NEW a \in AmrCams, active'[a] \in SUBSET AnomalyClasses
  PROVE  /\ Appeared(a) \in Seq(CamStates)
         /\ \A i \in DOMAIN Appeared(a) :
              /\ Appeared(a)[i].camera = a
              /\ Appeared(a)[i].class \in active'[a] \ active[a]
<1>1. PICK X : X = active'[a] \ active[a] /\ IsFiniteSet(X)
  <2>1. IsFiniteSet(AnomalyClasses)
    BY DetectionAssumption
  <2>2. active'[a] \ active[a] \in SUBSET AnomalyClasses
    OBVIOUS
  <2>3. IsFiniteSet(active'[a] \ active[a])
    BY <2>1, <2>2, FS_Subset
  <2> QED
    BY <2>3
<1>2. PICK f : f = [k \in X |-> [camera |-> a, class |-> k, box |-> FALSE]]
  OBVIOUS
<1>3. f \in [X -> CamStates]
  BY <1>1, <1>2 DEF CamStates, Cams, Classes
<1>4. PICK S : S = {[camera |-> a, class |-> k, box |-> FALSE] : k \in X}
  OBVIOUS
<1>5. \A m \in S : \E k \in X : m = f[k]
  BY <1>2, <1>4
<1>6. Appeared(a) = SetToSeq(S)
  BY <1>1, <1>4 DEF Appeared
<1>7. /\ Appeared(a) \in Seq(CamStates)
      /\ \A i \in DOMAIN Appeared(a) : \E k \in X : Appeared(a)[i] = f[k]
  BY <1>1, <1>3, <1>5, <1>6, MessagesOf
<1>8. \A k \in X : f[k].camera = a /\ f[k].class = k
  BY <1>2
<1> QED
  BY <1>1, <1>7, <1>8

-----------------------------------------------------------------------------
(***************************************************************************)
(* The counts of the two detectors.                                         *)
(***************************************************************************)

LEMMA OffType ==
  /\ \A c \in Cctvs : c \in Cams /\ ClassesOf(c) = StatusStates /\ Off(c) = OffMissThreshold
  /\ \A a \in AmrCams : a \in Cams /\ a \notin Cctvs
                         /\ ClassesOf(a) = AnomalyClasses /\ Off(a) = AmbientOff
  /\ \A c \in Cams : Off(c) \in Nat /\ Off(c) > 0
<1>1. OffMissThreshold \in Nat /\ OffMissThreshold > 0
  BY CctvAssumption
<1>2. AmbientOff \in Nat /\ AmbientOff > 0
  BY AmbientAssumption
<1>3. \A a \in AmrCams : a \notin Cctvs
  <2>1. Cctvs \cap AmrCams = {}
    BY DetectionAssumption
  <2> QED
    BY <2>1
<1> QED
  BY <1>1, <1>2, <1>3 DEF Cams, ClassesOf, Off

LEMMA WatchedClass ==
  ASSUME NEW watched, NEW seen, Watched(watched, seen), ViewInv,
         NEW c \in Cams, NEW k \in ClassesOf(c)
  PROVE  /\ quiet[c][k] \in Nat
         /\ quiet'[c][k] = IF c \notin watched THEN quiet[c][k]
                           ELSE IF k \in seen[c] THEN 0
                           ELSE IF quiet[c][k] < Off(c) THEN quiet[c][k] + 1 ELSE quiet[c][k]
BY DEF Watched, ViewInv

LEMMA CountedClass ==
  ASSUME Counted, ViewInv, NEW c \in Cams, NEW k \in ClassesOf(c)
  PROVE  /\ reports[c][k] \in Nat
         /\ reports'[c][k] = IF quiet'[c][k] >= Off(c) THEN 0
                             ELSE IF Reported(c, k) /\ reports[c][k] < 2 THEN reports[c][k] + 1
                             ELSE reports[c][k]
BY DEF Counted, ViewInv

\* A class that was seen within Off inferences still was.
LEMMA StaysSeen ==
  ASSUME NEW watched, NEW seen, Watched(watched, seen), Counted, ViewInv
  PROVE  /\ ViewInv'
         /\ \A c \in Cams : \A k \in ClassesOf(c) :
              quiet[c][k] <= Off(c) => quiet'[c][k] <= Off(c)
<1> SUFFICES ASSUME NEW c \in Cams, NEW k \in ClassesOf(c)
             PROVE  /\ quiet'[c][k] \in Nat /\ reports'[c][k] \in Nat
                    /\ quiet[c][k] <= Off(c) => quiet'[c][k] <= Off(c)
  BY DEF ViewInv, Cams, ClassesOf
<1>1. Off(c) \in Nat
  BY OffType
<1>2. quiet'[c][k] \in Nat /\ (quiet[c][k] <= Off(c) => quiet'[c][k] <= Off(c))
  BY <1>1, WatchedClass
<1>3. reports'[c][k] \in Nat
  BY <1>1, <1>2, CountedClass
<1> QED
  BY <1>2, <1>3

LEMMA CctvCounts ==
  ASSUME CountsInv, NEW seen \in [Cctvs -> SUBSET StatusStates], NEW broken,
         NEW done \in SUBSET Cctvs,
         ProcessFrames(seen, broken, done),
         Watched(done \cup ({broken} \cap Cctvs), seen), Counted, UNCHANGED ambientVars
  PROVE  CountsInv'
<1> DEFINE counted == done \cup ({broken} \cap Cctvs)
<1>1. ASSUME NEW c \in Cctvs, NEW k \in StatusStates
      PROVE  /\ hitCounts'[c][k] = IF c \in counted THEN NextHits(c, k, k \in seen[c])
                                                    ELSE hitCounts[c][k]
             /\ missCounts'[c][k] = IF c \in counted THEN NextMisses(c, k, k \in seen[c])
                                                     ELSE missCounts[c][k]
             /\ lastStatus'[c][k] = IF c \in counted THEN NextStatus(c, k, k \in seen[c])
                                                     ELSE lastStatus[c][k]
  BY DEF ProcessFrames
<1>2. ASSUME NEW c \in Cctvs, NEW k \in StatusStates
      PROVE  /\ hitCounts[c][k] \in 0 .. HitThreshold - 1
             /\ missCounts[c][k] \in 0 .. OffMissThreshold - 1
             /\ lastStatus[c][k] \in BOOLEAN
  BY DEF CountsInv, CctvTypeOK
<1>3. ASSUME NEW c \in Cctvs, NEW k \in StatusStates
      PROVE  /\ hitCounts'[c][k] \in 0 .. HitThreshold - 1
             /\ missCounts'[c][k] \in 0 .. OffMissThreshold - 1
             /\ lastStatus'[c][k] \in BOOLEAN
  <2>1. hitCounts'[c][k] \in 0 .. HitThreshold - 1
    BY <1>1, <1>2, CctvAssumption DEF NextHits
  <2>2. missCounts'[c][k] \in 0 .. OffMissThreshold - 1
    BY <1>1, <1>2, CctvAssumption DEF NextMisses
  <2>3. lastStatus'[c][k] \in BOOLEAN
    BY <1>1, <1>2 DEF NextStatus
  <2> QED
    BY <2>1, <2>2, <2>3
<1>4. CctvTypeOK'
  <2>1. /\ hitCounts' \in [Cctvs -> [StatusStates -> 0 .. HitThreshold - 1]]
        /\ missCounts' \in [Cctvs -> [StatusStates -> 0 .. OffMissThreshold - 1]]
        /\ lastStatus' \in [Cctvs -> [StatusStates -> BOOLEAN]]
    <3>1. /\ hitCounts' = [c \in Cctvs |-> [k \in StatusStates |-> hitCounts'[c][k]]]
          /\ missCounts' = [c \in Cctvs |-> [k \in StatusStates |-> missCounts'[c][k]]]
          /\ lastStatus' = [c \in Cctvs |-> [k \in StatusStates |-> lastStatus'[c][k]]]
      BY DEF ProcessFrames
    <3> QED
      BY <1>3, <3>1
  <2>2. newFrame' \in [Cctvs -> BOOLEAN] /\ cctvStarted' \in BOOLEAN
    BY DEF ProcessFrames, CountsInv, CctvTypeOK
  <2> QED
    BY <2>1, <2>2 DEF CctvTypeOK
<1>5. ViewInv'
  BY StaysSeen DEF CountsInv
<1>6. CctvEpisodes'
  <2> SUFFICES ASSUME NEW c \in Cctvs, NEW k \in StatusStates
               PROVE  /\ lastStatus'[c][k] => missCounts'[c][k] = quiet'[c][k] /\ reports'[c][k] <= 1
                      /\ ~ lastStatus'[c][k] => reports'[c][k] = 0
    BY DEF CctvEpisodes
  <2>1. /\ c \in Cams /\ k \in ClassesOf(c)
        /\ Off(c) = OffMissThreshold /\ OffMissThreshold \in Nat /\ OffMissThreshold > 0
    BY OffType, CctvAssumption
  <2>2. /\ lastStatus[c][k] => missCounts[c][k] = quiet[c][k] /\ reports[c][k] <= 1
        /\ ~ lastStatus[c][k] => reports[c][k] = 0
    BY DEF CountsInv, CctvEpisodes
  <2>3. /\ quiet[c][k] \in Nat
        /\ quiet'[c][k] = IF c \notin counted THEN quiet[c][k]
                          ELSE IF k \in seen[c] THEN 0
                          ELSE IF quiet[c][k] < Off(c) THEN quiet[c][k] + 1 ELSE quiet[c][k]
    BY <2>1, WatchedClass DEF CountsInv
  <2>4. /\ reports[c][k] \in Nat
        /\ reports'[c][k] = IF quiet'[c][k] >= Off(c) THEN 0
                            ELSE IF lastStatus'[c][k] /\ ~ lastStatus[c][k] /\ reports[c][k] < 2
                                 THEN reports[c][k] + 1
                            ELSE reports[c][k]
    BY <2>1, CountedClass DEF CountsInv, Reported
  <2>5. CASE c \notin counted
    BY <1>1, <1>2, <2>1, <2>2, <2>3, <2>4, <2>5
  <2>6. CASE c \in counted /\ k \in seen[c]
    <3>1. missCounts'[c][k] = 0 /\ quiet'[c][k] = 0
      BY <1>1, <2>3, <2>6 DEF NextMisses
    <3> QED
      BY <1>1, <1>2, <1>3, <2>1, <2>2, <2>4, <2>6, <3>1 DEF NextStatus
  <2>7. CASE c \in counted /\ k \notin seen[c]
    <3>1. lastStatus'[c][k] <=> lastStatus[c][k] /\ missCounts[c][k] + 1 < OffMissThreshold
      BY <1>1, <1>2, <2>7 DEF NextStatus
    <3>2. CASE lastStatus[c][k]
      <4>1. quiet'[c][k] = missCounts[c][k] + 1
        BY <1>2, <2>1, <2>2, <2>3, <2>7, <3>2
      <4>2. missCounts'[c][k] = IF missCounts[c][k] + 1 >= OffMissThreshold
                                THEN 0 ELSE missCounts[c][k] + 1
        BY <1>1, <2>7, <3>2 DEF NextMisses
      <4> QED
        BY <1>2, <2>1, <2>2, <2>4, <3>1, <3>2, <4>1, <4>2
    <3>3. CASE ~ lastStatus[c][k]
      BY <2>1, <2>2, <2>4, <3>1, <3>3
    <3> QED
      BY <3>2, <3>3
  <2> QED
    BY <2>5, <2>6, <2>7
<1>7. AmbientInv'
  BY DEF CountsInv, AmbientInv, ambientVars
<1>8. AmbientEpisodes'
  <2> SUFFICES ASSUME NEW a \in AmrCams, NEW k \in AnomalyClasses
               PROVE  quiet'[a][k] = quiet[a][k]
                      /\ (reports'[a][k] = reports[a][k] \/ reports'[a][k] = 0)
    BY DEF CountsInv, AmbientEpisodes, ambientVars
  <2>1. a \in Cams /\ a \notin Cctvs /\ k \in ClassesOf(a) /\ a \notin counted
    BY OffType DEF ProcessFrames
  <2>2. quiet'[a][k] = quiet[a][k]
    BY <2>1, WatchedClass DEF CountsInv
  <2>3. ~ Reported(a, k)
    BY <2>1 DEF Reported, ambientVars
  <2> QED
    BY <2>1, <2>2, <2>3, CountedClass DEF CountsInv
<1> QED
  BY <1>4, <1>5, <1>6, <1>7, <1>8 DEF CountsInv

LEMMA SlidWindow ==
  ASSUME AmbientInv, NEW a \in AmrCams, NEW k \in AnomalyClasses, NEW detected \in BOOLEAN
  PROVE  /\ Slid(a, k, detected) \in Seq(BOOLEAN)
         /\ Len(Slid(a, k, detected)) <= HitWindow
         /\ Hits(Slid(a, k, detected)) \in Nat
         /\ ~ detected => Hits(Slid(a, k, detected)) < HitRequired
<1>1. PICK w : w = hitWindows[a][k]
  OBVIOUS
<1>2. w \in Seq(BOOLEAN) /\ Len(w) <= HitWindow /\ Hits(w) < HitRequired
  BY <1>1 DEF AmbientInv
<1>3. Len(w) \in Nat /\ HitWindow \in Nat /\ HitRequired \in Nat /\ HitRequired > 0
  BY <1>2, LenProperties, AmbientAssumption
<1>4. PICK x : x = Append(w, detected)
  OBVIOUS
<1>5. x \in Seq(BOOLEAN) /\ x # << >> /\ Len(x) = Len(w) + 1
  BY <1>2, <1>4, AppendProperties
<1>6. Hits(x) \in Nat /\ (~ detected => Hits(x) = Hits(w))
  BY <1>2, <1>4, <1>5, HitsOfWindow
<1>7. /\ Tail(x) \in Seq(BOOLEAN) /\ Len(Tail(x)) = Len(x) - 1
  BY <1>5, HeadTailProperties
<1>8. Hits(Tail(x)) \in Nat /\ Hits(Tail(x)) <= Hits(x)
  BY <1>5, <1>7, HitsOfWindow
<1>9. Slid(a, k, detected) = IF Len(x) > HitWindow THEN Tail(x) ELSE x
  BY <1>1, <1>4 DEF Slid
<1>10. Hits(w) \in Nat
  BY <1>2, HitsOfWindow
<1>11. CASE Len(x) > HitWindow
  <2>1. Slid(a, k, detected) = Tail(x)
    BY <1>9, <1>11
  <2>2. Len(Tail(x)) <= HitWindow
    BY <1>2, <1>3, <1>5, <1>7
  <2>3. ~ detected => Hits(Tail(x)) < HitRequired
    BY <1>2, <1>3, <1>6, <1>8, <1>10
  <2> QED
    BY <1>7, <1>8, <2>1, <2>2, <2>3
<1>12. CASE ~ (Len(x) > HitWindow)
  <2>1. Slid(a, k, detected) = x
    BY <1>9, <1>12
  <2>2. Len(x) <= HitWindow
    BY <1>3, <1>5, <1>12
  <2>3. ~ detected => Hits(x) < HitRequired
    BY <1>2, <1>6
  <2> QED
    BY <1>5, <1>6, <2>1, <2>2, <2>3
<1> QED
  BY <1>11, <1>12

\* Only a frame that shows a class makes it appear.
LEMMA AppearsSeen ==
  ASSUME AmbientInv, NEW a \in AmrCams, NEW k \in AnomalyClasses, NEW detected \in BOOLEAN,
         Appears(a, k, detected)
  PROVE  detected
<1>1. HitRequired \in Nat
  BY AmbientAssumption
<1> QED
  BY <1>1, SlidWindow DEF Appears

LEMMA NoHits == << >> \in Seq(BOOLEAN) /\ Len(<< >>) <= HitWindow /\ Hits(<< >>) < HitRequired
<1>1. Len(<< >>) = 0 /\ << >> \in Seq(BOOLEAN) /\ DOMAIN << >> = {}
  BY EmptySeq
<1>2. {i \in DOMAIN << >> : << >>[i]} = {}
  BY <1>1
<1>3. Hits(<< >>) = 0
  BY <1>2, FS_EmptySet DEF Hits
<1>4. 0 <= HitWindow /\ 0 < HitRequired
  BY AmbientAssumption
<1> QED
  BY <1>1, <1>3, <1>4

LEMMA AmbientCounts ==
  ASSUME CountsInv, NEW a \in AmrCams, NEW seen \in SUBSET AnomalyClasses,
         Image(a, seen), Watched({a}, [b \in {a} |-> seen]), Counted, UNCHANGED cctvVars
  PROVE  CountsInv'
<1> DEFINE appeared == {k \in AnomalyClasses : Appears(a, k, k \in seen)}
           ended    == {k \in AnomalyClasses : Ends(a, k, k \in seen)}
<1>1. /\ active' = [active EXCEPT ![a] = (@ \cup appeared) \ ended]
      /\ hitWindows' = [hitWindows EXCEPT ![a] = [k \in AnomalyClasses |->
                           IF k \in appeared \cup ended THEN << >>
                           ELSE IF k \in active[a] THEN @[k] ELSE Slid(a, k, k \in seen)]]
      /\ ambientMisses' = [ambientMisses EXCEPT ![a] =
                              [k \in AnomalyClasses |-> AmbientMissesNext(a, k, k \in seen)]]
      /\ ambientStarted' = ambientStarted
  BY DEF Image
<1>2. /\ active \in [AmrCams -> SUBSET AnomalyClasses]
      /\ hitWindows \in [AmrCams -> [AnomalyClasses -> Seq(BOOLEAN)]]
      /\ ambientMisses \in [AmrCams -> [AnomalyClasses -> 0 .. AmbientOff - 1]]
      /\ ambientStarted \in BOOLEAN
  BY DEF CountsInv, AmbientInv
<1>3. /\ active'[a] = (active[a] \cup appeared) \ ended
      /\ \A b \in AmrCams \ {a} : /\ active'[b] = active[b]
                                 /\ hitWindows'[b] = hitWindows[b]
                                 /\ ambientMisses'[b] = ambientMisses[b]
  BY <1>1, <1>2
<1>4. ASSUME NEW k \in AnomalyClasses
      PROVE  /\ k \in active'[a] <=> /\ k \in active[a] \/ Appears(a, k, k \in seen)
                                    /\ ~ Ends(a, k, k \in seen)
             /\ hitWindows'[a][k] =
                  IF Appears(a, k, k \in seen) \/ Ends(a, k, k \in seen) THEN << >>
                  ELSE IF k \in active[a] THEN hitWindows[a][k] ELSE Slid(a, k, k \in seen)
             /\ ambientMisses'[a][k] = AmbientMissesNext(a, k, k \in seen)
  BY <1>1, <1>2, <1>3
<1> HIDE DEF appeared, ended
<1>5. ASSUME NEW k \in AnomalyClasses
      PROVE  /\ hitWindows'[a][k] \in Seq(BOOLEAN)
             /\ Len(hitWindows'[a][k]) <= HitWindow
             /\ Hits(hitWindows'[a][k]) < HitRequired
  <2>1. CASE Appears(a, k, k \in seen) \/ Ends(a, k, k \in seen)
    BY <1>4, <2>1, NoHits
  <2>2. CASE ~ Appears(a, k, k \in seen) /\ ~ Ends(a, k, k \in seen) /\ k \in active[a]
    BY <1>4, <2>2 DEF CountsInv, AmbientInv
  <2>3. CASE ~ Appears(a, k, k \in seen) /\ ~ Ends(a, k, k \in seen) /\ k \notin active[a]
    <3>1. hitWindows'[a][k] = Slid(a, k, k \in seen)
      BY <1>4, <2>3
    <3>2. /\ Slid(a, k, k \in seen) \in Seq(BOOLEAN)
          /\ Len(Slid(a, k, k \in seen)) <= HitWindow
          /\ Hits(Slid(a, k, k \in seen)) \in Nat
      <4>1. (k \in seen) \in BOOLEAN
        OBVIOUS
      <4> QED
        BY <4>1, SlidWindow, Zenon DEF CountsInv
    <3>3. ~ (Hits(Slid(a, k, k \in seen)) >= HitRequired)
      BY <2>3 DEF Appears
    <3>4. HitRequired \in Nat
      BY AmbientAssumption
    <3> QED
      BY <3>1, <3>2, <3>3, <3>4
  <2> QED
    BY <2>1, <2>2, <2>3
<1>6. AmbientOff \in Nat /\ AmbientOff > 0
  BY AmbientAssumption
<1>7. ASSUME NEW k \in AnomalyClasses
      PROVE  ambientMisses'[a][k] \in 0 .. AmbientOff - 1
  <2>1. ambientMisses[a][k] \in 0 .. AmbientOff - 1
    BY <1>2
  <2> QED
    BY <1>4, <1>6, <2>1 DEF AmbientMissesNext, Ends
<1>8. AmbientInv'
  <2>1. active' \in [AmrCams -> SUBSET AnomalyClasses]
    BY <1>1, <1>2 DEF appeared, ended
  <2>2. [k \in AnomalyClasses |-> AmbientMissesNext(a, k, k \in seen)]
          \in [AnomalyClasses -> 0 .. AmbientOff - 1]
    BY <1>4, <1>7
  <2>3. ambientMisses' \in [AmrCams -> [AnomalyClasses -> 0 .. AmbientOff - 1]]
    BY <1>1, <1>2, <2>2
  <2>4. hitWindows' \in [AmrCams -> [AnomalyClasses -> Seq(BOOLEAN)]]
    <3>1. PICK W : W = [k \in AnomalyClasses |->
                           IF k \in appeared \cup ended THEN << >>
                           ELSE IF k \in active[a] THEN hitWindows[a][k]
                           ELSE Slid(a, k, k \in seen)]
      OBVIOUS
    <3>2. hitWindows' = [hitWindows EXCEPT ![a] = W]
      BY <1>1, <3>1
    <3>3. \A k \in AnomalyClasses : W[k] \in Seq(BOOLEAN)
      BY <1>2, <1>5, <3>2
    <3>4. W \in [AnomalyClasses -> Seq(BOOLEAN)]
      BY <3>1, <3>3
    <3> QED
      BY <1>2, <3>2, <3>4
  <2>5. \A b \in AmrCams : \A k \in AnomalyClasses :
          Len(hitWindows'[b][k]) <= HitWindow /\ Hits(hitWindows'[b][k]) < HitRequired
    BY <1>3, <1>5 DEF CountsInv, AmbientInv
  <2> QED
    BY <1>1, <1>2, <2>1, <2>3, <2>4, <2>5 DEF AmbientInv
<1>9. ViewInv'
  BY StaysSeen DEF CountsInv
<1>10. ASSUME NEW k \in AnomalyClasses
       PROVE  /\ k \in active'[a] => ambientMisses'[a][k] = quiet'[a][k] /\ reports'[a][k] <= 1
              /\ k \notin active'[a] => reports'[a][k] = 0
  <2>1. /\ a \in Cams /\ a \notin Cctvs /\ k \in ClassesOf(a) /\ Off(a) = AmbientOff
    BY OffType
  <2>2. /\ k \in active[a] => ambientMisses[a][k] = quiet[a][k] /\ reports[a][k] <= 1
        /\ k \notin active[a] => reports[a][k] = 0
        /\ ambientMisses[a][k] \in 0 .. AmbientOff - 1
    BY <1>2 DEF CountsInv, AmbientEpisodes
  <2>3. /\ quiet[a][k] \in Nat
        /\ quiet'[a][k] = IF k \in seen THEN 0
                          ELSE IF quiet[a][k] < AmbientOff THEN quiet[a][k] + 1 ELSE quiet[a][k]
    BY <2>1, WatchedClass DEF CountsInv
  <2>4. /\ reports[a][k] \in Nat
        /\ reports'[a][k] = IF quiet'[a][k] >= AmbientOff THEN 0
                            ELSE IF k \in active'[a] /\ k \notin active[a] /\ reports[a][k] < 2
                                 THEN reports[a][k] + 1
                            ELSE reports[a][k]
    BY <2>1, CountedClass DEF CountsInv, Reported
  <2>5. CASE k \in active[a]
    <3>1. ~ Appears(a, k, k \in seen)
      BY <2>5 DEF Appears
    <3>2. Ends(a, k, k \in seen) <=> k \notin seen /\ ambientMisses[a][k] + 1 >= AmbientOff
      BY <2>5 DEF Ends
    <3>3. ambientMisses'[a][k] = IF k \in seen \/ Ends(a, k, k \in seen)
                                 THEN 0 ELSE ambientMisses[a][k] + 1
      BY <1>4, <2>5 DEF AmbientMissesNext
    <3>4. k \in active'[a] <=> ~ Ends(a, k, k \in seen)
      BY <1>4, <2>5
    <3> QED
      BY <1>6, <2>2, <2>3, <2>4, <2>5, <3>2, <3>3, <3>4
  <2>6. CASE k \notin active[a] /\ Appears(a, k, k \in seen)
    <3>1. k \in seen
      <4>1. (k \in seen) \in BOOLEAN
        OBVIOUS
      <4> QED
        BY <2>6, <4>1, AppearsSeen, Zenon DEF CountsInv
    <3>2. ~ Ends(a, k, k \in seen) /\ k \in active'[a] /\ ambientMisses'[a][k] = 0
      BY <1>4, <2>6 DEF Ends, AmbientMissesNext
    <3> QED
      BY <1>6, <2>2, <2>3, <2>4, <2>6, <3>1, <3>2
  <2>7. CASE k \notin active[a] /\ ~ Appears(a, k, k \in seen)
    <3>1. k \notin active'[a]
      BY <1>4, <2>7
    <3> QED
      BY <1>6, <2>2, <2>3, <2>4, <2>7, <3>1
  <2> QED
    BY <2>5, <2>6, <2>7
<1>11. ASSUME NEW b \in AmrCams \ {a}, NEW k \in AnomalyClasses
       PROVE  quiet'[b][k] = quiet[b][k]
              /\ (reports'[b][k] = reports[b][k] \/ reports'[b][k] = 0)
  <2>1. b \in Cams /\ b \notin Cctvs /\ k \in ClassesOf(b)
    BY OffType
  <2>2. quiet'[b][k] = quiet[b][k]
    BY <2>1, WatchedClass DEF CountsInv
  <2>3. ~ Reported(b, k)
    BY <1>3, <2>1 DEF Reported
  <2> QED
    BY <2>1, <2>2, <2>3, CountedClass DEF CountsInv
<1>12. AmbientEpisodes'
  <2> SUFFICES ASSUME NEW b \in AmrCams, NEW k \in AnomalyClasses
               PROVE  /\ k \in active'[b] => ambientMisses'[b][k] = quiet'[b][k] /\ reports'[b][k] <= 1
                      /\ k \notin active'[b] => reports'[b][k] = 0
    BY DEF AmbientEpisodes
  <2>1. CASE b = a
    BY <1>10, <2>1
  <2>2. CASE b # a
    <3>1. /\ k \in active[b] => ambientMisses[b][k] = quiet[b][k] /\ reports[b][k] <= 1
          /\ k \notin active[b] => reports[b][k] = 0
      BY DEF CountsInv, AmbientEpisodes
    <3> QED
      BY <1>3, <1>11, <2>2, <3>1
  <2> QED
    BY <2>1, <2>2
<1>13. CctvTypeOK'
  BY DEF CountsInv, CctvTypeOK, cctvVars
<1>14. CctvEpisodes'
  <2> SUFFICES ASSUME NEW c \in Cctvs, NEW k \in StatusStates
               PROVE  quiet'[c][k] = quiet[c][k]
                      /\ (reports'[c][k] = reports[c][k] \/ reports'[c][k] = 0)
    BY DEF CountsInv, CctvEpisodes, cctvVars
  <2>1. c \in Cams /\ k \in ClassesOf(c) /\ c \notin {a}
    BY OffType
  <2>2. quiet'[c][k] = quiet[c][k]
    BY <2>1, WatchedClass DEF CountsInv
  <2>3. ~ Reported(c, k)
    BY DEF Reported, cctvVars
  <2> QED
    BY <2>1, <2>2, <2>3, CountedClass DEF CountsInv
<1> QED
  BY <1>8, <1>9, <1>12, <1>13, <1>14 DEF CountsInv

-----------------------------------------------------------------------------
(***************************************************************************)
(* The queue and the events.                                                *)
(***************************************************************************)

LEMMA QueueStep ==
  ASSUME QueueInv, ReportsTrue, NEW msgs \in Seq(CamStates), Enqueue(msgs),
         \A c \in Cams : \A k \in ClassesOf(c) : quiet[c][k] <= Off(c) => quiet'[c][k] <= Off(c),
         \A i \in DOMAIN msgs : IsReport(msgs[i]) =>
           /\ msgs[i].class \in ClassesOf(msgs[i].camera)
           /\ quiet'[msgs[i].camera][msgs[i].class] <= Off(msgs[i].camera)
  PROVE  QueueInv' /\ ReportsTrue'
<1>1. /\ inbound' \in Seq(CamStates) /\ Len(inbound') <= InboundSize
      /\ \A i \in DOMAIN inbound' :
           \/ \E j \in DOMAIN inbound : inbound'[i] = inbound[j]
           \/ \E j \in DOMAIN msgs : inbound'[i] = msgs[j]
  BY Enqueued DEF QueueInv
<1>2. ASSUME NEW j \in DOMAIN inbound, IsReport(inbound[j])
      PROVE  /\ inbound[j].class \in ClassesOf(inbound[j].camera)
             /\ quiet'[inbound[j].camera][inbound[j].class] <= Off(inbound[j].camera)
  <2>1. inbound[j] \in CamStates
    BY LenProperties DEF QueueInv
  <2>2. inbound[j].camera \in Cams
    BY <2>1 DEF CamStates
  <2> QED
    BY <1>2, <2>2 DEF ReportsTrue, Saw
<1>3. ASSUME NEW i \in DOMAIN inbound', IsReport(inbound'[i])
      PROVE  /\ inbound'[i].class \in ClassesOf(inbound'[i].camera)
             /\ quiet'[inbound'[i].camera][inbound'[i].class] <= Off(inbound'[i].camera)
  BY <1>1, <1>2, <1>3
<1> QED
  BY <1>1, <1>3 DEF QueueInv, ReportsTrue, Saw

LEMMA SeenByCctv ==
  ASSUME CountsInv, CctvTypeOK', QueueInv, ReportsTrue,
         NEW seen \in [Cctvs -> SUBSET StatusStates], NEW broken, NEW done \in SUBSET Cctvs,
         ProcessFrames(seen, broken, done), Enqueue(StatusChanges),
         Watched(done \cup ({broken} \cap Cctvs), seen), Counted
  PROVE  QueueInv' /\ ReportsTrue'
<1>1. /\ StatusChanges \in Seq(CamStates)
      /\ \A i \in DOMAIN StatusChanges :
           LET m == StatusChanges[i]
           IN  /\ m.camera \in Cctvs /\ m.class \in StatusStates
               /\ m.box => lastStatus'[m.camera][m.class] /\ ~ lastStatus[m.camera][m.class]
  BY StatusChangesAre DEF CountsInv
<1>2. \A c \in Cams : \A k \in ClassesOf(c) : quiet[c][k] <= Off(c) => quiet'[c][k] <= Off(c)
  BY StaysSeen DEF CountsInv
<1>3. ASSUME NEW c \in Cctvs, NEW k \in StatusStates,
             lastStatus'[c][k], ~ lastStatus[c][k]
      PROVE  k \in ClassesOf(c) /\ quiet'[c][k] <= Off(c)
  <2>1. c \in Cams /\ k \in ClassesOf(c) /\ Off(c) \in Nat
    BY OffType
  <2>2. lastStatus'[c][k] = IF c \in done \cup ({broken} \cap Cctvs)
                            THEN NextStatus(c, k, k \in seen[c]) ELSE lastStatus[c][k]
    BY DEF ProcessFrames
  <2>3. c \in done \cup ({broken} \cap Cctvs)
    BY <1>3, <2>2
  <2>4. k \in seen[c]
    BY <1>3, <2>2, <2>3 DEF NextStatus
  <2>5. quiet'[c][k] = 0
    BY <2>1, <2>3, <2>4, WatchedClass DEF CountsInv
  <2> QED
    BY <2>1, <2>5
<1>4. \A i \in DOMAIN StatusChanges : IsReport(StatusChanges[i]) =>
        /\ StatusChanges[i].class \in ClassesOf(StatusChanges[i].camera)
        /\ quiet'[StatusChanges[i].camera][StatusChanges[i].class] <= Off(StatusChanges[i].camera)
  BY <1>1, <1>3, DetectionAssumption DEF IsReport
<1> QED
  BY <1>1, <1>2, <1>4, QueueStep

LEMMA SeenByRobot ==
  ASSUME CountsInv, AmbientInv', QueueInv, ReportsTrue,
         NEW a \in AmrCams, NEW seen \in SUBSET AnomalyClasses,
         Image(a, seen), Enqueue(Appeared(a)), Watched({a}, [b \in {a} |-> seen]), Counted
  PROVE  QueueInv' /\ ReportsTrue'
<1>1. /\ Appeared(a) \in Seq(CamStates)
      /\ \A i \in DOMAIN Appeared(a) : /\ Appeared(a)[i].camera = a
                                      /\ Appeared(a)[i].class \in active'[a] \ active[a]
  <2>1. active'[a] \in SUBSET AnomalyClasses
    BY DEF AmbientInv
  <2> QED
    BY <2>1, AppearedAre
<1>2. \A c \in Cams : \A k \in ClassesOf(c) : quiet[c][k] <= Off(c) => quiet'[c][k] <= Off(c)
  BY StaysSeen DEF CountsInv
<1>3. ASSUME NEW k \in active'[a] \ active[a]
      PROVE  k \in ClassesOf(a) /\ quiet'[a][k] <= Off(a)
  <2>1. a \in Cams /\ ClassesOf(a) = AnomalyClasses /\ Off(a) \in Nat
    BY OffType
  <2>2. k \in AnomalyClasses /\ Appears(a, k, k \in seen)
    BY DEF Image, CountsInv, AmbientInv
  <2>3. k \in seen
    <3>1. (k \in seen) \in BOOLEAN
      OBVIOUS
    <3> QED
      BY <2>2, <3>1, AppearsSeen, Zenon DEF CountsInv
  <2>4. quiet'[a][k] = 0
    BY <2>1, <2>2, <2>3, WatchedClass DEF CountsInv
  <2> QED
    BY <2>1, <2>2, <2>4
<1> QED
  BY <1>1, <1>2, <1>3, QueueStep

Zones == RestZones \cup {ZoneOf[c] : c \in Cams}

LEMMA IngestKeeps ==
  ASSUME EventsInv, DuplicatesAreReopened, NEW zone \in Zones, NEW k \in Classes, Ingest(zone, k)
  PROVE  EventsInv' /\ DuplicatesAreReopened'
<1>1. CASE events' = events
  BY <1>1 DEF EventsInv, DuplicatesAreReopened, IsOpen
<1>2. CASE DedupTargets(zone, k) = {}
  <2>1. PICK e : e = [zone |-> zone, class |-> k, status |-> "open",
                     recent |-> zone # NoZone]
    OBVIOUS
  <2>2. Len(events) < MaxEvents /\ events' = Append(events, e)
    BY <1>2, <2>1 DEF Ingest
  <2>3. events \in Seq(Rows) /\ e \in Rows
    BY <2>1 DEF EventsInv, Rows, Zones
  <2>4. /\ events' \in Seq(Rows) /\ Len(events') = Len(events) + 1
        /\ \A i \in 1 .. Len(events) : events'[i] = events[i]
        /\ events'[Len(events) + 1] = e
    BY <2>2, <2>3, AppendProperties
  <2>5. /\ Len(events) \in Nat /\ DOMAIN events = 1 .. Len(events)
        /\ DOMAIN events' = 1 .. Len(events) + 1
    BY <2>3, <2>4, LenProperties
  <2>6. EventsInv'
    BY <2>2, <2>4, <2>5, DetectionAssumption DEF EventsInv
  <2>7. ASSUME NEW i \in DOMAIN events', NEW j \in DOMAIN events', i < j,
               events'[i].zone = events'[j].zone, events'[i].zone # NoZone,
               events'[i].class = events'[j].class, events'[i].recent,
               IsOpen(i)'
        PROVE  events'[i].status = "reopened"
    <3>1. i \in 1 .. Len(events) /\ events'[i] = events[i]
      BY <2>4, <2>5, <2>7
    <3>2. CASE j \in 1 .. Len(events)
      <4>1. events'[j] = events[j]
        BY <2>4, <3>2
      <4> QED
        BY <2>5, <2>7, <3>1, <3>2, <4>1 DEF DuplicatesAreReopened, IsOpen
    <3>3. CASE j = Len(events) + 1
      <4>1. events[i].zone = zone /\ events[i].class = k /\ zone # NoZone
        BY <2>1, <2>4, <2>7, <3>1, <3>3
      <4> QED
        BY <1>2, <2>5, <2>7, <3>1, <4>1 DEF DedupTargets, IsOpen
    <3> QED
      BY <2>5, <3>2, <3>3
  <2>8. DuplicatesAreReopened'
    BY <2>7 DEF DuplicatesAreReopened, IsOpen
  <2> QED
    BY <2>6, <2>8
<1> QED
  BY <1>1, <1>2 DEF Ingest

\* An event whose window ends or that is closed is of no account any more, and
\* one that is opened again is known for it.
EventChanges(i) == WindowEnds(i) \/ Close(i) \/ Reopen(i)

LEMMA EventKeeps ==
  ASSUME EventsInv, DuplicatesAreReopened, NEW i \in DOMAIN events, EventChanges(i)
  PROVE  EventsInv' /\ DuplicatesAreReopened'
<1>1. events \in Seq(Rows) /\ i \in 1 .. Len(events) /\ DOMAIN events = 1 .. Len(events)
  BY LenProperties DEF EventsInv
<1>2. PICK e : /\ \/ e = [events[i] EXCEPT !.recent = FALSE]
                  \/ e = [events[i] EXCEPT !.status = "closed"]
                  \/ e = [events[i] EXCEPT !.status = "reopened"]
               /\ events' = [events EXCEPT ![i] = e]
  BY DEF EventChanges, WindowEnds, Close, Reopen
<1>3. events[i] \in Rows
  BY <1>1, ElementOfSeq
<1>4. /\ e \in Rows /\ e.zone = events[i].zone /\ e.class = events[i].class
      /\ (e.recent => events[i].recent)
      /\ (e.status = "open" => events[i].status = "open")
  BY <1>2, <1>3 DEF Rows
<1>5. /\ events' \in Seq(Rows) /\ Len(events') = Len(events)
      /\ \A j \in 1 .. Len(events) : events'[j] = IF j = i THEN e ELSE events[j]
  BY <1>1, <1>2, <1>4, ExceptSeq
<1>6. DOMAIN events' = 1 .. Len(events)
  BY <1>5, LenProperties
<1>7. \A j \in DOMAIN events : /\ events'[j].zone = events[j].zone
                             /\ events'[j].class = events[j].class
                             /\ (events'[j].recent => events[j].recent)
                             /\ (events'[j].status = "open" => events[j].status = "open")
  BY <1>1, <1>4, <1>5
<1>8. EventsInv'
  BY <1>5 DEF EventsInv
<1>9. \A j \in DOMAIN events : events'[j].status \in {"open", "closed", "reopened"}
  <2>1. \A j \in 1 .. Len(events) : events'[j] \in Rows
    BY <1>5, ElementOfSeq
  <2> QED
    BY <1>1, <2>1 DEF Rows
<1>10. DuplicatesAreReopened'
  BY <1>1, <1>6, <1>7, <1>9 DEF DuplicatesAreReopened, IsOpen
<1> QED
  BY <1>8, <1>10

-----------------------------------------------------------------------------
(***************************************************************************)
(* The whole.                                                               *)
(***************************************************************************)

LEMMA CountsFromZero ==
  /\ ForAll(FALSE) \in [Cctvs -> [StatusStates -> BOOLEAN]]
  /\ ForAll(0) \in [Cctvs -> [StatusStates -> 0 .. HitThreshold - 1]]
  /\ ForAll(0) \in [Cctvs -> [StatusStates -> 0 .. OffMissThreshold - 1]]
<1>1. 0 \in 0 .. HitThreshold - 1 /\ 0 \in 0 .. OffMissThreshold - 1
  BY CctvAssumption
<1> QED
  BY <1>1 DEF ForAll

LEMMA DetInit == Init => DetInv
<1> SUFFICES ASSUME Init PROVE DetInv
  OBVIOUS
<1>1. CctvTypeOK
  BY CountsFromZero DEF Init, CctvInit, CctvTypeOK
<1>2. AmbientInv
  <2>1. 0 \in 0 .. AmbientOff - 1
    BY AmbientAssumption
  <2>2. /\ active \in [AmrCams -> SUBSET AnomalyClasses]
        /\ ambientMisses \in [AmrCams -> [AnomalyClasses -> 0 .. AmbientOff - 1]]
        /\ ambientStarted \in BOOLEAN
    BY <2>1 DEF Init, AmbientInit
  <2>3. \A a \in AmrCams : \A k \in AnomalyClasses : hitWindows[a][k] = << >>
    BY DEF Init, AmbientInit
  <2>4. hitWindows \in [AmrCams -> [AnomalyClasses -> Seq(BOOLEAN)]]
    BY NoHits DEF Init, AmbientInit
  <2> QED
    BY <2>2, <2>3, <2>4, NoHits DEF AmbientInv
<1>3. /\ inbound = << >> /\ events = << >>
      /\ quiet = [c \in Cams |-> [k \in ClassesOf(c) |-> Off(c) + 1]]
      /\ reports = [c \in Cams |-> [k \in ClassesOf(c) |-> 0]]
  BY DEF Init
<1>4. ViewInv
  BY <1>3, OffType DEF ViewInv
<1>5. CctvEpisodes
  BY <1>3, OffType DEF Init, CctvInit, ForAll, CctvEpisodes
<1>6. AmbientEpisodes
  BY <1>3, OffType DEF Init, AmbientInit, AmbientEpisodes
<1>7. QueueInv /\ EventsInv
  <2>1. << >> \in Seq(CamStates) /\ << >> \in Seq(Rows) /\ Len(<< >>) = 0
    BY EmptySeq
  <2> QED
    BY <1>3, <2>1, DetectionAssumption DEF QueueInv, EventsInv
<1>8. ReportsTrue /\ DuplicatesAreReopened
  BY <1>3 DEF ReportsTrue, DuplicatesAreReopened, IsOpen
<1> QED
  BY <1>1, <1>2, <1>4, <1>5, <1>6, <1>7, <1>8 DEF DetInv, CountsInv

LEMMA SameCounts ==
  ASSUME CountsInv, UNCHANGED << cctvVars, ambientVars, quiet, reports >>
  PROVE  CountsInv'
BY DEF CountsInv, CctvTypeOK, AmbientInv, ViewInv, CctvEpisodes, AmbientEpisodes,
       cctvVars, ambientVars

LEMMA SameQueue ==
  ASSUME QueueInv, ReportsTrue, UNCHANGED << inbound, quiet >>
  PROVE  QueueInv' /\ ReportsTrue'
BY DEF QueueInv, ReportsTrue, Saw

LEMMA SameEvents ==
  ASSUME EventsInv, DuplicatesAreReopened, UNCHANGED events
  PROVE  EventsInv' /\ DuplicatesAreReopened'
BY DEF EventsInv, DuplicatesAreReopened, IsOpen

\* The message at the head of the queue.
LEMMA HeadOfQueue ==
  ASSUME QueueInv, ReportsTrue, inbound # << >>
  PROVE  /\ Head(inbound) \in CamStates
         /\ IsReport(Head(inbound)) => Saw(Head(inbound))
         /\ Tail(inbound) \in Seq(CamStates)
         /\ Len(Tail(inbound)) <= InboundSize
         /\ \A i \in DOMAIN Tail(inbound) : i + 1 \in DOMAIN inbound
                                          /\ Tail(inbound)[i] = inbound[i + 1]
<1>1. inbound \in Seq(CamStates)
  BY DEF QueueInv
<1>2. /\ Head(inbound) \in CamStates /\ Tail(inbound) \in Seq(CamStates)
      /\ Len(Tail(inbound)) = Len(inbound) - 1
      /\ \A i \in 1 .. Len(Tail(inbound)) : Tail(inbound)[i] = inbound[i + 1]
  BY <1>1, HeadTailProperties
<1>3. /\ Len(inbound) \in Nat /\ DOMAIN inbound = 1 .. Len(inbound)
      /\ DOMAIN Tail(inbound) = 1 .. Len(Tail(inbound))
  BY <1>1, <1>2, LenProperties
<1>4. 1 \in DOMAIN inbound /\ Head(inbound) = inbound[1]
  BY <1>1, <1>3, EmptySeq
<1> QED
  BY <1>2, <1>3, <1>4, DetectionAssumption DEF QueueInv, ReportsTrue

LEMMA DetStart ==
  ASSUME DetInv, NEW on \in UiStart, StartStopCctv(on)
  PROVE  DetInv'
<1>1. CctvTypeOK' /\ CctvEpisodes'
  <2>1. CctvTypeOK'
    <3>1. cctvStarted' \in BOOLEAN
      BY DetectionAssumption DEF StartStopCctv, StartCctv
    <3> QED
      BY <3>1, CountsFromZero DEF DetInv, CountsInv, CctvTypeOK, StartStopCctv, StartCctv
  <2>2. \A c \in Cctvs : \A k \in StatusStates : ~ lastStatus'[c][k] /\ reports'[c][k] = 0
    BY OffType DEF StartStopCctv, StartCctv, ForAll
  <2> QED
    BY <2>1, <2>2 DEF CctvEpisodes
<1>2. AmbientInv' /\ AmbientEpisodes'
  <2>1. /\ UNCHANGED ambientVars /\ quiet' = quiet
        /\ \A a \in AmrCams : reports'[a] = reports[a]
    BY OffType DEF StartStopCctv
  <2> QED
    BY <2>1 DEF DetInv, CountsInv, AmbientInv, AmbientEpisodes, ambientVars
<1>3. ViewInv'
  <2>1. \A c \in Cams : \A k \in ClassesOf(c) :
          quiet'[c][k] = quiet[c][k] /\ (reports'[c][k] = 0 \/ reports'[c][k] = reports[c][k])
    BY DEF StartStopCctv, ClassesOf
  <2> QED
    BY <2>1 DEF DetInv, CountsInv, ViewInv
<1>4. QueueInv' /\ ReportsTrue'
  BY InitialStatusIs, QueueStep DEF DetInv, StartStopCctv
<1>5. EventsInv' /\ DuplicatesAreReopened'
  BY SameEvents DEF DetInv, StartStopCctv
<1> QED
  BY <1>1, <1>2, <1>3, <1>4, <1>5 DEF DetInv, CountsInv

LEMMA DetHandle ==
  ASSUME DetInv, Handle
  PROVE  DetInv'
<1>1. inbound # << >> /\ inbound' = Tail(inbound)
      /\ UNCHANGED << cctvVars, ambientVars, quiet, reports >>
  BY DEF Handle
<1>2. CountsInv'
  BY <1>1, SameCounts DEF DetInv
<1>3. QueueInv' /\ ReportsTrue'
  BY <1>1, HeadOfQueue DEF DetInv, QueueInv, ReportsTrue, Saw
<1>4. EventsInv' /\ DuplicatesAreReopened'
  <2>1. PICK m : m = Head(inbound)
    OBVIOUS
  <2>2. m \in CamStates
    BY <1>1, <2>1, HeadOfQueue DEF DetInv
  <2>3. m.class \in Classes /\ ZoneOf[m.camera] \in Zones
    BY <2>2 DEF CamStates, Zones
  <2>4. UNCHANGED events \/ Ingest(ZoneOf[m.camera], m.class)
    BY <2>1 DEF Handle
  <2> QED
    BY <2>3, <2>4, SameEvents, IngestKeeps DEF DetInv
<1> QED
  BY <1>2, <1>3, <1>4 DEF DetInv

LEMMA DetNext ==
  ASSUME DetInv, [Next]_vars
  PROVE  DetInv'
<1>1. CASE UNCHANGED vars
  BY <1>1, SameCounts, SameQueue, SameEvents DEF DetInv, vars, worldVars
<1>2. ASSUME NEW on \in UiStart, StartStopCctv(on) PROVE DetInv'
  BY <1>2, DetStart
<1>3. ASSUME NEW on \in UiStart, StartStopAmbient(on) PROVE DetInv'
  <2>1. /\ UNCHANGED << cctvVars, worldVars >> /\ ambientStarted' = on
        /\ UNCHANGED << active, hitWindows, ambientMisses >>
    BY <1>3 DEF StartStopAmbient, StartAmbient
  <2>2. ambientStarted' \in BOOLEAN
    BY <1>3, DetectionAssumption DEF StartStopAmbient, StartAmbient
  <2>3. CountsInv'
    BY <2>1, <2>2 DEF DetInv, CountsInv, CctvTypeOK, AmbientInv, ViewInv, CctvEpisodes,
                      AmbientEpisodes, cctvVars, worldVars
  <2> QED
    BY <2>1, <2>3, SameQueue, SameEvents DEF DetInv, worldVars
<1>4. ASSUME InferCctv PROVE DetInv'
  <2>1. PICK seen \in [Cctvs -> SUBSET StatusStates], broken \in Cctvs \cup {NoCamera},
             done \in SUBSET Cctvs :
          /\ ProcessFrames(seen, broken, done) /\ Enqueue(StatusChanges)
          /\ Watched(done \cup ({broken} \cap Cctvs), seen) /\ Counted
          /\ UNCHANGED << ambientVars, events, steady >>
    BY <1>4 DEF InferCctv
  <2>2. CountsInv'
    BY <2>1, CctvCounts DEF DetInv
  <2>3. QueueInv' /\ ReportsTrue'
    BY <2>1, <2>2, SeenByCctv DEF DetInv, CountsInv
  <2> QED
    BY <2>1, <2>2, <2>3, SameEvents DEF DetInv
<1>5. ASSUME NEW c \in Cctvs, CaptureFrame(c) PROVE DetInv'
  <2>1. /\ newFrame' = [newFrame EXCEPT ![c] = TRUE]
        /\ UNCHANGED << cctvStarted, lastStatus, hitCounts, missCounts, ambientVars, worldVars >>
    BY <1>5 DEF CaptureFrame, Capture
  <2>2. CountsInv'
    BY <2>1 DEF DetInv, CountsInv, CctvTypeOK, AmbientInv, ViewInv, CctvEpisodes,
                AmbientEpisodes, ambientVars, worldVars
  <2> QED
    BY <2>1, <2>2, SameQueue, SameEvents DEF DetInv, worldVars
<1>6. ASSUME NEW a \in AmrCams, InferAmbient(a) PROVE DetInv'
  <2>1. PICK seen \in SUBSET AnomalyClasses :
          /\ Image(a, seen) /\ Enqueue(Appeared(a))
          /\ Watched({a}, [b \in {a} |-> seen]) /\ Counted
          /\ UNCHANGED << cctvVars, events, steady >>
    BY <1>6 DEF InferAmbient
  <2>2. CountsInv'
    BY <2>1, AmbientCounts DEF DetInv
  <2>3. QueueInv' /\ ReportsTrue'
    BY <2>1, <2>2, SeenByRobot DEF DetInv, CountsInv
  <2> QED
    BY <2>1, <2>2, <2>3, SameEvents DEF DetInv
<1>7. ASSUME NEW c, NEW k, BecomesSteady(c, k) PROVE DetInv'
  BY <1>7, SameCounts, SameQueue, SameEvents DEF DetInv, BecomesSteady
<1>8. ASSUME Handle PROVE DetInv'
  BY <1>8, DetHandle
<1>9. ASSUME NEW zone \in RestZones, NEW k \in StatusStates, Detect(zone, k) PROVE DetInv'
  <2>1. zone \in Zones /\ k \in Classes
    BY DEF Zones, Classes
  <2> QED
    BY <1>9, <2>1, SameCounts, SameQueue, IngestKeeps DEF DetInv, Detect
<1>10. ASSUME NEW i \in DOMAIN events, EventChanges(i) PROVE DetInv'
  <2>1. UNCHANGED << cctvVars, ambientVars, inbound, quiet, reports >>
    BY <1>10 DEF EventChanges, WindowEnds, Close, Reopen
  <2> QED
    BY <1>10, <2>1, SameCounts, SameQueue, EventKeeps DEF DetInv
<1> QED
  BY <1>1, <1>2, <1>3, <1>4, <1>5, <1>6, <1>7, <1>8, <1>9, <1>10 DEF Next, EventChanges

THEOREM DetectionInvariant == Spec => []DetInv
<1>1. Init => DetInv
  BY DetInit
<1>2. DetInv /\ [Next]_vars => DetInv'
  BY DetNext
<1> QED
  BY <1>1, <1>2, PTL DEF Spec

\* The counts of both detectors stay below their thresholds, the queue of the
\* bridge within its size: for any number of cameras and classes, any thresholds.
THEOREM DetectionTypeCorrect == Spec => []DetectionTypeOK
<1>1. DetInv => DetectionTypeOK
  BY DEF DetInv, CountsInv, AmbientInv, QueueInv, EventsInv, DetectionTypeOK, AmbientTypeOK
<1> QED
  BY <1>1, DetectionInvariant, PTL

\* A class that flickers is reported once, until its camera missed it as often in
\* a row as it takes to end it (detect_cctv_node.py:534, detect_ambient_node.py:247):
\* the counted misses are the misses since it was last seen.
THEOREM ReportedOnce == Spec => []OneReportPerEpisode
<1>1. DetInv => OneReportPerEpisode
  BY OffType DEF DetInv, CountsInv, CctvEpisodes, AmbientEpisodes, CctvTypeOK,
                 OneReportPerEpisode, Cams
<1> QED
  BY <1>1, DetectionInvariant, PTL

\* Of two events of one zone and class within the window the older is open only
\* if it was closed and opened again, whichever way they came in
\* (detection.py:32) and whatever is closed and opened again in between.
THEOREM OnlyReopenedDuplicates == Spec => []DuplicatesAreReopened
<1>1. DetInv => DuplicatesAreReopened
  BY DEF DetInv
<1> QED
  BY <1>1, DetectionInvariant, PTL

\* An event that comes of a camera names what this camera saw at some time:
\* neither starting the detection nor an end of a class makes one
\* (vision_bridge.py:262).
THEOREM OnlySeenBecomesEvent == Spec => NoFalseAlarm
<1> DEFINE P == Len(events') > Len(events) /\ inbound' # inbound =>
                  LET m == Head(inbound) IN quiet[m.camera][m.class] <= Off(m.camera)
<1>1. ASSUME DetInv, [Next]_vars PROVE [P]_vars
  <2> SUFFICES ASSUME Len(events') > Len(events), inbound' # inbound, Next
               PROVE  LET m == Head(inbound) IN quiet[m.camera][m.class] <= Off(m.camera)
    BY <1>1 DEF vars, worldVars
  <2>1. events' # events
    <3>1. Len(events) \in Nat
      BY <1>1, LenProperties DEF DetInv, EventsInv
    <3> QED
      BY <3>1
  <2>2. Handle
    <3>1. \A on \in UiStart : ~ StartStopCctv(on) /\ ~ StartStopAmbient(on)
      BY <2>1 DEF StartStopCctv, StartStopAmbient, worldVars
    <3>2. ~ InferCctv /\ \A c \in Cctvs : ~ CaptureFrame(c)
      BY <2>1 DEF InferCctv, CaptureFrame, worldVars
    <3>3. \A a \in AmrCams : ~ InferAmbient(a)
      BY <2>1 DEF InferAmbient
    <3>4. \A c, k : ~ BecomesSteady(c, k)
      BY <2>1 DEF BecomesSteady
    <3>5. \A zone, k : ~ Detect(zone, k)
      BY DEF Detect
    <3>6. \A i : ~ WindowEnds(i) /\ ~ Close(i) /\ ~ Reopen(i)
      BY DEF WindowEnds, Close, Reopen
    <3> QED
      BY <3>1, <3>2, <3>3, <3>4, <3>5, <3>6 DEF Next
  <2>3. PICK m : m = Head(inbound)
    OBVIOUS
  <2>4. inbound # << >> /\ ~ Ignored(m)
    BY <2>1, <2>2, <2>3 DEF Handle
  <2>5. m \in CamStates /\ (IsReport(m) => Saw(m))
    BY <1>1, <2>3, <2>4, HeadOfQueue DEF DetInv
  <2>6. IsReport(m)
    BY <2>4, <2>5 DEF Ignored, IsReport, CamStates, Cams
  <2> QED
    BY <2>3, <2>5, <2>6 DEF Saw
<1>2. DetInv /\ [Next]_vars => [P]_vars
  BY <1>1
<1> QED
  BY <1>2, DetectionInvariant, PTL DEF Spec, NoFalseAlarm
=============================================================================
