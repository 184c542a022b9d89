--------------------------- MODULE Incidents_proofs ---------------------------
(***************************************************************************)
(* Proofs about Incidents, for any zones, robots, lists of actions and      *)
(* bounds: actuators run only for a request that passed its interlock, and  *)
(* in the order that was asked for, and the automatic verdict follows the   *)
(* majority of the strong observations.                                     *)
(***************************************************************************)
EXTENDS Incidents, FiniteSetTheorems, WellFoundedInduction, TLAPS

EventRows == [type : Types, zone : Zones, status : EventStatuses, assigned : BOOLEAN, obs : Seq(Labels)]
SuppressionRows == [zone : Zones, actions : Plans, passed : BOOLEAN, approved : BOOLEAN,
                    status : {"INTERLOCK_CHECK", "BLOCKED", "COMPLETED", "FAILED", "ABORTED"}]

\* A row that waits for its approval has passed the interlock, and until the approval
\* nothing was carried out; CarriedOut is put behind what is done, which is nothing.
Waiting ==
    \A s \in DOMAIN suppressions :
        /\ suppressions[s].status = "INTERLOCK_CHECK" => suppressions[s].passed /\ done[s] = << >>
        /\ suppressions[s].status = "BLOCKED" => done[s] = << >>

\* What was carried out, once the shape of the rows is known.
Rows == /\ events \in Seq(EventRows)
        /\ suppressions \in Seq(SuppressionRows)
        /\ DOMAIN done = DOMAIN suppressions /\ done \in Seq(UNION {Seq(ToSet(plan)) : plan \in Plans})
        /\ DOMAIN lost = DOMAIN suppressions /\ lost \in Seq(SUBSET UNION {Seq(ToSet(plan)) : plan \in Plans})

IncidentsInv == Rows /\ Waiting /\ OnlyApprovedRuns /\ DoneInOrder

-----------------------------------------------------------------------------
\* Numbers have a least.
LEMMA LeastOf ==
  ASSUME NEW I \in SUBSET Nat, I # {}
  PROVE  \E n \in I : \A m \in I : n <= m
<1> DEFINE less == OpToRel(<, Nat)
<1>1. IsWellFoundedOn(less, Nat)
  BY NatLessThanWellFounded, Zenon
<1>2. \A m, n \in Nat : m < n => <<m, n>> \in less
  BY DEF OpToRel
<1> HIDE DEF less
<1>3. PICK n \in I : \A m \in I : ~ (<<m, n>> \in less)
  BY <1>1, WFMin
<1>4. \A m \in I : m \in Nat /\ n \in Nat /\ ~ (m < n)
  BY <1>2, <1>3
<1> QED
  BY <1>4

\* The first action that fails, if one does.
LEMMA FirstFailing ==
  ASSUME NEW plan \in Plans, NEW failing
  PROVE  LET until == SelectInSeq(plan, LAMBDA a : a \in failing)
         IN  \/ until = 0 /\ \A i \in 1 .. Len(plan) : plan[i] \notin failing
             \/ until \in 1 .. Len(plan) /\ plan[until] \in failing
<1> DEFINE I == {i \in 1 .. Len(plan) : plan[i] \in failing}
<1>1. Len(plan) \in Nat
  BY PlansAssumption
<1>2. CASE I = {}
  BY <1>2 DEF SelectInSeq
<1>3. CASE I # {}
  <2>1. I \in SUBSET Nat
    BY <1>1
  <2>2. \E n \in I : \A m \in I : n <= m
    BY <1>3, <2>1, LeastOf
  <2>3. Min(I) \in I
    BY <2>2 DEF Min
  <2> QED
    BY <1>3, <2>3 DEF SelectInSeq
<1> QED
  BY <1>2, <1>3

\* execute carries out a beginning of the list, all of it if nothing fails.
LEMMA CarriedOutFacts ==
  ASSUME NEW plan \in Plans, NEW failing
  PROVE  /\ CarriedOut(plan, failing) \in Seq(ToSet(plan))
         /\ IsPrefix(CarriedOut(plan, failing), plan)
         /\ ToSet(plan) \cap failing = {} => CarriedOut(plan, failing) = plan
<1> DEFINE until == SelectInSeq(plan, LAMBDA a : a \in failing)
<1>1. plan \in Seq(ToSet(plan)) /\ Len(plan) \in Nat /\ DOMAIN plan = 1 .. Len(plan)
  BY PlansAssumption
<1>2. CarriedOut(plan, failing) = IF until = 0 THEN plan ELSE SubSeq(plan, 1, until - 1)
  BY DEF CarriedOut
<1>3. \/ until = 0 /\ \A i \in 1 .. Len(plan) : plan[i] \notin failing
      \/ until \in 1 .. Len(plan) /\ plan[until] \in failing
  BY FirstFailing
<1> HIDE DEF until
<1>4. CASE until = 0
  BY <1>1, <1>2, <1>4 DEF IsPrefix
<1>5. CASE until \in 1 .. Len(plan) /\ plan[until] \in failing
  <2>1. plan[until] \in ToSet(plan) \cap failing
    BY <1>1, <1>5 DEF ToSet
  <2>2. SubSeq(plan, 1, until - 1) \in Seq(ToSet(plan)) /\ Len(SubSeq(plan, 1, until - 1)) = until - 1
    BY <1>1, <1>5
  <2>3. IsPrefix(SubSeq(plan, 1, until - 1), plan)
    BY <1>1, <1>5, <2>2 DEF IsPrefix
  <2> QED
    BY <1>2, <1>5, <2>1, <2>2, <2>3
<1> QED
  BY <1>3, <1>4, <1>5

\* A rolled back approval as well.
LEMMA PrefixesFacts ==
  ASSUME NEW plan \in Plans, NEW run \in Prefixes(plan)
  PROVE  run \in Seq(ToSet(plan)) /\ IsPrefix(run, plan)
<1>1. plan \in Seq(ToSet(plan)) /\ Len(plan) \in Nat
  BY PlansAssumption
<1>2. PICK l \in 0 .. Len(plan) : run = SubSeq(plan, 1, l)
  BY DEF Prefixes
<1>3. SubSeq(plan, 1, l) \in Seq(ToSet(plan)) /\ Len(SubSeq(plan, 1, l)) = l
  BY <1>1, <1>2
<1>4. IsPrefix(SubSeq(plan, 1, l), plan)
  BY <1>1, <1>2, <1>3 DEF IsPrefix
<1> QED
  BY <1>2, <1>3, <1>4

LEMMA NothingIsPrefix == ASSUME NEW plan \in Plans PROVE IsPrefix(<< >>, plan)
<1>1. plan \in Seq(ToSet(plan)) /\ Len(plan) \in Nat
  BY PlansAssumption
<1> QED
  BY <1>1 DEF IsPrefix

-----------------------------------------------------------------------------
\* The steps of an event leave suppressions alone and keep the rows of events.
LEMMA EventSteps ==
  ASSUME Rows, NEW e \in DOMAIN events,
         \/ Assign(e) \/ NobodyFree(e) \/ Reinspect(e) \/ Resolve(e)
         \/ \E label \in Labels, strong \in BOOLEAN : Observe(e, label, strong)
         \/ \E v \in Verdicts \cup {VerdictOf(events[e].obs)} : Judge(e, v)
         \/ \E v \in Verdicts : Review(e, v)
  PROVE  events' \in Seq(EventRows) /\ UNCHANGED <<suppressions, done, lost>>
<1>1. events \in Seq(EventRows) /\ events[e] \in EventRows
  BY DEF Rows
<1>2. VerdictOf(events[e].obs) \in Verdicts
  BY DEF VerdictOf, Verdicts
<1>3. ASSUME NEW st \in EventStatuses, SetStatus(e, st)
      PROVE  events' \in Seq(EventRows) /\ UNCHANGED <<suppressions, done, lost>>
  <2>1. [events[e] EXCEPT !.status = st] \in EventRows
    BY <1>1 DEF EventRows
  <2>2. events' = [events EXCEPT ![e] = [events[e] EXCEPT !.status = st]] /\ UNCHANGED <<suppressions, done, lost>>
    BY <1>1, <1>3 DEF SetStatus
  <2> QED
    BY <1>1, <2>1, <2>2
<1>4. CASE Assign(e)
  <2>1. [events[e] EXCEPT !.status = "ASSIGNED", !.assigned = TRUE] \in EventRows
    BY <1>1 DEF EventRows, EventStatuses
  <2>2. /\ events' = [events EXCEPT ![e] = [events[e] EXCEPT !.status = "ASSIGNED", !.assigned = TRUE]]
        /\ UNCHANGED <<suppressions, done, lost>>
    BY <1>1, <1>4 DEF Assign
  <2> QED
    BY <1>1, <2>1, <2>2
<1>5. CASE NobodyFree(e) \/ Reinspect(e) \/ Resolve(e)
  BY <1>3, <1>5 DEF NobodyFree, Reinspect, Resolve, EventStatuses
<1>6. ASSUME NEW label \in Labels, NEW strong \in BOOLEAN, Observe(e, label, strong)
      PROVE  events' \in Seq(EventRows) /\ UNCHANGED <<suppressions, done, lost>>
  <2> DEFINE st == IF events[e].status \in ClosedStatuses THEN events[e].status ELSE "VERIFYING"
             ob == IF strong THEN Append(events[e].obs, label) ELSE events[e].obs
  <2>1. st \in EventStatuses /\ ob \in Seq(Labels)
    BY <1>1 DEF EventRows, EventStatuses
  <2>2. events' = [events EXCEPT ![e] = [@ EXCEPT !.status = st, !.obs = ob]] /\ UNCHANGED <<suppressions, done, lost>>
    BY <1>1, <1>6 DEF Observe, EventRows
  <2>3. [events[e] EXCEPT !.status = st, !.obs = ob] \in EventRows
    BY <1>1, <2>1 DEF EventRows
  <2> QED
    BY <1>1, <2>2, <2>3
<1>7. ASSUME NEW v \in Verdicts \cup {VerdictOf(events[e].obs)}, Judge(e, v)
      PROVE  events' \in Seq(EventRows) /\ UNCHANGED <<suppressions, done, lost>>
  <2>1. StatusOfVerdict(v) \in EventStatuses
    BY <1>2, <1>7 DEF StatusOfVerdict, Verdicts, EventStatuses
  <2> QED
    BY <1>3, <1>7, <2>1 DEF Judge
<1>8. ASSUME NEW v \in Verdicts, Review(e, v)
      PROVE  events' \in Seq(EventRows) /\ UNCHANGED <<suppressions, done, lost>>
  <2>1. (IF v = "UNVERIFIED" THEN events[e].status ELSE v) \in EventStatuses
    BY <1>1 DEF Verdicts, EventStatuses, EventRows
  <2> QED
    BY <1>3, <1>8, <2>1 DEF Review
<1> QED
  BY <1>4, <1>5, <1>6, <1>7, <1>8

LEMMA IncidentsInit == Init => IncidentsInv
BY DEF Init, IncidentsInv, Rows, Waiting, OnlyApprovedRuns, DoneInOrder

LEMMA IncidentsNext == IncidentsInv /\ [Next]_vars => IncidentsInv'
<1> SUFFICES ASSUME IncidentsInv, [Next]_vars PROVE IncidentsInv'
  OBVIOUS
<1> DEFINE Lists == UNION {Seq(ToSet(plan)) : plan \in Plans}
<1>0. /\ Rows /\ Waiting /\ OnlyApprovedRuns /\ DoneInOrder
      /\ suppressions \in Seq(SuppressionRows) /\ done \in Seq(Lists)
      /\ DOMAIN done = DOMAIN suppressions /\ Len(done) = Len(suppressions)
      /\ DOMAIN lost = DOMAIN suppressions /\ Len(lost) = Len(suppressions) /\ lost \in Seq(SUBSET Lists)
  BY DEF IncidentsInv, Rows
<1>u. ASSUME events' \in Seq(EventRows), UNCHANGED <<suppressions, done, lost>> PROVE IncidentsInv'
  BY <1>0, <1>u DEF IncidentsInv, Rows, Waiting, OnlyApprovedRuns, DoneInOrder
<1>1. ASSUME NEW zone \in Zones, NEW type \in Types, Create(zone, type) PROVE IncidentsInv'
  <2>1. [type |-> type, zone |-> zone, status |-> "QUEUED", assigned |-> FALSE, obs |-> <<>>] \in EventRows
    BY DEF EventRows, EventStatuses
  <2>2. events' \in Seq(EventRows)
    BY <1>0, <1>1, <2>1 DEF Create, Rows
  <2> QED
    BY <1>u, <1>1, <2>2 DEF Create
<1>2. ASSUME NEW e \in DOMAIN events,
             \/ Assign(e) \/ NobodyFree(e) \/ Reinspect(e) \/ Resolve(e)
             \/ \E label \in Labels, strong \in BOOLEAN : Observe(e, label, strong)
             \/ \E v \in Verdicts \cup {VerdictOf(events[e].obs)} : Judge(e, v)
             \/ \E v \in Verdicts : Review(e, v)
      PROVE  IncidentsInv'
  BY <1>0, <1>u, <1>2, EventSteps
<1>3. ASSUME NEW zone \in Zones, NEW plan \in Plans, Request(zone, plan) PROVE IncidentsInv'
  <2> DEFINE clear == Blockers(zone) = {}
             row == [zone |-> zone, actions |-> plan, passed |-> clear, approved |-> FALSE,
                     status |-> IF clear THEN "INTERLOCK_CHECK" ELSE "BLOCKED"]
  <2>1. row \in SuppressionRows /\ row.status = (IF clear THEN "INTERLOCK_CHECK" ELSE "BLOCKED") /\ row.passed = clear
        /\ row.actions = plan
    BY DEF SuppressionRows
  <2>2. /\ suppressions' = Append(suppressions, row) /\ done' = Append(done, << >>)
        /\ lost' = Append(lost, {}) /\ UNCHANGED events
    BY <1>3 DEF Request
  <2>3. << >> \in Lists
    OBVIOUS
  <2>4. IsPrefix(<< >>, plan)
    BY NothingIsPrefix
  <2> HIDE DEF row, clear
  <2>5. Rows'
    <3> HIDE DEF Lists
    <3>1. suppressions' \in Seq(SuppressionRows) /\ done' \in Seq(Lists) /\ lost' \in Seq(SUBSET Lists)
          /\ DOMAIN done' = DOMAIN suppressions' /\ DOMAIN lost' = DOMAIN suppressions'
      BY <1>0, <2>1, <2>2, <2>3
    <3> QED
      BY <1>0, <2>2, <3>1 DEF Rows, Lists
  <2>6. \A s \in DOMAIN suppressions' :
          \/ /\ s \in DOMAIN suppressions /\ suppressions'[s] = suppressions[s]
             /\ done'[s] = done[s] /\ lost'[s] = lost[s]
          \/ suppressions'[s] = row /\ done'[s] = << >> /\ lost'[s] = {}
    BY <1>0, <2>2
  <2>7. Waiting' /\ OnlyApprovedRuns'
    BY <1>0, <2>1, <2>6 DEF Waiting, OnlyApprovedRuns
  <2>8. DoneInOrder'
    <3>1. row.status # "COMPLETED"
      BY <2>1
    <3> QED
      BY <1>0, <2>1, <2>4, <2>6, <3>1 DEF DoneInOrder
  <2> QED
    BY <2>5, <2>7, <2>8 DEF IncidentsInv
<1>4. ASSUME NEW s \in DOMAIN suppressions, Abort(s) PROVE IncidentsInv'
  <2>1. suppressions' = [suppressions EXCEPT ![s].status = "ABORTED"] /\ UNCHANGED <<events, done, lost>>
    BY <1>4 DEF Abort
  <2>2. suppressions' \in Seq(SuppressionRows) /\ DOMAIN suppressions' = DOMAIN suppressions
    <3>1. suppressions[s] \in SuppressionRows
      BY <1>0
    <3>2. [suppressions[s] EXCEPT !.status = "ABORTED"] \in SuppressionRows
      BY <3>1 DEF SuppressionRows
    <3>3. suppressions' = [suppressions EXCEPT ![s] = [suppressions[s] EXCEPT !.status = "ABORTED"]]
      BY <2>1
    <3> QED
      BY <1>0, <3>2, <3>3
  <2>3. \A t \in DOMAIN suppressions :
          /\ suppressions'[t].passed = suppressions[t].passed
          /\ suppressions'[t].approved = suppressions[t].approved
          /\ suppressions'[t].actions = suppressions[t].actions
          /\ suppressions'[t].status \in {suppressions[t].status, "ABORTED"}
    BY <1>0, <2>1 DEF SuppressionRows
  <2> HIDE DEF Lists
  <2>4. Rows'
    BY <1>0, <2>1, <2>2 DEF Rows, Lists
  <2>5. Waiting' /\ OnlyApprovedRuns'
    BY <1>0, <2>1, <2>2, <2>3 DEF Waiting, OnlyApprovedRuns
  <2>6. DoneInOrder'
    <3> SUFFICES ASSUME NEW t \in DOMAIN suppressions
        PROVE  /\ \A run \in lost'[t] \cup {done'[t]} : IsPrefix(run, suppressions'[t].actions)
               /\ suppressions'[t].status = "COMPLETED" => done'[t] = suppressions'[t].actions
      BY <2>2 DEF DoneInOrder
    <3>1. /\ \A run \in lost[t] \cup {done[t]} : IsPrefix(run, suppressions[t].actions)
          /\ suppressions[t].status = "COMPLETED" => done[t] = suppressions[t].actions
      BY <1>0 DEF DoneInOrder
    <3>2. lost' = lost /\ done' = done
      BY <2>1
    <3> QED
      BY <2>3, <3>1, <3>2
  <2> QED
    BY <2>4, <2>5, <2>6 DEF IncidentsInv
<1>5. ASSUME NEW s \in DOMAIN suppressions, NEW failing \in SUBSET ToSet(suppressions[s].actions),
             Approve(s, failing)
      PROVE  IncidentsInv'
  <2> DEFINE plan == suppressions[s].actions
             ok == ToSet(plan) \cap failing = {}
             st == IF ok THEN "COMPLETED" ELSE "FAILED"
             out == CarriedOut(plan, failing)
  <2>0. suppressions[s] \in SuppressionRows
    BY <1>0
  <2>1. suppressions[s] \in SuppressionRows /\ plan \in Plans
    BY <2>0 DEF SuppressionRows
  <2>2. suppressions[s].passed /\ done[s] = << >>
    BY <1>0, <1>5, <2>1 DEF Approve, MayApprove, Waiting, SuppressionRows
  <2>3. out \in Seq(ToSet(plan)) /\ IsPrefix(out, plan) /\ (ok => out = plan)
    BY <2>1, CarriedOutFacts
  <2>4. done' = [done EXCEPT ![s] = << >> \o out]
    BY <1>0, <1>5, <2>2 DEF Approve
  <2>5. << >> \o out = out
    BY <2>3
  <2>6. suppressions' = [suppressions EXCEPT ![s].approved = TRUE, ![s].status = st] /\ UNCHANGED <<events, lost>>
    BY <1>5 DEF Approve
  <2>7. suppressions' \in Seq(SuppressionRows) /\ DOMAIN suppressions' = DOMAIN suppressions
    <3> HIDE DEF ok
    <3>1. [suppressions[s] EXCEPT !.approved = TRUE, !.status = st] \in SuppressionRows
      BY <2>0 DEF SuppressionRows
    <3>2. suppressions' = [suppressions EXCEPT ![s] = [suppressions[s] EXCEPT !.approved = TRUE, !.status = st]]
      BY <2>6
    <3> QED
      BY <1>0, <3>1, <3>2
  <2>8. out \in Lists
    BY <2>1, <2>3
  <2>9. done' = [done EXCEPT ![s] = out]
    BY <2>4, <2>5
  <2>10. /\ suppressions'[s].passed = suppressions[s].passed /\ suppressions'[s].approved
         /\ suppressions'[s].actions = plan /\ suppressions'[s].status = st
    BY <1>0, <2>1, <2>6 DEF SuppressionRows
  <2>11. \A t \in DOMAIN suppressions \ {s} : suppressions'[t] = suppressions[t] /\ done'[t] = done[t]
    BY <1>0, <2>6, <2>9
  <2>12. done'[s] = out /\ DOMAIN done' = DOMAIN done /\ lost' = lost
    BY <1>0, <2>6, <2>9
  <2>13. st \notin {"INTERLOCK_CHECK", "BLOCKED"} /\ (st = "COMPLETED" => ok)
    OBVIOUS
  <2> HIDE DEF out, st, ok
  <2>14. Rows'
    <3> HIDE DEF Lists, plan
    <3>1. done' \in Seq(Lists)
      BY <1>0, <2>8, <2>9
    <3> QED
      BY <1>0, <2>6, <2>7, <2>12, <3>1 DEF Rows, Lists
  <2>15. Waiting' /\ OnlyApprovedRuns'
    <3> HIDE DEF Lists
    <3> QED
      BY <1>0, <2>2, <2>7, <2>10, <2>11, <2>12, <2>13 DEF Waiting, OnlyApprovedRuns
  <2>16. DoneInOrder'
    <3> HIDE DEF Lists
    <3> QED
      BY <1>0, <2>3, <2>7, <2>10, <2>11, <2>12, <2>13 DEF DoneInOrder
  <2> QED
    BY <2>14, <2>15, <2>16 DEF IncidentsInv
<1>6. ASSUME NEW r \in Robots, NEW zone \in Zones \cup {"elsewhere"}, NEW c \in BOOLEAN, RobotMoves(r, zone, c)
      PROVE  IncidentsInv'
  BY <1>0, <1>u, <1>6 DEF RobotMoves, Rows
<1>7. ASSUME NEW s \in DOMAIN suppressions, ApproveRollsBack(s) PROVE IncidentsInv'
  <2> DEFINE plan == suppressions[s].actions
  <2>1. suppressions[s] \in SuppressionRows
    BY <1>0
  <2>2. plan \in Plans /\ suppressions[s].passed
    BY <1>0, <1>7, <2>1 DEF ApproveRollsBack, MayApprove, Waiting, SuppressionRows
  <2>3. PICK run \in Prefixes(plan) : lost' = [lost EXCEPT ![s] = @ \cup {run}]
    BY <1>7 DEF ApproveRollsBack
  <2>4. run \in Seq(ToSet(plan)) /\ IsPrefix(run, plan)
    BY <2>2, PrefixesFacts
  <2>5. UNCHANGED <<events, suppressions, done>>
    BY <1>7 DEF ApproveRollsBack
  <2>6. lost[s] \cup {run} \in SUBSET Lists
    BY <1>0, <2>2, <2>4
  <2> HIDE DEF plan, Lists
  <2>7. /\ lost' \in Seq(SUBSET Lists) /\ DOMAIN lost' = DOMAIN lost /\ lost'[s] = lost[s] \cup {run}
        /\ \A t \in DOMAIN suppressions \ {s} : lost'[t] = lost[t]
    BY <1>0, <2>3, <2>6
  <2>8. Rows'
    BY <1>0, <2>5, <2>7 DEF Rows, Lists
  <2>9. Waiting' /\ OnlyApprovedRuns'
    BY <1>0, <2>2, <2>5, <2>7 DEF Waiting, OnlyApprovedRuns
  <2>10. DoneInOrder'
    BY <1>0, <2>4, <2>5, <2>7 DEF DoneInOrder, plan
  <2> QED
    BY <2>8, <2>9, <2>10 DEF IncidentsInv
<1>8. CASE UNCHANGED vars
  BY <1>0, <1>u, <1>8 DEF vars, Rows
<1> QED
  BY <1>1, <1>2, <1>3, <1>4, <1>5, <1>6, <1>7, <1>8 DEF Next

-----------------------------------------------------------------------------
(* The automatic verdict.                                                   *)

\* A label has no more votes than there are observations.
LEMMA VotesFacts ==
  ASSUME NEW obs \in Seq(Labels), NEW l
  PROVE  Votes(obs, l) \in Nat /\ Votes(obs, l) <= Len(obs)
<1> DEFINE I == {i \in DOMAIN obs : obs[i] = l}
<1>1. DOMAIN obs = 1 .. Len(obs) /\ Len(obs) \in Nat
  OBVIOUS
<1>2. IsFiniteSet(1 .. Len(obs)) /\ Cardinality(1 .. Len(obs)) = Len(obs)
  BY <1>1, FS_Interval
<1>3. I \subseteq 1 .. Len(obs)
  BY <1>1
<1> HIDE DEF I
<1>4. IsFiniteSet(I) /\ Cardinality(I) <= Len(obs)
  BY <1>2, <1>3, FS_Subset
<1>5. Cardinality(I) \in Nat
  BY <1>4, FS_CardinalityType
<1> QED
  BY <1>4, <1>5 DEF I, Votes

\* Where a label was observed first, or zero.
LEMMA FirstAtFacts ==
  ASSUME NEW obs \in Seq(Labels), NEW l
  PROVE  FirstAt(obs, l) \in Nat
<1> DEFINE I == {i \in 1 .. Len(obs) : obs[i] = l}
<1>1. I \in SUBSET Nat
  OBVIOUS
<1>2. CASE I = {}
  BY <1>2 DEF FirstAt, SelectInSeq
<1>3. CASE I # {}
  <2>1. \E n \in I : \A m \in I : n <= m
    BY <1>1, <1>3, LeastOf
  <2>2. Min(I) \in I
    BY <2>1 DEF Min
  <2> QED
    BY <1>3, <2>2 DEF FirstAt, SelectInSeq
<1> QED
  BY <1>2, <1>3

\* Among labels that two strong observations share one beats all: of those with the
\* most votes the one that was observed first.
LEMMA WinnerExists ==
  ASSUME NEW obs \in Seq(Labels), Eligible(obs) # {}
  PROVE  \E l \in Eligible(obs) : \A m \in Eligible(obs) : Beats(obs, l, m)
<1> DEFINE E == Eligible(obs)
           short == {Len(obs) - Votes(obs, l) : l \in E}
<1>1. \A l \in E : Votes(obs, l) \in Nat /\ Votes(obs, l) <= Len(obs) /\ FirstAt(obs, l) \in Nat
  BY VotesFacts, FirstAtFacts
<1>2. Len(obs) \in Nat /\ E # {}
  OBVIOUS
<1> HIDE DEF E
<1>3. short \in SUBSET Nat /\ short # {}
  BY <1>1, <1>2
<1>4. PICK s \in short : \A u \in short : s <= u
  BY <1>3, LeastOf
<1>5. PICK top \in E : s = Len(obs) - Votes(obs, top)
  BY <1>4
<1>6. \A m \in E : Votes(obs, m) <= Votes(obs, top)
  <2> SUFFICES ASSUME NEW m \in E PROVE Votes(obs, m) <= Votes(obs, top)
    OBVIOUS
  <2>1. Len(obs) - Votes(obs, m) \in short
    OBVIOUS
  <2>2. Len(obs) - Votes(obs, top) <= Len(obs) - Votes(obs, m)
    BY <1>4, <1>5, <2>1
  <2>3. Votes(obs, m) \in Nat /\ Votes(obs, top) \in Nat
    BY <1>1
  <2> QED
    BY <1>2, <2>2, <2>3
<1> DEFINE best == {m \in E : Votes(obs, m) = Votes(obs, top)}
           places == {FirstAt(obs, m) : m \in best}
<1>7. places \in SUBSET Nat /\ places # {}
  BY <1>1
<1>8. PICK f \in places : \A g \in places : f <= g
  <2> HIDE DEF places
  <2> QED
    BY <1>7, LeastOf
<1>9. PICK l \in best : f = FirstAt(obs, l)
  BY <1>8
<1>10. ASSUME NEW m \in E PROVE Beats(obs, l, m)
  <2>1. /\ Votes(obs, m) \in Nat /\ Votes(obs, l) \in Nat /\ Votes(obs, m) <= Votes(obs, l)
        /\ l \in E
    BY <1>1, <1>6
  <2>2. CASE Votes(obs, m) = Votes(obs, l)
    <3>1. FirstAt(obs, m) \in places
      BY <2>2
    <3>2. FirstAt(obs, l) <= FirstAt(obs, m)
      BY <1>8, <1>9, <3>1
    <3> QED
      BY <2>2, <3>2 DEF Beats
  <2>3. CASE Votes(obs, m) # Votes(obs, l)
    BY <2>1, <2>3 DEF Beats
  <2> QED
    BY <2>2, <2>3
<1> QED
  BY <1>9, <1>10 DEF E

\* The winner has the most votes of all labels.
LEMMA WinnerHasMost ==
  ASSUME NEW obs \in Seq(Labels), Eligible(obs) # {},
         NEW w, w = CHOOSE l \in Eligible(obs) : \A m \in Eligible(obs) : Beats(obs, l, m)
  PROVE  w \in Labels /\ Votes(obs, w) >= 2 /\ \A m \in Labels : Votes(obs, m) <= Votes(obs, w)
<1>1. w \in Eligible(obs) /\ \A m \in Eligible(obs) : Beats(obs, w, m)
  BY WinnerExists
<1>2. w \in Labels /\ Votes(obs, w) >= 2 /\ Votes(obs, w) \in Nat
  BY <1>1, VotesFacts DEF Eligible
<1>3. ASSUME NEW m \in Labels PROVE Votes(obs, m) <= Votes(obs, w)
  <2>1. Votes(obs, m) \in Nat
    BY VotesFacts
  <2>2. CASE m \in Eligible(obs)
    BY <1>1, <1>2, <2>1, <2>2 DEF Beats
  <2>3. CASE m \notin Eligible(obs)
    BY <1>2, <2>1, <2>3 DEF Eligible
  <2> QED
    BY <2>2, <2>3
<1> QED
  BY <1>2, <1>3

\* The rows of events and suppressions hold what the schema says (enums.py:56, :143):
\* no verdict, observation or review stores another status.
THEOREM IncidentsTypeCorrect == Spec => []IncidentsTypeOK
<1>1. IncidentsInv => IncidentsTypeOK
  <2> SUFFICES ASSUME Rows PROVE IncidentsTypeOK
    BY DEF IncidentsInv
  <2>1. events \in Seq(EventRows) /\ DOMAIN done = DOMAIN suppressions /\ DOMAIN lost = DOMAIN suppressions
    BY DEF Rows
  <2>2. \A s \in DOMAIN suppressions : suppressions[s] \in SuppressionRows
    BY DEF Rows
  <2>3. \A s \in DOMAIN suppressions :
          /\ suppressions[s].zone \in Zones /\ suppressions[s].actions \in Plans
          /\ suppressions[s].status \in {"INTERLOCK_CHECK", "BLOCKED", "COMPLETED", "FAILED", "ABORTED"}
    BY <2>2 DEF SuppressionRows
  <2> QED
    BY <2>1, <2>3 DEF IncidentsTypeOK, EventRows
<1> QED
  BY <1>1, IncidentsInit, IncidentsNext, PTL DEF Spec

\* No actuator runs for a request that the interlock blocked when it was made, and the
\* row says that it was approved unless the approval was rolled back
\* (suppression.py:12), in any order of requests, approvals, failures and aborts.
THEOREM RunsOnlyApproved == Spec => []OnlyApprovedRuns
<1>1. IncidentsInv => OnlyApprovedRuns
  BY DEF IncidentsInv
<1> QED
  BY <1>1, IncidentsInit, IncidentsNext, PTL DEF Spec

\* What an approval carried out is a beginning of the list, also when it was rolled
\* back, and all of it when the row says so (suppression.py:61), for lists of any length
\* and any failing actions.
THEOREM RunsInOrder == Spec => []DoneInOrder
<1>1. IncidentsInv => DoneInOrder
  BY DEF IncidentsInv
<1> QED
  BY <1>1, IncidentsInit, IncidentsNext, PTL DEF Spec

\* The automatic verdict follows a label that two strong observations share and none
\* outvotes, and is open only without one (event_router.py:170), for observations of
\* any number and labels of any kind.
THEOREM JudgesByMajority == Spec => []VerdictIsMajority
<1>1. ASSUME Rows PROVE VerdictIsMajority
  <2>1. ASSUME NEW e \in DOMAIN events, NEW obs, obs = events[e].obs
        PROVE  \/ VerdictOf(obs) = "UNVERIFIED" /\ \A l \in Labels : Votes(obs, l) < 2
               \/ /\ VerdictOf(obs) # "UNVERIFIED"
                  /\ \E w \in Labels : /\ VerdictOf(obs) = (IF w = "NORMAL" THEN "FALSE_POSITIVE" ELSE "CONFIRMED")
                                       /\ Votes(obs, w) >= 2 /\ \A m \in Labels : Votes(obs, m) <= Votes(obs, w)
    <3>1. obs \in Seq(Labels)
      <4>1. events[e] \in EventRows
        BY <1>1 DEF Rows
      <4> QED
        BY <2>1, <4>1 DEF EventRows
    <3>2. CASE Eligible(obs) = {}
      <4>1. \A l \in Labels : Votes(obs, l) < 2
        BY <3>1, <3>2, VotesFacts DEF Eligible
      <4> QED
        BY <3>2, <4>1 DEF VerdictOf
    <3>3. CASE Eligible(obs) # {}
      <4>1. PICK w : w = CHOOSE l \in Eligible(obs) : \A m \in Eligible(obs) : Beats(obs, l, m)
        OBVIOUS
      <4>2. VerdictOf(obs) = IF w = "NORMAL" THEN "FALSE_POSITIVE" ELSE "CONFIRMED"
        BY <3>3, <4>1 DEF VerdictOf
      <4>3. w \in Labels /\ Votes(obs, w) >= 2 /\ \A m \in Labels : Votes(obs, m) <= Votes(obs, w)
        BY <3>1, <3>3, <4>1, WinnerHasMost
      <4> QED
        BY <4>2, <4>3
    <3> QED
      BY <3>2, <3>3
  <2> QED
    BY <2>1 DEF VerdictIsMajority
<1>2. IncidentsInv => VerdictIsMajority
  BY <1>1 DEF IncidentsInv
<1> QED
  BY <1>2, IncidentsInit, IncidentsNext, PTL DEF Spec
=============================================================================
