------------------------------ MODULE Incidents ------------------------------
(***************************************************************************)
(* The life of an event after it was detected, and the suppression of a     *)
(* fire in a zone: the interlock at the request, the approval that runs the *)
(* actuators, the abort.  Each handler runs without suspension from its     *)
(* first read to its commit; a reinspection runs in a pool thread, and sets *)
(* the status of its event and nothing else.                                *)
(***************************************************************************)
EXTENDS Naturals, Sequences, FiniteSets, SequencesExt

CONSTANTS Zones, Types,    \* types of events that are detected
          Labels,          \* what an observation may show, "NORMAL" among it
          Robots,
          Plans,           \* lists of actions that are requested
          PersonPage,      \* newest PERSON events of a zone that the interlock looks at
          MaxEvents, MaxSuppressions,
          MaxObservations, \* bound on the strong observations of an event
          MaxRollbacks     \* and on the approvals of a request that are rolled back

ASSUME PlansAssumption == \A plan \in Plans : plan \in Seq(ToSet(plan))

VARIABLES events,          \* rows: type, zone, status, whether a robot is assigned,
                           \* labels of the strong observations
          place,           \* the zone of the node a robot is at
          counts,          \* the robot is online and not charging
          suppressions,    \* rows: zone, actions, status, interlock passed, approved
          done,            \* the actions that the stored approval of a row carried out
          lost             \* those that approvals carried out that were rolled back

vars == <<events, place, counts, suppressions, done, lost>>

EventStatuses == {"QUEUED", "ASSIGNED", "UNASSIGNED", "VERIFYING", "CONFIRMED", "RESOLVED", "FALSE_POSITIVE"}
ClosedStatuses == {"RESOLVED", "FALSE_POSITIVE"}
Verdicts == {"CONFIRMED", "FALSE_POSITIVE", "UNVERIFIED"}

Init == /\ events = <<>> /\ suppressions = <<>> /\ done = <<>> /\ lost = <<>>
        /\ place \in [Robots -> Zones \cup {"elsewhere"}]
        /\ counts = [r \in Robots |-> TRUE]

(***************************************************************************)
(* Events.                                                                  *)
(***************************************************************************)
SetStatus(e, s) == /\ events' = [events EXCEPT ![e].status = s]
                   /\ UNCHANGED <<place, counts, suppressions, done, lost>>

\* A detection that is not merged.
Create(zone, type) ==
    /\ Len(events) < MaxEvents
    /\ events' = Append(events, [type |-> type, zone |-> zone, status |-> "QUEUED",
                                 assigned |-> FALSE, obs |-> <<>>])
    /\ UNCHANGED <<place, counts, suppressions, done, lost>>

\* dispatch, and the automatic one, which does not look at the status (see Missions).
Assign(e) ==
    /\ events' = [events EXCEPT ![e].status = "ASSIGNED", ![e].assigned = TRUE]
    /\ UNCHANGED <<place, counts, suppressions, done, lost>>

NobodyFree(e) == events[e].status \notin ClosedStatuses /\ SetStatus(e, "UNASSIGNED")

\* add_observation, also of a closed event.  Only a strong one, whose confidence
\* reaches the threshold, is kept in the row of the model: no verdict counts the others.
Observe(e, label, strong) ==
    /\ strong => Len(events[e].obs) < MaxObservations
    /\ events' = [events EXCEPT ![e].status = IF @ \in ClosedStatuses THEN @ ELSE "VERIFYING",
                                ![e].obs = IF strong THEN Append(@, label) ELSE @]
    /\ UNCHANGED <<place, counts, suppressions, done, lost>>

Votes(obs, label)   == Cardinality({i \in DOMAIN obs : obs[i] = label})
FirstAt(obs, label) == SelectInSeq(obs, LAMBDA l : l = label)

\* Mutant: one strong observation decides.
BugOneIsEnough(obs) == {l \in Labels : Votes(obs, l) >= 1}

Eligible(obs) == {l \in Labels : Votes(obs, l) >= 2}

\* Of two labels with as many votes the one that was observed first wins.
Beats(obs, l, m) == \/ Votes(obs, l) > Votes(obs, m)
                    \/ Votes(obs, l) = Votes(obs, m) /\ FirstAt(obs, l) <= FirstAt(obs, m)

\* verdict, auto.
VerdictOf(obs) ==
    IF Eligible(obs) = {} THEN "UNVERIFIED"
    ELSE LET winner == CHOOSE l \in Eligible(obs) : \A m \in Eligible(obs) : Beats(obs, l, m)
         IN  IF winner = "NORMAL" THEN "FALSE_POSITIVE" ELSE "CONFIRMED"

\* The status that is stored for a verdict.
StatusOfVerdict(v) == IF v = "UNVERIFIED" THEN "VERIFYING" ELSE v

\* verdict, automatic or given by hand.
Judge(e, v)  == SetStatus(e, StatusOfVerdict(v))
Reinspect(e) == events[e].assigned /\ SetStatus(e, "VERIFYING")
Review(e, v) == SetStatus(e, IF v = "UNVERIFIED" THEN events[e].status ELSE v)
Resolve(e)   == events[e].status # "RESOLVED" /\ SetStatus(e, "RESOLVED")

(***************************************************************************)
(* Suppression.                                                             *)
(***************************************************************************)
PersonEvents(zone) == {e \in DOMAIN events : events[e].zone = zone /\ events[e].type = "PERSON"}

\* _check_interlock: robots in the zone, and people the cameras have seen there, if
\* the event is open and on the first page of its zone's.
Blockers(zone) ==
    {<<"AMR_IN_ZONE", r>> : r \in {q \in Robots : counts[q] /\ place[q] = zone}}
    \cup {<<"PERSON_DETECTED", e>> : e \in {f \in PersonEvents(zone) :
              /\ Cardinality({g \in PersonEvents(zone) : g > f}) < PersonPage
              /\ events[f].status \notin ClosedStatuses}}

\* request_suppression; the text that confirms the zone matches.
Request(zone, plan) ==
    /\ Len(suppressions) < MaxSuppressions
    /\ suppressions' = Append(suppressions,
          [zone |-> zone, actions |-> plan, passed |-> Blockers(zone) = {}, approved |-> FALSE,
           status |-> IF Blockers(zone) = {} THEN "INTERLOCK_CHECK" ELSE "BLOCKED"])
    /\ done' = Append(done, <<>>) /\ lost' = Append(lost, {})
    /\ UNCHANGED <<events, place, counts>>

\* Mutant: a blocked request can be approved.
BugMayApprove(s) == suppressions[s].status \in {"INTERLOCK_CHECK", "BLOCKED"}

MayApprove(s) == suppressions[s].status \in {"INTERLOCK_CHECK", "REQUESTED"}

\* Mutant: the sequence goes on after an action failed.
BugGoesOn(actions, failing) == SelectSeq(actions, LAMBDA a : a \notin failing)

\* execute: the actions before the first that fails.
CarriedOut(actions, failing) ==
    LET until == SelectInSeq(actions, LAMBDA a : a \in failing)
    IN  IF until = 0 THEN actions ELSE SubSeq(actions, 1, until - 1)

\* approve; failing are the actions that fail each time they are tried.
Approve(s, failing) ==
    LET actions == suppressions[s].actions
        ok == ToSet(actions) \cap failing = {}
    IN  /\ MayApprove(s)
        /\ done' = [done EXCEPT ![s] = @ \o CarriedOut(actions, failing)]
        /\ suppressions' = [suppressions EXCEPT ![s].approved = TRUE,
                              ![s].status = IF ok THEN "COMPLETED" ELSE "FAILED"]
        /\ UNCHANGED <<events, place, counts, lost>>

\* approve, ended by an exception that is no ActuatorError or by a commit that fails:
\* the row waits for its approval as before, and what the actuators did is done.
ApproveRollsBack(s) ==
    /\ MayApprove(s) /\ Cardinality(lost[s]) < MaxRollbacks
    /\ \E run \in Prefixes(suppressions[s].actions) \ {<<>>} : lost' = [lost EXCEPT ![s] = @ \cup {run}]
    /\ UNCHANGED <<events, place, counts, suppressions, done>>

Abort(s) ==
    /\ suppressions[s].status \notin {"COMPLETED", "ABORTED"}
    /\ suppressions' = [suppressions EXCEPT ![s].status = "ABORTED"]
    /\ UNCHANGED <<events, place, counts, done, lost>>

\* Telemetry: a robot is at another node, charges, falls silent or is heard again.
RobotMoves(r, zone, c) ==
    /\ <<zone, c>> # <<place[r], counts[r]>>
    /\ place' = [place EXCEPT ![r] = zone] /\ counts' = [counts EXCEPT ![r] = c]
    /\ UNCHANGED <<events, suppressions, done, lost>>

Next == \/ \E zone \in Zones, type \in Types : Create(zone, type)
        \/ \E e \in DOMAIN events :
              \/ Assign(e) \/ NobodyFree(e) \/ Reinspect(e) \/ Resolve(e)
              \/ \E label \in Labels, strong \in BOOLEAN : Observe(e, label, strong)
              \/ \E v \in Verdicts \cup {VerdictOf(events[e].obs)} : Judge(e, v)
              \/ \E v \in Verdicts : Review(e, v)
        \/ \E zone \in Zones, plan \in Plans : Request(zone, plan)
        \/ \E s \in DOMAIN suppressions :
              \/ Abort(s) \/ ApproveRollsBack(s)
              \/ \E failing \in SUBSET ToSet(suppressions[s].actions) : Approve(s, failing)
        \/ \E r \in Robots, zone \in Zones \cup {"elsewhere"}, c \in BOOLEAN : RobotMoves(r, zone, c)

Spec == Init /\ [][Next]_vars

-----------------------------------------------------------------------------
\* Rows hold what the schema says.
IncidentsTypeOK ==
    /\ events \in Seq([type : Types, zone : Zones, status : EventStatuses, assigned : BOOLEAN,
                        obs : Seq(Labels)])
    /\ \A s \in DOMAIN suppressions :
          /\ suppressions[s].zone \in Zones /\ suppressions[s].actions \in Plans
          /\ suppressions[s].status \in {"INTERLOCK_CHECK", "BLOCKED", "COMPLETED", "FAILED", "ABORTED"}
    /\ DOMAIN done = DOMAIN suppressions /\ DOMAIN lost = DOMAIN suppressions

\* Actuators run for a request whose interlock passed when it was made, also when what
\* blocked it is gone, it was aborted, or another request of the zone passed; the row
\* says that it was approved, unless the approval was rolled back
\* (suppression.py:12, suppression_router.py:5).
OnlyApprovedRuns ==
    \A s \in DOMAIN suppressions :
        /\ done[s] # <<>> => suppressions[s].approved /\ suppressions[s].passed
        /\ lost[s] # {} => suppressions[s].passed

\* What an approval carried out is the beginning of what was asked for, also when it
\* was rolled back, and all of it when the row says so: no water without the power cut
\* asked for before it (suppression.py:61, test_safety_control.py:90).  The approval
\* that is stored is one; those rolled back before it have run as well.
DoneInOrder ==
    \A s \in DOMAIN suppressions :
        /\ \A run \in lost[s] \cup {done[s]} : IsPrefix(run, suppressions[s].actions)
        /\ suppressions[s].status = "COMPLETED" => done[s] = suppressions[s].actions

\* The automatic verdict follows a label that two strong observations share and none
\* outvotes, and is left open only without one (event_router.py:170): no verdict from
\* a single look, nor against the majority of those that reach two.
VerdictIsMajority ==
    \A e \in DOMAIN events :
        LET obs == events[e].obs
            most(l) == Votes(obs, l) >= 2 /\ \A m \in Labels : Votes(obs, m) <= Votes(obs, l)
        IN  CASE VerdictOf(obs) = "UNVERIFIED" -> \A l \in Labels : Votes(obs, l) < 2
              [] VerdictOf(obs) = "CONFIRMED" -> \E l \in Labels \ {"NORMAL"} : most(l)
              [] VerdictOf(obs) = "FALSE_POSITIVE" -> most("NORMAL")

\* No actuator runs in a zone where a person or an intruder was seen and the event is
\* open, or where a robot is (suppression_router.py:5, :50).
NobodyInside ==
    [][\A s \in DOMAIN suppressions : <<done[s], lost[s]>>' # <<done[s], lost[s]>> =>
          /\ \A e \in DOMAIN events :
                events[e].zone = suppressions[s].zone /\ events[e].type \in {"PERSON", "INTRUSION"}
                   => events[e].status \in ClosedStatuses
          /\ \A r \in Robots : ~(counts[r] /\ place[r] = suppressions[s].zone)]_vars
=============================================================================
