--------------------------- MODULE AmrSystem_proofs ---------------------------
(***************************************************************************)
(* Theorems about AmrSystem, for every number of robots and points, every  *)
(* zone plan and every detour.  First types and the shapes of the stacks,   *)
(* then what needs no more than those: the emergency stop.  Then the        *)
(* crossings, whose theorem also holds with detours, the patrols that       *)
(* nothing diverts, and what becomes of a dispatch to an anomaly.  Last, of *)
(* RoutedAmr, that the missions lead by shortest ways, and what the ids the *)
(* router gives are for: one robot in a corridor.                           *)
(***************************************************************************)
EXTENDS RoutedAmr, FunctionTheorems, FiniteSetTheorems, WellFoundedInduction, TLAPS

-----------------------------------------------------------------------------
(* Stacks of frames *)

\* Pushing a frame.
LEMMA Pushed ==
  ASSUME NEW S, NEW f \in S, NEW s \in Seq(S)
  PROVE  /\ << f >> \o s \in Seq(S)
         /\ << f >> \o s # << >>
         /\ Head(<< f >> \o s) = f
         /\ Tail(<< f >> \o s) = s
<1>1. /\ << f >> \in Seq(S)
      /\ Len(<< f >>) = 1
      /\ << f >>[1] = f
  OBVIOUS
<1>2. /\ << f >> \o s \in Seq(S)
      /\ Len(<< f >> \o s) = Len(s) + 1
      /\ (<< f >> \o s)[1] = f
      /\ \A k \in 1..Len(s) : (<< f >> \o s)[k + 1] = s[k]
  BY <1>1
<1>3. Tail(<< f >> \o s) = s
  <2>1. /\ Tail(<< f >> \o s) \in Seq(S)
        /\ Len(Tail(<< f >> \o s)) = Len(s)
        /\ \A k \in 1..Len(s) : Tail(<< f >> \o s)[k] = s[k]
    BY <1>2
  <2> QED
    BY <2>1
<1> QED
  BY <1>2, <1>3

\* Popping a frame.
LEMMA Popped ==
  ASSUME NEW s \in Seq(Frame), s # << >>
  PROVE  /\ Head(s) \in Frame
         /\ Tail(s) \in Seq(Frame)
         /\ Resumable(s) => /\ Resumable(Tail(s))
                            /\ Head(s).i <= Len(Head(s).route)
<1>1. /\ Len(s) \in Nat \ {0}
      /\ Head(s) = s[1]
      /\ Tail(s) \in Seq(Frame)
      /\ Len(Tail(s)) = Len(s) - 1
      /\ \A k \in 1..Len(Tail(s)) : Tail(s)[k] = s[k + 1]
  OBVIOUS
<1>2. ASSUME Resumable(s) PROVE Resumable(Tail(s))
  BY <1>1, <1>2 DEF Resumable
<1> QED
  BY <1>1, <1>2 DEF Resumable

-----------------------------------------------------------------------------
(* The flow of one thread: its label and its stack *)

FlowOK ==
  /\ pc \in [Robots -> Label]
  /\ stack \in [Robots -> Seq(Frame)]
  /\ StackShapes

\* A step of r's thread that leaves a well-formed stack.
LEMMA FlowStep ==
  ASSUME FlowOK, NEW r \in Robots,
         NEW frames \in Seq(Frame), NEW label \in Label,
         SetStack(r, frames), Goto(r, label), ShapeOf(frames, label)
  PROVE  FlowOK'
BY DEF FlowOK, SetStack, Goto, StackShapes

\* The other threads do not move.
LEMMA FlowGoto ==
  ASSUME FlowOK, NEW r \in Robots, NEW label \in Label,
         Goto(r, label), UNCHANGED stack, ShapeOf(stack[r], label)
  PROVE  FlowOK'
BY DEF FlowOK, Goto, StackShapes

LEMMA FlowSame ==
  ASSUME FlowOK, UNCHANGED << pc, stack >>
  PROVE  FlowOK'
BY DEF FlowOK, StackShapes

\* Inside a route loop there is a frame; past the look at the next waypoint it
\* points at one, and so do its callers.
LEMMA InLoop ==
  ASSUME FlowOK, NEW r \in Robots, pc[r] \notin Idle
  PROVE  /\ stack[r] \in Seq(Frame)
         /\ stack[r] # << >>
         /\ Top(r) \in Frame
         /\ Callers(r) \in Seq(Frame)
         /\ Resumable(Callers(r))
         /\ pc[r] # "next_waypoint" => /\ Resumable(stack[r])
                                       /\ Top(r).i <= Len(Top(r).route)
<1>1. stack[r] \in Seq(Frame) /\ ShapeOf(stack[r], pc[r])
  BY DEF FlowOK, StackShapes
<1> QED
  BY <1>1, Popped DEF ShapeOf, Top, Callers

\* The waypoint a frame points at.
LEMMA TargetType ==
  ASSUME NEW r \in Robots, Top(r) \in Frame, Top(r).i <= Len(Top(r).route)
  PROVE  Target(r) \in Waypoint /\ Target(r).point \in Points \cup {NoPoint}
<1>1. /\ Top(r).route \in Seq(Waypoint)
      /\ Top(r).i \in 1..Len(Top(r).route)
  BY DEF Frame, Route
<1>2. Target(r) \in Waypoint
  <2> DEFINE route == Top(r).route
             i == Top(r).i
  <2>1. route \in Seq(Waypoint) /\ i \in 1..Len(route)
    BY <1>1
  <2> HIDE DEF route, i
  <2>2. route[i] \in Waypoint
    BY <2>1
  <2> QED
    BY <2>2 DEF Target, route, i
<1> QED
  BY <1>2 DEF Waypoint

\* Starting a mission or a detour.
LEMMA FlowCall ==
  ASSUME FlowOK, NEW r \in Robots, Resumable(stack[r]),
         NEW kind \in {"mission", "anomaly", "dock"}, NEW route \in Route,
         Call(r, kind, route)
  PROVE  FlowOK'
<1> DEFINE frame == [kind |-> kind, route |-> route, i |-> 1]
<1>1. frame \in Frame
  BY DEF Frame
<1>2. stack[r] \in Seq(Frame)
  BY DEF FlowOK
<1> HIDE DEF frame
<1>3. /\ << frame >> \o stack[r] \in Seq(Frame)
      /\ << frame >> \o stack[r] # << >>
      /\ Tail(<< frame >> \o stack[r]) = stack[r]
  BY <1>1, <1>2, Pushed
<1>4. ShapeOf(<< frame >> \o stack[r], "next_waypoint")
  BY <1>3 DEF ShapeOf, Idle
<1>5. /\ SetStack(r, << frame >> \o stack[r])
      /\ Goto(r, "next_waypoint")
  BY DEF Call, frame
<1>6. "next_waypoint" \in Label
  BY DEF Label
<1> QED
  BY <1>3, <1>4, <1>5, <1>6, FlowStep

\* A handler returns to the loop it interrupted.
LEMMA FlowReturn ==
  ASSUME FlowOK, NEW r \in Robots, NEW callers \in Seq(Frame),
         Resumable(callers), ReturnTo(r, callers)
  PROVE  FlowOK'
<1>1. CASE callers # << >>
  <2>1. ShapeOf(callers, "drive") /\ "drive" \in Label
    BY <1>1 DEF ShapeOf, Idle, Label
  <2> QED
    BY <1>1, <2>1, FlowStep DEF ReturnTo
<1>2. CASE callers = << >>
  <2>1. ShapeOf(callers, "wait_mission") /\ "wait_mission" \in Label
    BY <1>2 DEF ShapeOf, Idle, Label, Spinning
  <2> QED
    BY <1>2, <2>1, FlowStep DEF ReturnTo
<1> QED
  BY <1>1, <1>2

\* A mission ends, complete or aborted.
LEMMA FlowMissionEnds ==
  ASSUME FlowOK, NEW r \in Robots,
         NEW label \in {"wait_mission", "patrol_wait"}, MissionEnds(r, label)
  PROVE  FlowOK'
<1>1. /\ << >> \in Seq(Frame)
      /\ label \in Label
      /\ ShapeOf(<< >>, label)
  BY DEF ShapeOf, Idle, Label, Spinning, Resumable
<1> QED
  BY <1>1, FlowStep DEF MissionEnds

LEMMA FlowUnresolved ==
  ASSUME FlowOK, NEW r \in Robots, pc[r] \notin Idle, Unresolved(r)
  PROVE  FlowOK'
<1>1. Callers(r) \in Seq(Frame) /\ Resumable(Callers(r))
  BY InLoop
<1> QED
  BY <1>1, FlowMissionEnds, FlowReturn DEF Unresolved, DetourFailed

\* The loop goes on to the waypoint after the one it has reached.
LEMMA FlowAdvance ==
  ASSUME FlowOK, NEW r \in Robots, pc[r] \notin Idle,
         Advance(r), Goto(r, "next_waypoint")
  PROVE  FlowOK'
<1> DEFINE frame == [Top(r) EXCEPT !.i = @ + 1]
<1>1. /\ Top(r) \in Frame
      /\ Callers(r) \in Seq(Frame)
      /\ Resumable(Callers(r))
  BY InLoop
<1>0. frame \in Frame
  BY <1>1 DEF Frame
<1> HIDE DEF frame
<1>2. /\ << frame >> \o Callers(r) \in Seq(Frame)
      /\ << frame >> \o Callers(r) # << >>
      /\ Tail(<< frame >> \o Callers(r)) = Callers(r)
  BY <1>0, <1>1, Pushed
<1>3. ShapeOf(<< frame >> \o Callers(r), "next_waypoint")
  BY <1>1, <1>2 DEF ShapeOf, Idle
<1>4. SetStack(r, << frame >> \o Callers(r)) /\ "next_waypoint" \in Label
  BY DEF Advance, frame, Label
<1> QED
  BY <1>2, <1>3, <1>4, FlowStep

-----------------------------------------------------------------------------
(* Types *)

DataType ==
  /\ mission \in [Robots -> Route]
  /\ granted \in [Robots -> Points \cup {NoPoint}]
  /\ flag \in [Robots -> Flags]
  /\ dockOrder \in [Robots -> Route]
  /\ anomalyOrder \in [Robots -> Route]
  /\ attempts \in [Robots -> 0..MaxRecoveryAttempts]
  /\ inside \in [Robots -> Points \cup {NoPoint}]
  /\ onDock \in [Robots -> BOOLEAN]

\* The inductive invariant behind type correctness.
TypeInv ==
  /\ FlowOK
  /\ DataType
  /\ TopicsType
  /\ FleetType
  /\ commandsLeft \in 0..MaxCommands

\* What a robot's thread reads and writes of the topics.
LEMMA ReleaseType ==
  ASSUME TopicsType, DataType, NEW r \in Robots, NEW p \in Points, Release(r, p)
  PROVE  /\ releases' \in [Robots -> Seq(Points)]
         /\ granted' \in [Robots -> Points \cup {NoPoint}]
BY DEF TopicsType, DataType, Release, Put

LEMMA ReleaseHeldType ==
  ASSUME TopicsType, DataType, NEW r \in Robots, ReleaseHeld(r)
  PROVE  /\ releases' \in [Robots -> Seq(Points)]
         /\ granted' \in [Robots -> Points \cup {NoPoint}]
<1>1. granted[r] \in Points \cup {NoPoint}
  BY DEF DataType
<1> QED
  BY <1>1, ReleaseType DEF ReleaseHeld, TopicsType, DataType

LEMMA PublishDoneType ==
  ASSUME TopicsType, NEW r \in Robots, PublishDone(r) \/ UNCHANGED dones
  PROVE  dones' \in [Robots -> Nat]
<1>1. dones \in [Robots -> Nat]
  BY DEF TopicsType
<1>2. CASE PublishDone(r)
  BY <1>1, <1>2 DEF PublishDone
<1> QED
  BY <1>1, <1>2

LEMMA ReturnToType ==
  ASSUME DataType, NEW r \in Robots, NEW callers, ReturnTo(r, callers)
  PROVE  mission' \in [Robots -> Route]
<1>1. NoRoute \in Route
  BY DEF NoRoute, Route
<1> QED
  BY <1>1 DEF ReturnTo, DataType

LEMMA MissionEndsType ==
  ASSUME DataType, NEW r \in Robots, NEW label, MissionEnds(r, label)
  PROVE  mission' \in [Robots -> Route]
<1>1. NoRoute \in Route
  BY DEF NoRoute, Route
<1> QED
  BY <1>1 DEF MissionEnds, DataType

LEMMA DetourFailedType ==
  ASSUME TopicsType, DataType, NEW r \in Robots, NEW frame, NEW callers,
         DetourFailed(r, frame, callers)
  PROVE  /\ mission' \in [Robots -> Route]
         /\ dones' \in [Robots -> Nat]
BY ReturnToType, PublishDoneType DEF DetourFailed

LEMMA UnresolvedType ==
  ASSUME TopicsType, DataType, NEW r \in Robots, Unresolved(r)
  PROVE  /\ releases' \in [Robots -> Seq(Points)]
         /\ granted' \in [Robots -> Points \cup {NoPoint}]
         /\ mission' \in [Robots -> Route]
         /\ dones' \in [Robots -> Nat]
<1>1. /\ releases' \in [Robots -> Seq(Points)]
      /\ granted' \in [Robots -> Points \cup {NoPoint}]
  BY ReleaseHeldType DEF Unresolved
<1>2. /\ mission' \in [Robots -> Route]
      /\ dones' \in [Robots -> Nat]
  BY MissionEndsType, DetourFailedType, PublishDoneType DEF Unresolved
<1> QED
  BY <1>1, <1>2

LEMMA ReleaseOnArrivalType ==
  ASSUME TopicsType, DataType, NEW r \in Robots,
         Target(r).point \in Points \cup {NoPoint}, ReleaseOnArrival(r)
  PROVE  /\ releases' \in [Robots -> Seq(Points)]
         /\ granted' \in [Robots -> Points \cup {NoPoint}]
         /\ inside' \in [Robots -> Points \cup {NoPoint}]
<1>1. CASE Passed(r) /\ Release(r, Target(r).point)
           /\ inside' = [inside EXCEPT ![r] = NoPoint]
  <2>1. Target(r).point \in Points
    BY <1>1 DEF Passed
  <2> QED
    BY <1>1, <2>1, ReleaseType DEF DataType
<1>2. CASE UNCHANGED << releases, granted, inside >>
  BY <1>2 DEF TopicsType, DataType
<1> QED
  BY <1>1, <1>2 DEF ReleaseOnArrival

-----------------------------------------------------------------------------
(* The steps of a thread keep its flow well formed *)

\* A step that only moves the label, on the same frame.
LEMMA FlowMove ==
  ASSUME FlowOK, NEW r \in Robots, pc[r] \notin Idle \cup {"next_waypoint"},
         NEW label \in Label \ (Idle \cup {"next_waypoint", "requesting"}),
         Goto(r, label), UNCHANGED stack
  PROVE  FlowOK'
<1>1. stack[r] # << >> /\ Resumable(stack[r])
  BY InLoop
<1>2. ShapeOf(stack[r], label)
  BY <1>1 DEF ShapeOf
<1> QED
  BY <1>2, FlowGoto

LEMMA FlowIdle ==
  ASSUME FlowOK, NEW r \in Robots, pc[r] \in Idle
  PROVE  stack[r] = << >> /\ Resumable(stack[r])
<1>1. ShapeOf(stack[r], pc[r])
  BY DEF FlowOK, StackShapes
<1> QED
  BY <1>1 DEF ShapeOf, Idle

LEMMA FlowIdleMove ==
  ASSUME FlowOK, NEW r \in Robots, pc[r] \in Idle, NEW label \in Idle,
         Goto(r, label), UNCHANGED stack
  PROVE  FlowOK'
<1>1. label \in Label
  BY DEF Idle, Label, Spinning
<1>2. ShapeOf(stack[r], label)
  BY FlowIdle DEF ShapeOf, Idle
<1> QED
  BY <1>1, <1>2, FlowGoto

LEMMA ThreadFlow ==
  ASSUME TypeInv, NEW r \in Robots, ThreadStep(r)
  PROVE  FlowOK'
<1> USE DEF At, TypeInv
<1>1. CASE StartMission(r)
  <2>1. mission[r] \in Route /\ pc[r] \in Idle
    BY <1>1 DEF StartMission, DataType, Idle
  <2>2. CASE BeginMission(r)
    BY <2>1, <2>2, FlowIdle, FlowCall DEF BeginMission
  <2>3. CASE Goto(r, "undock") /\ UNCHANGED stack
    BY <2>1, <2>3, FlowIdleMove DEF Idle
  <2> QED
    BY <1>1, <2>2, <2>3 DEF StartMission
<1>2. CASE EnsureUndocked(r)
  <2>1. mission[r] \in Route /\ pc[r] \in Idle
    BY <1>2 DEF EnsureUndocked, DataType, Idle
  <2>2. CASE BeginMission(r)
    BY <2>1, <2>2, FlowIdle, FlowCall DEF BeginMission
  <2>3. CASE Goto(r, "undocking") /\ UNCHANGED stack
    BY <2>1, <2>3, FlowIdleMove DEF Idle
  <2>4. CASE UndockFailed(r)
    BY <2>4, FlowMissionEnds DEF UndockFailed
  <2> QED
    BY <1>2, <2>2, <2>3, <2>4 DEF EnsureUndocked
<1>3. CASE UndockEnds(r)
  <2>1. mission[r] \in Route /\ pc[r] \in Idle
    BY <1>3 DEF UndockEnds, DataType, Idle
  <2>2. CASE BeginMission(r)
    BY <2>1, <2>2, FlowIdle, FlowCall DEF BeginMission
  <2>3. CASE UndockFailed(r)
    BY <2>3, FlowMissionEnds DEF UndockFailed
  <2> QED
    BY <1>3, <2>2, <2>3 DEF UndockEnds
<1>4. CASE MissionComplete(r)
  BY <1>4, FlowMissionEnds DEF MissionComplete
<1>5. CASE NextPatrol(r)
  BY <1>5, FlowIdleMove DEF NextPatrol, Idle
<1>6. CASE Approach(r)
  <2>1. /\ pc[r] \notin Idle
        /\ Top(r).i <= Len(Top(r).route)
        /\ UNCHANGED stack
    BY <1>6 DEF Approach, Idle
  <2>2. /\ stack[r] \in Seq(Frame)
        /\ stack[r] # << >>
        /\ Resumable(Callers(r))
    BY <2>1, InLoop
  <2>3. Resumable(stack[r])
    BY <2>1, <2>2 DEF Resumable, Callers, Top
  <2>4. CASE Goto(r, "drive")
    <3>1. ShapeOf(stack[r], "drive") /\ "drive" \in Label
      BY <2>2, <2>3 DEF ShapeOf, Idle, Label
    <3> QED
      BY <2>1, <2>4, <3>1, FlowGoto
  <2>5. CASE Target(r).point # NoPoint /\ Goto(r, "requesting")
    <3>1. ShapeOf(stack[r], "requesting") /\ "requesting" \in Label
      BY <2>2, <2>3, <2>5 DEF ShapeOf, Idle, Label, Spinning, Target, Top
    <3> QED
      BY <2>1, <2>5, <3>1, FlowGoto
  <2> QED
    BY <1>6, <2>4, <2>5 DEF Approach
<1>7. CASE Republish(r)
  BY <1>7, FlowSame DEF Republish, controlVars
<1>8. CASE CrossingGranted(r)
  BY <1>8, FlowMove DEF CrossingGranted, Idle, Label
<1>9. CASE CrossingTimeout(r)
  <2>1. pc[r] \notin Idle
    BY <1>9 DEF CrossingTimeout, Idle
  <2>2. Callers(r) \in Seq(Frame) /\ Resumable(Callers(r))
    BY <2>1, InLoop
  <2>3. CASE Unresolved(r)
    BY <2>1, <2>3, FlowUnresolved
  <2>4. CASE DetourFailed(r, Top(r), Callers(r))
    BY <2>2, <2>4, FlowReturn DEF DetourFailed
  <2> QED
    BY <1>9, <2>3, <2>4 DEF CrossingTimeout
<1>10. CASE Drive(r)
  BY <1>10, FlowMove DEF Drive, Idle, Label, Spinning
<1>11. CASE Hold(r)
  BY <1>11, FlowMove DEF Hold, Idle, Label, Spinning
<1>12. CASE CollisionRisk(r)
  BY <1>12, FlowUnresolved DEF CollisionRisk, Idle
<1>13. CASE Divert(r)
  <2>1. Resumable(stack[r])
    <3>1. CASE pc[r] = "moving"
      BY <3>1, InLoop DEF Idle
    <3>2. CASE pc[r] = "patrol_wait"
      BY <3>2, FlowIdle DEF Idle
    <3> QED
      BY <1>13, <3>1, <3>2 DEF Divert
  <2>2. dockOrder[r] \in Route /\ anomalyOrder[r] \in Route
    BY DEF DataType
  <2>3. CASE TakeDockOrder(r)
    BY <2>1, <2>2, <2>3, FlowCall DEF TakeDockOrder
  <2>4. CASE TakeAnomalyOrder(r)
    BY <2>1, <2>2, <2>4, FlowCall DEF TakeAnomalyOrder
  <2> QED
    BY <1>13, <2>3, <2>4 DEF Divert
<1>14. CASE StopEarly(r)
  BY <1>14, FlowMove DEF StopEarly, WaitForOperator, Idle, Label, Spinning
<1>15. CASE NavFailed(r)
  <2>1. pc[r] \notin Idle \cup {"next_waypoint"}
    BY <1>15 DEF NavFailed, Idle
  <2>2. CASE Goto(r, "drive") /\ UNCHANGED stack
    BY <2>1, <2>2, FlowMove DEF Idle, Label
  <2>3. CASE Unresolved(r)
    BY <2>1, <2>3, FlowUnresolved
  <2> QED
    BY <1>15, <2>2, <2>3 DEF NavFailed
<1>16. CASE Arrive(r)
  <2>1. pc[r] \notin Idle \cup {"next_waypoint"}
    BY <1>16 DEF Arrive, Idle
  <2>2. CASE UNCHANGED stack /\ (Goto(r, "gate") \/ Goto(r, "docking")
                                  \/ Goto(r, "anomaly_wait"))
    BY <2>1, <2>2, FlowMove DEF Idle, Label, Spinning
  <2>3. CASE Advance(r) /\ Goto(r, "next_waypoint")
    BY <2>1, <2>3, FlowAdvance
  <2> QED
    BY <1>16, <2>2, <2>3 DEF Arrive
<1>17. CASE EndHold(r)
  BY <1>17, FlowMove DEF EndHold, Idle, Label, Spinning
<1>18. CASE InspectGate(r)
  <2>1. pc[r] \notin Idle
    BY <1>18 DEF InspectGate, Idle
  <2> QED
    BY <1>18, <2>1, FlowAdvance, FlowUnresolved DEF InspectGate
<1>19. CASE HoldAtAnomaly(r)
  BY <1>19, FlowMove DEF HoldAtAnomaly, Idle, Label, Spinning
<1>20. CASE DecideDock(r)
  <2> DEFINE frame == [kind |-> "dock", route |-> dockOrder[r], i |-> 1]
  <2>1. /\ Callers(r) \in Seq(Frame)
        /\ Resumable(Callers(r))
    BY <1>20, InLoop DEF DecideDock, Idle
  <2>2. frame \in Frame
    BY DEF DataType, Frame
  <2>3. /\ SetStack(r, << frame >> \o Callers(r))
        /\ Goto(r, "next_waypoint")
    BY <1>20 DEF DecideDock
  <2> HIDE DEF frame
  <2>4. /\ << frame >> \o Callers(r) \in Seq(Frame)
        /\ << frame >> \o Callers(r) # << >>
        /\ Tail(<< frame >> \o Callers(r)) = Callers(r)
    BY <2>1, <2>2, Pushed
  <2>5. ShapeOf(<< frame >> \o Callers(r), "next_waypoint")
        /\ "next_waypoint" \in Label
    BY <2>1, <2>4 DEF ShapeOf, Idle, Label
  <2> QED
    BY <2>3, <2>4, <2>5, FlowStep
<1>21. CASE DecideResume(r)
  <2>1. Callers(r) \in Seq(Frame) /\ Resumable(Callers(r))
    BY <1>21, InLoop DEF DecideResume, Idle
  <2> QED
    BY <1>21, <2>1, FlowReturn DEF DecideResume
<1>22. CASE DockEnds(r)
  <2>1. Callers(r) \in Seq(Frame) /\ Resumable(Callers(r))
    BY <1>22, InLoop DEF DockEnds, Idle
  <2>2. CASE ReturnTo(r, Callers(r))
    BY <2>1, <2>2, FlowReturn
  <2>3. CASE MissionEnds(r, "patrol_wait")
    BY <2>3, FlowMissionEnds
  <2>4. CASE /\ Callers(r) # << >>
             /\ DetourFailed(r, Head(Callers(r)), Tail(Callers(r)))
    <3>1. Tail(Callers(r)) \in Seq(Frame) /\ Resumable(Tail(Callers(r)))
      BY <2>1, <2>4, Popped
    <3> QED
      BY <2>4, <3>1, FlowReturn DEF DetourFailed
  <2> QED
    BY <1>22, <2>2, <2>3, <2>4 DEF DockEnds
<1> QED
  BY <1>1, <1>2, <1>3, <1>4, <1>5, <1>6, <1>7, <1>8, <1>9, <1>10, <1>11,
     <1>12, <1>13, <1>14, <1>15, <1>16, <1>17, <1>18, <1>19, <1>20, <1>21,
     <1>22 DEF ThreadStep

-----------------------------------------------------------------------------
(* The steps of a thread keep the types *)

LEMMA MissionKept ==
  ASSUME DataType, NEW r \in Robots, BeginMission(r) \/ UndockFailed(r)
  PROVE  mission' \in [Robots -> Route]
BY MissionEndsType DEF BeginMission, UndockFailed, DataType

LEMMA ThreadType ==
  ASSUME TypeInv, NEW r \in Robots, ThreadStep(r)
  PROVE  DataType' /\ TopicsType'
<1> USE DEF TypeInv
<1>0. NoRoute \in Route
  BY DEF NoRoute, Route
<1>a. ASSUME UNCHANGED topics PROVE TopicsType'
  BY <1>a DEF TopicsType, topics, crossingTopics, commandTopics
<1>1. CASE StartMission(r)
  BY <1>1, <1>a, MissionKept
  DEF StartMission, DataType, TopicsType, orders, physical
<1>2. CASE EnsureUndocked(r)
  BY <1>2, <1>a, MissionKept
  DEF EnsureUndocked, DataType, TopicsType, orders, physical
<1>3. CASE UndockEnds(r)
  BY <1>3, <1>a, MissionKept
  DEF UndockEnds, DataType, TopicsType, orders, physical
<1>4. CASE MissionComplete(r)
  BY <1>4, <1>a, MissionEndsType
  DEF MissionComplete, DataType, TopicsType, orders, physical
<1>5. CASE NextPatrol(r)
  BY <1>5, <1>a
  DEF NextPatrol, DataType, TopicsType, orders, physical
<1>6. CASE Approach(r)
  <2>1. Target(r).point \in Points \cup {NoPoint}
    <3>1. Top(r) \in Frame /\ Top(r).i <= Len(Top(r).route)
      BY <1>6, InLoop DEF Approach, At, Idle
    <3> QED
      BY <3>1, TargetType
  <2>2. requests' \in [Robots -> Seq(Points)]
    <3>1. requests \in [Robots -> Seq(Points)]
      BY DEF TopicsType
    <3>2. CASE /\ Target(r).point # NoPoint
               /\ requests' = Put(requests, r, Target(r).point)
      BY <2>1, <3>1, <3>2 DEF Put
    <3> QED
      BY <1>6, <3>1, <3>2 DEF Approach
  <2> QED
    BY <1>6, <2>2 DEF Approach, DataType, TopicsType, commandTopics, orders, physical
<1>7. CASE Republish(r)
  <2>1. Target(r).point \in Points
    <3>1. /\ pc[r] = "requesting"
          /\ Top(r) \in Frame /\ Top(r).i <= Len(Top(r).route)
      BY <1>7, InLoop DEF Republish, At, Idle
    <3>2. Target(r).point # NoPoint
      BY <3>1 DEF FlowOK, StackShapes, ShapeOf, Target, Top
    <3> QED
      BY <3>1, <3>2, TargetType
  <2>2. requests' \in [Robots -> Seq(Points)]
    BY <1>7, <2>1 DEF Republish, TopicsType, Put
  <2> QED
    BY <1>7, <2>2 DEF Republish, DataType, TopicsType, commandTopics,
                      controlVars, orders, physical
<1>8. CASE CrossingGranted(r)
  BY <1>8, <1>a
  DEF CrossingGranted, DataType, TopicsType, orders, physical
<1>9. CASE CrossingTimeout(r)
  BY <1>9, <1>a, UnresolvedType, DetourFailedType
  DEF CrossingTimeout, DataType, TopicsType, orders, physical
<1>10. CASE Drive(r)
  <2>1. Target(r).point \in Points \cup {NoPoint}
    <3>1. Top(r) \in Frame /\ Top(r).i <= Len(Top(r).route)
      BY <1>10, InLoop DEF Drive, At, Idle
    <3> QED
      BY <3>1, TargetType
  <2> QED
    BY <1>10, <1>a, <2>1 DEF Drive, DataType, orders
<1>11. CASE Hold(r)
  BY <1>11, <1>a
  DEF Hold, DataType, TopicsType, orders, physical
<1>12. CASE CollisionRisk(r)
  BY <1>12, <1>a, UnresolvedType
  DEF CollisionRisk, DataType, TopicsType, orders, physical
<1>13. CASE Divert(r)
  <2>1. /\ dockOrder' \in [Robots -> Route]
        /\ anomalyOrder' \in [Robots -> Route]
    BY <1>13, <1>0 DEF Divert, TakeDockOrder, TakeAnomalyOrder, DataType
  <2>2. flag' \in [Robots -> Flags]
    <3>1. flag \in [Robots -> Flags]
      BY DEF DataType
    <3>2. CASE flag' = [flag EXCEPT ![r].captured = FALSE]
      BY <3>1, <3>2 DEF Flags
    <3> QED
      BY <1>13, <3>1, <3>2 DEF Divert, TakeDockOrder, TakeAnomalyOrder
  <2> QED
    BY <1>13, <1>a, <2>1, <2>2 DEF Divert, DataType, physical
<1>14. CASE StopEarly(r)
  <2>1. flag' \in [Robots -> Flags]
    BY <1>14 DEF StopEarly, WaitForOperator, DataType, Flags
  <2> QED
    BY <1>14, <1>a, <2>1 DEF StopEarly, DataType, orders, physical
<1>15. CASE NavFailed(r)
  <2>1. attempts' \in [Robots -> 0..MaxRecoveryAttempts]
    BY <1>15 DEF NavFailed, DataType, MaxRecoveryAttempts
  <2>2. /\ releases' \in [Robots -> Seq(Points)]
        /\ granted' \in [Robots -> Points \cup {NoPoint}]
        /\ mission' \in [Robots -> Route]
        /\ dones' \in [Robots -> Nat]
    BY <1>15, UnresolvedType DEF NavFailed, DataType, TopicsType
  <2> QED
    BY <1>15, <2>1, <2>2 DEF NavFailed, DataType, TopicsType, orders, physical
<1>16. CASE Arrive(r)
  <2>1. Target(r).point \in Points \cup {NoPoint}
    <3>1. Top(r) \in Frame /\ Top(r).i <= Len(Top(r).route)
      BY <1>16, InLoop DEF Arrive, At, Idle
    <3> QED
      BY <3>1, TargetType
  <2>2. /\ releases' \in [Robots -> Seq(Points)]
        /\ granted' \in [Robots -> Points \cup {NoPoint}]
        /\ inside' \in [Robots -> Points \cup {NoPoint}]
    BY <1>16, <2>1, ReleaseOnArrivalType DEF Arrive
  <2>3. flag' \in [Robots -> Flags]
    <3>1. flag \in [Robots -> Flags]
      BY DEF DataType
    <3>2. CASE flag' = [flag EXCEPT ![r].resume = FALSE]
      BY <3>1, <3>2 DEF Flags
    <3> QED
      BY <1>16, <3>1, <3>2 DEF Arrive
  <2>4. attempts' \in [Robots -> 0..MaxRecoveryAttempts]
    BY <1>16 DEF Arrive, DataType, MaxRecoveryAttempts
  <2> QED
    BY <1>16, <2>2, <2>3, <2>4 DEF Arrive, DataType, TopicsType, commandTopics, orders
<1>17. CASE EndHold(r)
  BY <1>17, <1>a
  DEF EndHold, DataType, TopicsType, orders, physical
<1>18. CASE InspectGate(r)
  BY <1>18, <1>a, UnresolvedType
  DEF InspectGate, DataType, TopicsType, orders, physical
<1>19. CASE HoldAtAnomaly(r)
  BY <1>19, <1>a
  DEF HoldAtAnomaly, DataType, TopicsType, orders, physical
<1>20. CASE DecideDock(r)
  <2>1. dockOrder' \in [Robots -> Route]
    BY <1>20, <1>0 DEF DecideDock, DataType
  <2>2. /\ releases' \in [Robots -> Seq(Points)]
        /\ granted' \in [Robots -> Points \cup {NoPoint}]
        /\ dones' \in [Robots -> Nat]
    BY <1>20, ReleaseHeldType, PublishDoneType DEF DecideDock
  <2> QED
    BY <1>20, <2>1, <2>2 DEF DecideDock, DataType, TopicsType, physical
<1>21. CASE DecideResume(r)
  <2>1. flag' \in [Robots -> Flags]
    BY <1>21 DEF DecideResume, DataType, Flags
  <2>2. /\ releases' \in [Robots -> Seq(Points)]
        /\ granted' \in [Robots -> Points \cup {NoPoint}]
        /\ dones' \in [Robots -> Nat]
        /\ mission' \in [Robots -> Route]
    BY <1>21, ReleaseHeldType, PublishDoneType, ReturnToType DEF DecideResume
  <2> QED
    BY <1>21, <2>1, <2>2 DEF DecideResume, DataType, TopicsType, orders, physical
<1>22. CASE DockEnds(r)
  <2>1. /\ onDock' \in [Robots -> BOOLEAN]
        /\ inside' \in [Robots -> Points \cup {NoPoint}]
    BY <1>22 DEF DockEnds, DataType
  <2>2. flag' \in [Robots -> Flags]
    <3>1. flag' = [flag EXCEPT ![r].docked = TRUE]
      BY <1>22 DEF DockEnds
    <3> QED
      BY <3>1 DEF DataType, Flags
  <2>3. /\ releases' \in [Robots -> Seq(Points)]
        /\ granted' \in [Robots -> Points \cup {NoPoint}]
    BY <1>22, ReleaseHeldType DEF DockEnds
  <2>4. mission' \in [Robots -> Route] /\ dones' \in [Robots -> Nat]
    BY <1>22, ReturnToType, MissionEndsType, DetourFailedType, PublishDoneType
    DEF DockEnds
  <2> QED
    BY <1>22, <2>1, <2>2, <2>3, <2>4
    DEF DockEnds, DataType, TopicsType, orders
<1> QED
  BY <1>1, <1>2, <1>3, <1>4, <1>5, <1>6, <1>7, <1>8, <1>9, <1>10, <1>11,
     <1>12, <1>13, <1>14, <1>15, <1>16, <1>17, <1>18, <1>19, <1>20, <1>21,
     <1>22 DEF ThreadStep

-----------------------------------------------------------------------------
(* Callbacks, the Fleet Node and the operator *)

\* What a queued command may be, by kind.
PayloadOf(kind) ==
  IF kind \in {"anomaly", "dock"} THEN Route
  ELSE IF kind \in {"emergency_stop", "pause"} THEN BOOLEAN ELSE {TRUE}

LEMMA InboxQueue ==
  ASSUME NEW inbox \in Inbox, NEW kind \in CommandKind
  PROVE  /\ inbox[kind] \in Seq(PayloadOf(kind))
         /\ \A queue \in Seq(PayloadOf(kind)) :
              [inbox EXCEPT ![kind] = queue] \in Inbox
BY DEF Inbox, CommandKind, PayloadOf

LEMMA PublishType ==
  ASSUME commands \in [Robots -> Inbox], NEW r \in Robots,
         NEW kind \in CommandKind, NEW m \in PayloadOf(kind), Publish(r, kind, m)
  PROVE  commands' \in [Robots -> Inbox]
<1>1. commands[r][kind] \in Seq(PayloadOf(kind))
  BY InboxQueue
<1>2. Append(commands[r][kind], m) \in Seq(PayloadOf(kind))
  BY <1>1
<1>3. [commands[r] EXCEPT ![kind] = Append(commands[r][kind], m)] \in Inbox
  BY <1>2, InboxQueue
<1> QED
  BY <1>3 DEF Publish

LEMMA ReceiveType ==
  ASSUME commands \in [Robots -> Inbox], NEW r \in Robots,
         NEW kind \in CommandKind, Receive(r, kind)
  PROVE  /\ commands' \in [Robots -> Inbox]
         /\ Arrived(r, kind) \in PayloadOf(kind)
<1>1. /\ commands[r][kind] \in Seq(PayloadOf(kind))
      /\ commands[r][kind] # << >>
  BY InboxQueue DEF Receive
<1>2. /\ Tail(commands[r][kind]) \in Seq(PayloadOf(kind))
      /\ Head(commands[r][kind]) \in PayloadOf(kind)
  BY <1>1
<1>3. [commands[r] EXCEPT ![kind] = Tail(commands[r][kind])] \in Inbox
  BY <1>2, InboxQueue
<1>4. commands' = [commands EXCEPT ![r] =
                     [commands[r] EXCEPT ![kind] = Tail(commands[r][kind])]]
  BY DEF Receive
<1>5. commands' \in [Robots -> Inbox]
  BY <1>3, <1>4
<1> QED
  BY <1>2, <1>5 DEF Arrived

LEMMA TakenType ==
  ASSUME NEW topic \in [Robots -> Seq(Points)], NEW r \in Robots,
         topic[r] # << >>
  PROVE  /\ Take(topic, r) \in [Robots -> Seq(Points)]
         /\ Head(topic[r]) \in Points
<1>1. Tail(topic[r]) \in Seq(Points) /\ Head(topic[r]) \in Points
  OBVIOUS
<1> QED
  BY <1>1 DEF Take

LEMMA CallbackType ==
  ASSUME TypeInv, NEW r \in Robots, Callback(r)
  PROVE  TypeInv'
<1> USE DEF TypeInv
<1>1. /\ FleetType'
      /\ commandsLeft' \in 0..MaxCommands
  BY DEF Callback, FleetType, fleetVars
<1>2. ASSUME NEW kind \in CommandKind, Receive(r, kind)
      PROVE  /\ FlowOK'
             /\ TopicsType'
             /\ Arrived(r, kind) \in PayloadOf(kind)
  <2>1. FlowOK'
    BY <1>2, FlowSame DEF Receive
  <2>2. commands \in [Robots -> Inbox]
    BY DEF TopicsType
  <2> QED
    BY <1>2, <2>1, <2>2, ReceiveType DEF Receive, TopicsType, crossingTopics
<1>3. CASE OnGrant(r)
  <2>1. grants \in [Robots -> Seq(Points)] /\ grants[r] # << >>
    BY <1>3 DEF OnGrant, TopicsType
  <2>2. Take(grants, r) \in [Robots -> Seq(Points)] /\ Head(grants[r]) \in Points
    BY <2>1, TakenType
  <2>3. FlowOK'
    BY <1>3, FlowSame DEF OnGrant
  <2>4. TopicsType'
    BY <1>3, <2>2 DEF OnGrant, TopicsType, commandTopics
  <2>5. DataType'
    BY <1>3, <2>2 DEF OnGrant, DataType, orders, physical
  <2> QED
    BY <1>1, <2>3, <2>4, <2>5
<1>4. CASE OnMission(r, missions[r])
  <2>1. FlowOK'
    BY <1>4, FlowSame DEF OnMission
  <2>2. TopicsType'
    BY <1>4 DEF OnMission, TopicsType, topics, crossingTopics, commandTopics
  <2>3. DataType'
    BY <1>4 DEF OnMission, DataType, FleetType, orders, physical
  <2> QED
    BY <1>1, <2>1, <2>2, <2>3
<1>5. CASE OnAnomaly(r)
  <2>1. Arrived(r, "anomaly") \in Route /\ FlowOK' /\ TopicsType'
    BY <1>2, <1>5 DEF OnAnomaly, CommandKind, PayloadOf
  <2>2. DataType'
    BY <1>5, <2>1 DEF OnAnomaly, Receive, DataType, physical
  <2> QED
    BY <1>1, <2>1, <2>2
<1>6. CASE OnDock(r)
  <2>1. Arrived(r, "dock") \in Route /\ FlowOK' /\ TopicsType'
    BY <1>2, <1>6 DEF OnDock, CommandKind, PayloadOf
  <2>2. DataType'
    BY <1>6, <2>1 DEF OnDock, Receive, DataType, physical
  <2> QED
    BY <1>1, <2>1, <2>2
<1>7. ASSUME NEW kind \in CommandKind, Receive(r, kind), UNCHANGED orders,
             flag' \in [Robots -> Flags]
      PROVE  TypeInv'
  <2>1. FlowOK' /\ TopicsType'
    BY <1>2, <1>7
  <2>2. DataType'
    BY <1>7 DEF Receive, DataType, orders, physical
  <2> QED
    BY <1>1, <2>1, <2>2
<1>8. flag \in [Robots -> Flags]
  BY DEF DataType
<1>9. CASE OnAnomalyResume(r)
  <2>1. flag' \in [Robots -> Flags]
    BY <1>8, <1>9 DEF OnAnomalyResume, Flags
  <2> QED
    BY <1>7, <1>9, <2>1 DEF OnAnomalyResume, CommandKind
<1>10. CASE OnAnomalyCaptured(r)
  <2>1. flag' \in [Robots -> Flags]
    BY <1>8, <1>10 DEF OnAnomalyCaptured, Flags
  <2> QED
    BY <1>7, <1>10, <2>1 DEF OnAnomalyCaptured, CommandKind
<1>11. CASE OnEmergencyStop(r)
  <2>1. Arrived(r, "emergency_stop") \in BOOLEAN
    BY <1>2, <1>11 DEF OnEmergencyStop, CommandKind, PayloadOf
  <2>2. flag' \in [Robots -> Flags]
    BY <1>8, <1>11, <2>1 DEF OnEmergencyStop, Flags
  <2> QED
    BY <1>7, <1>11, <2>2 DEF OnEmergencyStop, CommandKind
<1>12. CASE OnPause(r)
  <2>1. Arrived(r, "pause") \in BOOLEAN
    BY <1>2, <1>12 DEF OnPause, CommandKind, PayloadOf
  <2>2. flag' \in [Robots -> Flags]
    BY <1>8, <1>12, <2>1 DEF OnPause, Flags
  <2> QED
    BY <1>7, <1>12, <2>2 DEF OnPause, CommandKind
<1>13. CASE OnRepatrol(r)
  <2>1. flag' \in [Robots -> Flags]
    BY <1>8, <1>13 DEF OnRepatrol, Flags
  <2> QED
    BY <1>7, <1>13, <2>1 DEF OnRepatrol, CommandKind
<1> QED
  BY <1>3, <1>4, <1>5, <1>6, <1>9, <1>10, <1>11, <1>12, <1>13 DEF Callback

LEMMA FleetStepType ==
  ASSUME TypeInv, NEW r \in Robots, FleetStep(r)
  PROVE  TypeInv'
<1> USE DEF TypeInv
<1>1. /\ FlowOK' /\ DataType'
      /\ commandsLeft' \in 0..MaxCommands
  BY FlowSame DEF FleetStep, controlVars, DataType, orders, physical
<1>2. CASE OnRequest(r)
  <2>1. requests \in [Robots -> Seq(Points)] /\ requests[r] # << >>
    BY <1>2 DEF OnRequest, TopicsType
  <2>2. /\ Take(requests, r) \in [Robots -> Seq(Points)]
        /\ Head(requests[r]) \in Points
    BY <2>1, TakenType
  <2>3. grants' \in [Robots -> Seq(Points)]
    <3>1. grants \in [Robots -> Seq(Points)]
      BY DEF TopicsType
    <3>2. CASE grants' = [grants EXCEPT ![r] = Append(@, Head(requests[r]))]
      BY <2>2, <3>1, <3>2
    <3> QED
      BY <1>2, <3>1, <3>2 DEF OnRequest, SendGrant, Put
  <2>4. occupied' \in [Points -> Robots \cup {NoRobot}]
    BY <1>2, <2>2 DEF OnRequest, FleetType
  <2> QED
    BY <1>1, <1>2, <2>2, <2>3, <2>4
    DEF OnRequest, TopicsType, FleetType, commandTopics
<1>3. CASE OnRelease(r)
  <2>1. releases \in [Robots -> Seq(Points)] /\ releases[r] # << >>
    BY <1>3 DEF OnRelease, TopicsType
  <2>2. Take(releases, r) \in [Robots -> Seq(Points)]
    BY <2>1, TakenType
  <2>3. occupied' \in [Points -> Robots \cup {NoRobot}]
    BY <1>3 DEF OnRelease, FleetType
  <2> QED
    BY <1>1, <1>3, <2>2, <2>3
    DEF OnRelease, TopicsType, FleetType, commandTopics
<1>4. CASE OnAnomalyDone(r)
  <2>1. dones' \in [Robots -> Nat]
    BY <1>4 DEF OnAnomalyDone, TopicsType
  <2> QED
    BY <1>1, <1>4, <2>1 DEF OnAnomalyDone, TopicsType, FleetType, crossingTopics
<1> QED
  BY <1>2, <1>3, <1>4 DEF FleetStep

\* The operator's commands leave the Control Nodes alone.
LEMMA OperatorStepType ==
  ASSUME TypeInv, OperatorStep
  PROVE  TypeInv'
<1> USE DEF TypeInv
<1>1. FlowOK' /\ DataType'
  BY FlowSame
  DEF OperatorStep, StartPatrol, Operator, controlVars, DataType, orders,
      physical
<1>2. commandsLeft' \in 0..MaxCommands
  <2>1. \/ commandsLeft' = commandsLeft
        \/ commandsLeft > 0 /\ commandsLeft' = commandsLeft - 1
    BY DEF OperatorStep, StartPatrol, Operator
  <2> QED
    BY <2>1, OperatorAssumption
<1>3. commands \in [Robots -> Inbox]
  BY DEF TopicsType
<1>4. ASSUME NEW r \in Robots, NEW stop \in BOOLEAN
      PROVE  [commands[r] EXCEPT !.emergency_stop = Append(@, stop)] \in Inbox
  <2>1. Append(commands[r]["emergency_stop"], stop)
          \in Seq(PayloadOf("emergency_stop"))
    BY <1>3, InboxQueue DEF CommandKind, PayloadOf
  <2> QED
    BY <1>3, <2>1, InboxQueue DEF CommandKind
<1>5. CASE StartPatrol
  <2>1. PICK plan \in ZonePlans : OnMapPoints(plan)
    BY <1>5 DEF StartPatrol
  <2>2. plan \in [Robots -> Route]
    BY RoutesAssumption
  <2> QED
    BY <1>1, <1>2, <2>1, <2>2
    DEF OnMapPoints, FleetType, TopicsType, topics, crossingTopics,
        commandTopics
<1>6. CASE StopAllRobots
  <2>1. commands' \in [Robots -> Inbox]
    BY <1>3, <1>4, <1>6 DEF StopAllRobots
  <2> QED
    BY <1>1, <1>2, <1>6, <2>1
    DEF StopAllRobots, FleetType, TopicsType, crossingTopics
<1>7. CASE ReleaseAllRobots
  <2>1. commands' \in [Robots -> Inbox]
    BY <1>3, <1>4, <1>7 DEF ReleaseAllRobots
  <2> QED
    BY <1>1, <1>2, <1>7, <2>1
    DEF ReleaseAllRobots, FleetType, TopicsType, crossingTopics
<1>8. ASSUME NEW requested \in SUBSET Robots, NEW routeOf,
             OnDockReturn(requested, routeOf)
      PROVE  TypeInv'
  <2>1. ASSUME NEW r \in DockTargets(requested)
        PROVE  [commands[r] EXCEPT
                  !.dock = Append(@, routeOf[r]),
                  !.emergency_stop =
                    IF r \in emergencyStopped THEN Append(@, FALSE) ELSE @]
                 \in Inbox
    <3>1. r \in Robots /\ routeOf[r] \in Route
      BY <1>8, RoutesAssumption DEF OnDockReturn, DockTargets, FleetType
    <3>2. Append(commands[r]["dock"], routeOf[r]) \in Seq(PayloadOf("dock"))
      BY <1>3, <3>1, InboxQueue DEF CommandKind, PayloadOf
    <3>3. [commands[r] EXCEPT !.dock = Append(@, routeOf[r])] \in Inbox
      BY <1>3, <3>1, <3>2, InboxQueue DEF CommandKind
    <3>4. (IF r \in emergencyStopped
             THEN Append(commands[r]["emergency_stop"], FALSE)
             ELSE commands[r]["emergency_stop"])
            \in Seq(PayloadOf("emergency_stop"))
      <4>1. commands[r]["emergency_stop"] \in Seq(BOOLEAN)
        BY <1>3, <3>1 DEF Inbox
      <4>2. Append(commands[r]["emergency_stop"], FALSE) \in Seq(BOOLEAN)
        BY <4>1
      <4> QED
        BY <4>1, <4>2 DEF PayloadOf
    <3>5. ASSUME NEW queue \in Seq(PayloadOf("emergency_stop"))
          PROVE  [[commands[r] EXCEPT !.dock = Append(@, routeOf[r])]
                    EXCEPT !.emergency_stop = queue] \in Inbox
      BY <3>3, InboxQueue DEF CommandKind
    <3> QED
      BY <3>4, <3>5
  <2>2. commands' \in [Robots -> Inbox]
    BY <1>3, <1>8, <2>1 DEF OnDockReturn
  <2> QED
    BY <1>1, <1>2, <1>8, <2>2
    DEF OnDockReturn, FleetType, TopicsType, crossingTopics
<1>9. ASSUME NEW r \in Robots, NEW route \in AnomalyRoutes[r],
             OnAnomalyTrigger(r, route)
      PROVE  TypeInv'
  <2>1. route \in PayloadOf("anomaly") /\ "anomaly" \in CommandKind
    BY RoutesAssumption DEF PayloadOf, CommandKind
  <2>2. commands' \in [Robots -> Inbox]
    BY <1>3, <1>9, <2>1, PublishType DEF OnAnomalyTrigger
  <2> QED
    BY <1>1, <1>2, <1>9, <2>2
    DEF OnAnomalyTrigger, FleetType, TopicsType, crossingTopics
<1>10. ASSUME NEW r \in Robots, NEW kind \in CommandKind,
              RelayAnomalySignal(r, kind)
       PROVE  TypeInv'
  <2>1. TRUE \in PayloadOf(kind)
    BY <1>10 DEF RelayAnomalySignal, PayloadOf
  <2>2. commands' \in [Robots -> Inbox]
    BY <1>3, <1>10, <2>1, PublishType DEF RelayAnomalySignal
  <2> QED
    BY <1>1, <1>2, <1>10, <2>2
    DEF RelayAnomalySignal, FleetType, TopicsType, crossingTopics, fleetVars
<1>11. ASSUME NEW r \in Robots, NEW kind \in CommandKind,
              NEW m \in PayloadOf(kind), PublishDirect(r, kind, m)
       PROVE  TypeInv'
  <2>1. commands' \in [Robots -> Inbox]
    BY <1>3, <1>11, PublishType DEF PublishDirect
  <2> QED
    BY <1>1, <1>2, <1>11, <2>1
    DEF PublishDirect, FleetType, TopicsType, crossingTopics, fleetVars
<1> QED
  BY <1>5, <1>6, <1>7, <1>8, <1>9, <1>10, <1>11
  DEF OperatorStep, Operator, CommandKind, PayloadOf

-----------------------------------------------------------------------------
(* Type correctness *)

LEMMA InitType == Init => TypeInv
<1> SUFFICES ASSUME Init PROVE TypeInv
  OBVIOUS
<1> USE DEF Init, TopicsInit, FleetInit, ControlInit
<1>1. FlowOK
  BY DEF FlowOK, StackShapes, ShapeOf, Idle, Label, Spinning, Resumable
<1>2. NoRoute \in Route
  BY DEF NoRoute, Route
<1>3. DataType
  BY <1>2 DEF DataType, Flags, MaxRecoveryAttempts
<1>4. EmptyInbox \in Inbox
  BY DEF EmptyInbox, Inbox, Route
<1>5. TopicsType
  BY <1>4 DEF TopicsType
<1>6. FleetType /\ commandsLeft \in 0..MaxCommands
  BY <1>2, OperatorAssumption DEF FleetType
<1> QED
  BY <1>1, <1>3, <1>5, <1>6 DEF TypeInv

LEMMA NextType == TypeInv /\ [Next]_vars => TypeInv'
<1> SUFFICES ASSUME TypeInv, [Next]_vars PROVE TypeInv'
  OBVIOUS
<1>1. CASE OperatorStep
  BY <1>1, OperatorStepType
<1>2. ASSUME NEW r \in Robots, FleetStep(r) PROVE TypeInv'
  BY <1>2, FleetStepType
<1>3. ASSUME NEW r \in Robots, Callback(r) PROVE TypeInv'
  BY <1>3, CallbackType
<1>4. ASSUME NEW r \in Robots, ThreadStep(r) PROVE TypeInv'
  BY <1>4, ThreadFlow, ThreadType DEF TypeInv, ThreadStep, FleetType, fleetVars
<1>5. CASE UNCHANGED vars
  BY <1>5, FlowSame
  DEF TypeInv, vars, topics, crossingTopics, commandTopics, fleetVars,
      controlVars, orders, physical, TopicsType, FleetType, DataType
<1> QED
  BY <1>1, <1>2, <1>3, <1>4, <1>5 DEF Next

LEMMA TypeInvariance == Spec => []TypeInv
BY InitType, NextType, PTL DEF Spec

\* Every variable of the system keeps its type, whatever the plans and detours:
\* in particular no robot publishes an occupancy message without a point, and
\* every route loop that is resumed after a nested detour points at a waypoint.
THEOREM TypeCorrect == Spec => []TypeOK
<1>1. TypeInv => TypeOK
  BY DEF TypeInv, TypeOK, FlowOK, DataType, ControlType
<1> QED
  BY <1>1, TypeInvariance, PTL

-----------------------------------------------------------------------------
(* The emergency stop *)

\* Nothing changed about the signals to a robot.
SignalsKept(s) ==
  /\ commands'[s].emergency_stop = commands[s].emergency_stop
  /\ flag'[s].emergency = flag[s].emergency
  /\ s \in emergencyStopped' <=> s \in emergencyStopped

AgreesOn(s) == LastSignal(s) <=> s \in emergencyStopped

LEMMA KeptAgrees ==
  ASSUME NEW s \in Robots, AgreesOn(s), SignalsKept(s)
  PROVE  AgreesOn(s)'
BY DEF AgreesOn, SignalsKept, LastSignal

\* No thread sends or takes a signal.
LEMMA ThreadSignals ==
  ASSUME TypeInv, NEW r \in Robots, ThreadStep(r), NEW s \in Robots
  PROVE  SignalsKept(s)
<1>1. flag \in [Robots -> Flags]
  BY DEF TypeInv, DataType
<1>2. UNCHANGED << commands, emergencyStopped >>
  <2>1. UNCHANGED emergencyStopped
    BY DEF ThreadStep, fleetVars
  <2>2. CASE StartMission(r) \/ EnsureUndocked(r) \/ UndockEnds(r) \/ MissionComplete(r) \/ NextPatrol(r)
             \/ Approach(r) \/ Republish(r) \/ CrossingGranted(r) \/ CrossingTimeout(r)
    BY <2>1, <2>2 DEF StartMission, EnsureUndocked, UndockEnds, MissionComplete, NextPatrol, Approach, Republish,
       CrossingGranted, CrossingTimeout, topics, commandTopics
  <2>3. CASE Drive(r) \/ Hold(r) \/ CollisionRisk(r) \/ Divert(r) \/ StopEarly(r) \/ NavFailed(r) \/ Arrive(r)
    BY <2>1, <2>3 DEF Drive, Hold, CollisionRisk, Divert, StopEarly, NavFailed, Arrive, topics, commandTopics
  <2>4. CASE EndHold(r) \/ InspectGate(r) \/ HoldAtAnomaly(r) \/ DecideDock(r) \/ DecideResume(r) \/ DockEnds(r)
    BY <2>1, <2>4 DEF EndHold, InspectGate, HoldAtAnomaly, DecideDock, DecideResume, DockEnds, topics
  <2> QED
    BY <2>2, <2>3, <2>4 DEF ThreadStep
<1>3. flag'[s].emergency = flag[s].emergency
  <2>1. CASE UNCHANGED flag
    BY <2>1
  <2>2. CASE Divert(r)
    BY <1>1, <2>2 DEF Divert, TakeDockOrder, TakeAnomalyOrder, Flags
  <2>3. CASE StopEarly(r)
    BY <1>1, <2>3 DEF StopEarly, WaitForOperator, Flags
  <2>4. CASE Arrive(r)
    BY <1>1, <2>4 DEF Arrive, Flags
  <2>5. CASE DecideResume(r)
    BY <1>1, <2>5 DEF DecideResume, Flags
  <2>6. CASE DockEnds(r)
    <3>1. flag' = [flag EXCEPT ![r].docked = TRUE]
      BY <2>6 DEF DockEnds
    <3> QED
      BY <1>1, <3>1 DEF Flags
  <2>7. CASE StartMission(r) \/ EnsureUndocked(r) \/ UndockEnds(r) \/ MissionComplete(r) \/ NextPatrol(r)
             \/ Approach(r) \/ Republish(r) \/ CrossingGranted(r) \/ CrossingTimeout(r)
    BY <2>1, <2>7 DEF StartMission, EnsureUndocked, UndockEnds, MissionComplete, NextPatrol, Approach, Republish,
       CrossingGranted, CrossingTimeout, controlVars
  <2>8. CASE Drive(r) \/ Hold(r) \/ CollisionRisk(r) \/ NavFailed(r) \/ EndHold(r) \/ InspectGate(r)
             \/ HoldAtAnomaly(r) \/ DecideDock(r)
    BY <2>1, <2>8 DEF Drive, Hold, CollisionRisk, NavFailed, EndHold, InspectGate, HoldAtAnomaly, DecideDock
  <2> QED
    BY <2>2, <2>3, <2>4, <2>5, <2>6, <2>7, <2>8 DEF ThreadStep
<1> QED
  BY <1>2, <1>3 DEF SignalsKept

\* A callback takes the oldest signal and believes it.
LEMMA CallbackSignals ==
  ASSUME TypeInv, NEW r \in Robots, Callback(r), NEW s \in Robots, AgreesOn(s)
  PROVE  AgreesOn(s)'
<1>1. flag \in [Robots -> Flags] /\ commands \in [Robots -> Inbox]
  BY DEF TypeInv, DataType, TopicsType
<1>2. UNCHANGED emergencyStopped
  BY DEF Callback, fleetVars
<1>3. ASSUME NEW kind \in CommandKind \ {"emergency_stop"}, Receive(r, kind)
      PROVE  commands'[s].emergency_stop = commands[s].emergency_stop
  BY <1>1, <1>3 DEF Receive, Inbox, CommandKind
<1>4. CASE OnEmergencyStop(r)
  <2> DEFINE q == commands[r].emergency_stop
  <2>1. q \in Seq(BOOLEAN) /\ q # << >>
    BY <1>1, <1>4 DEF Inbox, OnEmergencyStop, Receive
  <2>2. commands' = [commands EXCEPT ![r] = [commands[r] EXCEPT !.emergency_stop = Tail(q)]]
    BY <1>4 DEF OnEmergencyStop, Receive
  <2>3. flag' = [flag EXCEPT ![r].emergency = Head(q)]
    BY <1>4 DEF OnEmergencyStop, Arrived
  <2>4. CASE s # r
    <3>1. SignalsKept(s)
      BY <1>1, <1>2, <2>2, <2>3, <2>4 DEF SignalsKept
    <3> QED
      BY <3>1, KeptAgrees
  <2>5. CASE s = r
    <3>1. commands'[r].emergency_stop = Tail(q) /\ flag'[r].emergency = Head(q)
      BY <1>1, <2>2, <2>3 DEF Inbox, Flags
    <3>2. Tail(q) = << >> => q[Len(q)] = Head(q)
      <4> HIDE DEF q
      <4>1. Len(q) # 0 /\ Len(q) \in Nat /\ Len(Tail(q)) = Len(q) - 1
        BY <2>1
      <4>2. Tail(q) = << >> => Len(q) = 1
        BY <4>1
      <4> QED
        BY <2>1, <4>2
    <3>3. Tail(q) # << >> => Tail(q)[Len(Tail(q))] = q[Len(q)]
      BY <2>1
    <3>4. LastSignal(r) = q[Len(q)]
      BY <2>1 DEF LastSignal
    <3>5. LastSignal(r)' = q[Len(q)]
      <4>1. CASE Tail(q) = << >>
        <5>1. commands'[r].emergency_stop = << >>
          BY <3>1, <4>1
        <5>2. LastSignal(r)' = flag'[r].emergency
          BY <5>1 DEF LastSignal
        <5> QED
          BY <3>1, <3>2, <4>1, <5>2
      <4>2. CASE Tail(q) # << >>
        <5>1. commands'[r].emergency_stop # << >>
          BY <3>1, <4>2
        <5>2. LastSignal(r)' = commands'[r].emergency_stop[Len(commands'[r].emergency_stop)]
          BY <5>1 DEF LastSignal
        <5> QED
          BY <3>1, <3>3, <4>2, <5>2
      <4> QED
        BY <4>1, <4>2
    <3> QED
      BY <1>2, <2>5, <3>4, <3>5 DEF AgreesOn
  <2> QED
    BY <2>4, <2>5
<1>5. CASE OnGrant(r) \/ OnMission(r, missions[r])
  <2>1. UNCHANGED << commands, flag >>
    BY <1>5 DEF OnGrant, OnMission, commandTopics, topics
  <2> QED
    BY <1>2, <2>1, KeptAgrees DEF SignalsKept
<1>6. CASE OnAnomaly(r) \/ OnDock(r) \/ OnAnomalyResume(r) \/ OnAnomalyCaptured(r) \/ OnPause(r) \/ OnRepatrol(r)
  <2>1. commands'[s].emergency_stop = commands[s].emergency_stop
    BY <1>3, <1>6 DEF OnAnomaly, OnDock, OnAnomalyResume, OnAnomalyCaptured, OnPause, OnRepatrol, CommandKind
  <2>2. flag'[s].emergency = flag[s].emergency
    BY <1>1, <1>6 DEF OnAnomaly, OnDock, OnAnomalyResume, OnAnomalyCaptured, OnPause, OnRepatrol, Flags
  <2> QED
    BY <1>2, <2>1, <2>2, KeptAgrees DEF SignalsKept
<1> QED
  BY <1>4, <1>5, <1>6 DEF Callback

\* The last signal sent is the last of the queue.
LEMMA LastSent ==
  ASSUME commands \in [Robots -> Inbox], NEW s \in Robots, NEW stop \in BOOLEAN,
         commands'[s].emergency_stop = Append(commands[s].emergency_stop, stop)
  PROVE  LastSignal(s)' = stop
<1>1. commands[s].emergency_stop \in Seq(BOOLEAN)
  BY DEF Inbox
<1>2. /\ commands'[s].emergency_stop # << >>
      /\ commands'[s].emergency_stop[Len(commands'[s].emergency_stop)] = stop
  BY <1>1
<1> QED
  BY <1>2 DEF LastSignal

LEMMA OperatorSignals ==
  ASSUME TypeInv, OperatorStep, NEW s \in Robots, AgreesOn(s)
  PROVE  AgreesOn(s)'
<1>1. commands \in [Robots -> Inbox]
  BY DEF TypeInv, TopicsType
<1>2. UNCHANGED flag
  BY DEF OperatorStep, StartPatrol, Operator, controlVars
<1>3. ASSUME NEW r \in Robots, NEW kind \in CommandKind \ {"emergency_stop"}, NEW m,
             Publish(r, kind, m), UNCHANGED emergencyStopped
      PROVE  AgreesOn(s)'
  <2>1. commands'[s].emergency_stop = commands[s].emergency_stop
    BY <1>1, <1>3 DEF Publish, Inbox, CommandKind
  <2> QED
    BY <1>2, <1>3, <2>1, KeptAgrees DEF SignalsKept
<1>4. CASE StartPatrol
  BY <1>2, <1>4, KeptAgrees DEF StartPatrol, OnMapPoints, topics, SignalsKept
<1>5. CASE StopAllRobots
  <2>1. CASE s \in registered
    <3>1. commands'[s].emergency_stop = Append(commands[s].emergency_stop, TRUE) /\ s \in emergencyStopped'
      BY <1>1, <1>5, <2>1 DEF StopAllRobots, Inbox
    <3> QED
      BY <1>1, <3>1, LastSent DEF AgreesOn
  <2>2. CASE s \notin registered
    BY <1>2, <1>5, <2>2, KeptAgrees DEF StopAllRobots, SignalsKept
  <2> QED
    BY <2>1, <2>2
<1>6. CASE ReleaseAllRobots
  <2>1. CASE s \in emergencyStopped
    <3>1. commands'[s].emergency_stop = Append(commands[s].emergency_stop, FALSE) /\ s \notin emergencyStopped'
      BY <1>1, <1>6, <2>1 DEF ReleaseAllRobots, Inbox
    <3> QED
      BY <1>1, <3>1, LastSent DEF AgreesOn
  <2>2. CASE s \notin emergencyStopped
    BY <1>2, <1>6, <2>2, KeptAgrees DEF ReleaseAllRobots, SignalsKept
  <2> QED
    BY <2>1, <2>2
<1>7. ASSUME NEW requested \in SUBSET Robots, NEW routeOf, OnDockReturn(requested, routeOf)
      PROVE  AgreesOn(s)'
  <2> DEFINE targets == DockTargets(requested)
  <2>1. /\ emergencyStopped' = emergencyStopped \ targets
        /\ commands'[s] = IF s \notin targets THEN commands[s]
             ELSE [commands[s] EXCEPT
                     !.dock = Append(@, routeOf[s]),
                     !.emergency_stop = IF s \in emergencyStopped THEN Append(@, FALSE) ELSE @]
    BY <1>7 DEF OnDockReturn
  <2> HIDE DEF targets
  <2>2. CASE s \in targets /\ s \in emergencyStopped
    <3>1. commands'[s].emergency_stop = Append(commands[s].emergency_stop, FALSE)
      BY <1>1, <2>1, <2>2 DEF Inbox
    <3> QED
      BY <1>1, <2>1, <2>2, <3>1, LastSent DEF AgreesOn
  <2>3. CASE s \notin targets \/ s \notin emergencyStopped
    <3>1. commands'[s].emergency_stop = commands[s].emergency_stop
      BY <1>1, <2>1, <2>3 DEF Inbox
    <3> QED
      BY <1>2, <2>1, <2>3, <3>1, KeptAgrees DEF SignalsKept
  <2> QED
    BY <2>2, <2>3
<1>8. ASSUME NEW r \in Robots, NEW route, OnAnomalyTrigger(r, route) PROVE AgreesOn(s)'
  BY <1>3, <1>8 DEF OnAnomalyTrigger, CommandKind
<1>9. ASSUME NEW r \in Robots, NEW kind, RelayAnomalySignal(r, kind) PROVE AgreesOn(s)'
  BY <1>3, <1>9 DEF RelayAnomalySignal, CommandKind, fleetVars
<1>10. ASSUME NEW r \in Robots, NEW kind \in CommandKind \ {"emergency_stop"}, NEW m, PublishDirect(r, kind, m)
       PROVE  AgreesOn(s)'
  BY <1>3, <1>10 DEF PublishDirect, fleetVars
<1> QED
  BY <1>4, <1>5, <1>6, <1>7, <1>8, <1>9, <1>10 DEF OperatorStep, Operator, CommandKind

LEMMA EmergencyInit == Init => EmergencyAgreement
<1> SUFFICES ASSUME Init, NEW s \in Robots PROVE LastSignal(s) <=> s \in emergencyStopped
  BY DEF EmergencyAgreement
<1>1. commands[s].emergency_stop = << >>
  BY DEF Init, TopicsInit, EmptyInbox
<1>2. flag[s].emergency = FALSE
  BY DEF Init, ControlInit
<1>3. emergencyStopped = {}
  BY DEF Init, FleetInit
<1>4. LastSignal(s) = flag[s].emergency
  BY <1>1 DEF LastSignal
<1> QED
  BY <1>2, <1>3, <1>4

LEMMA EmergencyNext ==
  TypeInv /\ EmergencyAgreement /\ [Next]_vars => EmergencyAgreement'
<1> SUFFICES ASSUME TypeInv, EmergencyAgreement, [Next]_vars, NEW s \in Robots
             PROVE  AgreesOn(s)'
  BY DEF EmergencyAgreement, AgreesOn
<1>0. AgreesOn(s)
  BY DEF EmergencyAgreement, AgreesOn
<1>1. CASE OperatorStep
  BY <1>0, <1>1, OperatorSignals
<1>2. ASSUME NEW r \in Robots, FleetStep(r) PROVE AgreesOn(s)'
  <2>1. UNCHANGED << commands, emergencyStopped, flag >>
    BY <1>2 DEF FleetStep, OnRequest, OnRelease, OnAnomalyDone, commandTopics, controlVars
  <2> QED
    BY <1>0, <2>1, KeptAgrees DEF SignalsKept
<1>3. ASSUME NEW r \in Robots, Callback(r) PROVE AgreesOn(s)'
  BY <1>0, <1>3, CallbackSignals
<1>4. ASSUME NEW r \in Robots, ThreadStep(r) PROVE AgreesOn(s)'
  BY <1>0, <1>4, ThreadSignals, KeptAgrees
<1>5. CASE UNCHANGED vars
  BY <1>0, <1>5, KeptAgrees DEF vars, topics, fleetVars, controlVars, SignalsKept
<1> QED
  BY <1>1, <1>2, <1>3, <1>4, <1>5 DEF Next

\* The Fleet Node and the robots agree on who is stopped once the signals under
\* way are handled, for any number of robots and whatever order stops, releases
\* and dock returns are given in (fleet_node.py:494).
THEOREM StopsAgree == Spec => []EmergencyAgreement
BY TypeInvariance, EmergencyInit, EmergencyNext, PTL DEF Spec

-----------------------------------------------------------------------------
(***************************************************************************)
(* CROSSINGS: what a robot believes it was granted and what the Fleet Node *)
(* records agree.                                                          *)
(***************************************************************************)

-----------------------------------------------------------------------------
(* Requests and grants in flight *)

Wanted(r) == Target(r).point

\* A robot that is not waiting for a crossing has no request or grant under
\* way.  One that waits has at most one message under way, about the point it
\* wants; if that is a grant, the Fleet Node has already recorded it.
RequestFlow(r) ==
  /\ pc[r] # "requesting" => Answered(r)
  /\ pc[r] = "requesting" =>
       /\ Wanted(r) \notin Elements(releases[r])
       /\ \/ Answered(r)
          \/ /\ granted[r] # Wanted(r)
             /\ requests[r] = << Wanted(r) >>
             /\ grants[r] = << >>
          \/ /\ granted[r] # Wanted(r)
             /\ requests[r] = << >>
             /\ grants[r] = << Wanted(r) >>
             /\ occupied[Wanted(r)] = r

\* A granted point is recorded, and its release is not under way.
GrantRecorded(r) ==
  granted[r] # NoPoint =>
    /\ occupied[granted[r]] = r
    /\ granted[r] \notin Elements(releases[r])

CrossingInv == \A r \in Robots : RequestFlow(r) /\ GrantRecorded(r)

-----------------------------------------------------------------------------
(* What a step of a thread does to the crossing it holds *)

\* r's thread ends up somewhere else than at a crossing request, the other
\* threads stay where they are.
Settles(r) ==
  /\ pc'[r] # "requesting"
  /\ \A s \in Robots \ {r} : pc'[s] = pc[s] /\ stack'[s] = stack[s]

\* r keeps its crossing, or gives one back and holds none.
KeepsOrReleases(r) ==
  \/ UNCHANGED << releases, granted >>
  \/ \E p \in Points : Release(r, p)

QuietStep(r) ==
  /\ Settles(r)
  /\ KeepsOrReleases(r)
  /\ UNCHANGED << requests, grants >>

LEMMA GotoSettles ==
  ASSUME FlowOK, NEW r \in Robots, NEW label \in Label \ {"requesting"},
         Goto(r, label),
         UNCHANGED stack \/ \E frames : SetStack(r, frames)
  PROVE  Settles(r)
BY DEF FlowOK, Goto, SetStack, Settles

LEMMA CallSettles ==
  ASSUME FlowOK, NEW r \in Robots, NEW kind, NEW route, Call(r, kind, route)
  PROVE  Settles(r)
BY GotoSettles DEF Call, Label

LEMMA ReturnSettles ==
  ASSUME FlowOK, NEW r \in Robots, NEW callers, ReturnTo(r, callers)
  PROVE  Settles(r)
BY GotoSettles DEF ReturnTo, Label, Spinning

LEMMA EndSettles ==
  ASSUME FlowOK, NEW r \in Robots, NEW label \in {"wait_mission", "patrol_wait"},
         MissionEnds(r, label)
  PROVE  Settles(r)
BY GotoSettles DEF MissionEnds, Label, Spinning

LEMMA HeldReleased ==
  ASSUME DataType, NEW r \in Robots, ReleaseHeld(r)
  PROVE  KeepsOrReleases(r)
BY DEF DataType, ReleaseHeld, KeepsOrReleases

LEMMA UnresolvedSettles ==
  ASSUME FlowOK, DataType, NEW r \in Robots, Unresolved(r)
  PROVE  Settles(r) /\ KeepsOrReleases(r)
BY ReturnSettles, EndSettles, HeldReleased DEF Unresolved, DetourFailed

\* Every step of a thread but the two that publish a request is quiet.
LEMMA ThreadQuiet ==
  ASSUME TypeInv, NEW r \in Robots, ThreadStep(r)
  PROVE  QuietStep(r) \/ Approach(r) \/ Republish(r)
<1> USE DEF TypeInv, QuietStep, topics, crossingTopics
<1>a. UNCHANGED << releases, granted >> => KeepsOrReleases(r)
  BY DEF KeepsOrReleases
<1>1. CASE StartMission(r)
  BY <1>1, <1>a, GotoSettles, CallSettles
  DEF StartMission, BeginMission, Label, Spinning
<1>2. CASE EnsureUndocked(r)
  BY <1>2, <1>a, GotoSettles, CallSettles, EndSettles
  DEF EnsureUndocked, BeginMission, UndockFailed, Label, Spinning
<1>3. CASE UndockEnds(r)
  BY <1>3, <1>a, CallSettles, EndSettles
  DEF UndockEnds, BeginMission, UndockFailed
<1>4. CASE MissionComplete(r)
  BY <1>4, <1>a, EndSettles DEF MissionComplete
<1>5. CASE NextPatrol(r)
  BY <1>5, <1>a, GotoSettles DEF NextPatrol, Label, Spinning
<1>6. CASE CrossingGranted(r)
  BY <1>6, <1>a, GotoSettles DEF CrossingGranted, Label
<1>7. CASE CrossingTimeout(r)
  BY <1>7, <1>a, UnresolvedSettles, ReturnSettles
  DEF CrossingTimeout, DetourFailed
<1>8. CASE Drive(r)
  BY <1>8, <1>a, GotoSettles DEF Drive, Label, Spinning
<1>9. CASE Hold(r)
  BY <1>9, <1>a, GotoSettles DEF Hold, Label, Spinning
<1>10. CASE CollisionRisk(r)
  BY <1>10, UnresolvedSettles DEF CollisionRisk
<1>11. CASE Divert(r)
  BY <1>11, <1>a, CallSettles DEF Divert, TakeDockOrder, TakeAnomalyOrder
<1>12. CASE StopEarly(r)
  BY <1>12, <1>a, GotoSettles DEF StopEarly, WaitForOperator, Label, Spinning
<1>13. CASE NavFailed(r)
  BY <1>13, <1>a, GotoSettles, UnresolvedSettles DEF NavFailed, Label
<1>14. CASE Arrive(r)
  <2>1. Settles(r)
    BY <1>14, GotoSettles DEF Arrive, Advance, Label, Spinning
  <2>2. Target(r).point \in Points \cup {NoPoint}
    BY <1>14, InLoop, TargetType DEF Arrive, At, Idle
  <2>3. KeepsOrReleases(r)
    BY <1>14, <1>a, <2>2
    DEF Arrive, ReleaseOnArrival, Passed, KeepsOrReleases
  <2> QED
    BY <1>14, <2>1, <2>3 DEF Arrive
<1>15. CASE EndHold(r)
  BY <1>15, <1>a, GotoSettles DEF EndHold, Label, Spinning
<1>16. CASE InspectGate(r)
  <2>1. CASE Advance(r) /\ Goto(r, "next_waypoint")
             /\ UNCHANGED << releases, granted >>
    BY <1>16, <1>a, <2>1, GotoSettles DEF InspectGate, Advance, Label
  <2>2. CASE Unresolved(r)
    BY <1>16, <2>2, UnresolvedSettles DEF InspectGate
  <2> QED
    BY <1>16, <2>1, <2>2 DEF InspectGate
<1>17. CASE HoldAtAnomaly(r)
  BY <1>17, <1>a, GotoSettles DEF HoldAtAnomaly, Label, Spinning
<1>18. CASE DecideDock(r)
  BY <1>18, HeldReleased, GotoSettles DEF DecideDock, Label
<1>19. CASE DecideResume(r)
  BY <1>19, HeldReleased, ReturnSettles DEF DecideResume
<1>20. CASE DockEnds(r)
  BY <1>20, HeldReleased, ReturnSettles, EndSettles DEF DockEnds, DetourFailed
<1> QED
  BY <1>1, <1>2, <1>3, <1>4, <1>5, <1>6, <1>7, <1>8, <1>9, <1>10, <1>11,
     <1>12, <1>13, <1>14, <1>15, <1>16, <1>17, <1>18, <1>19, <1>20
  DEF ThreadStep

LEMMA RequestingSteps ==
  ASSUME NEW r \in Robots, ThreadStep(r), pc[r] = "requesting"
  PROVE  Republish(r) \/ CrossingGranted(r) \/ CrossingTimeout(r)
BY DEF ThreadStep, At, StartMission, EnsureUndocked, UndockEnds,
       MissionComplete, NextPatrol, Approach, Drive, Hold, CollisionRisk,
       Divert, StopEarly, NavFailed, Arrive, EndHold, InspectGate,
       HoldAtAnomaly, DecideDock, DecideResume, DockEnds

-----------------------------------------------------------------------------
(* Every step keeps CrossingInv *)

\* Nothing r's messages and belief depend on has changed.
Apart(r) ==
  /\ pc'[r] = pc[r]
  /\ stack'[r] = stack[r]
  /\ granted'[r] = granted[r]
  /\ requests'[r] = requests[r]
  /\ releases'[r] = releases[r]
  /\ grants'[r] = grants[r]

LEMMA ApartKeeps ==
  ASSUME NEW r \in Robots, RequestFlow(r), GrantRecorded(r), Apart(r),
         \A p : occupied[p] = r => occupied'[p] = r
  PROVE  RequestFlow(r)' /\ GrantRecorded(r)'
<1>1. Wanted(r)' = Wanted(r)
  BY DEF Apart, Wanted, Target, Top
<1> QED
  BY <1>1 DEF Apart, RequestFlow, GrantRecorded, Answered

LEMMA QuietApart ==
  ASSUME TypeInv, NEW r \in Robots, QuietStep(r), NEW s \in Robots \ {r}
  PROVE  Apart(s)
BY DEF TypeInv, DataType, TopicsType, QuietStep, Settles, KeepsOrReleases,
       Release, Put, Apart

LEMMA QuietKeeps ==
  ASSUME TypeInv, CrossingInv, UNCHANGED occupied,
         NEW r \in Robots, QuietStep(r), Answered(r)
  PROVE  CrossingInv'
<1>1. RequestFlow(r)'
  BY DEF QuietStep, Settles, RequestFlow, Answered
<1>2. GrantRecorded(r)'
  <2>1. CASE UNCHANGED << releases, granted >>
    BY <2>1 DEF CrossingInv, GrantRecorded
  <2>2. CASE \E p \in Points : Release(r, p)
    BY <2>2 DEF Release, GrantRecorded, TypeInv, DataType
  <2> QED
    BY <2>1, <2>2 DEF QuietStep, KeepsOrReleases
<1>3. ASSUME NEW s \in Robots \ {r} PROVE RequestFlow(s)' /\ GrantRecorded(s)'
  BY QuietApart, ApartKeeps DEF CrossingInv
<1> QED
  BY <1>1, <1>2, <1>3 DEF CrossingInv

\* A request goes out: r has none under way, and is not just giving the point
\* back.
LEMMA AskKeeps ==
  ASSUME TypeInv, CrossingInv, UNCHANGED << occupied, granted, releases, grants,
                                            stack >>,
         NEW r \in Robots, Answered(r),
         pc' = [pc EXCEPT ![r] = "requesting"],
         requests' = Put(requests, r, Wanted(r)),
         granted[r] # Wanted(r), Wanted(r) \notin Elements(releases[r])
  PROVE  CrossingInv'
<1>1. /\ pc'[r] = "requesting"
      /\ requests'[r] = << Wanted(r) >>
      /\ grants'[r] = << >>
  BY DEF TypeInv, FlowOK, TopicsType, Put, Answered
<1>2. Wanted(r)' = Wanted(r)
  BY DEF Wanted, Target, Top
<1>3. RequestFlow(r)' /\ GrantRecorded(r)'
  BY <1>1, <1>2 DEF RequestFlow, GrantRecorded, CrossingInv
<1>4. ASSUME NEW s \in Robots \ {r} PROVE Apart(s)
  BY DEF TypeInv, FlowOK, TopicsType, Put, Apart
<1>5. ASSUME NEW s \in Robots \ {r} PROVE RequestFlow(s)' /\ GrantRecorded(s)'
  BY <1>4, ApartKeeps DEF CrossingInv
<1> QED
  BY <1>3, <1>5 DEF CrossingInv

LEMMA ThreadKeeps ==
  ASSUME PromptNetwork, TypeInv, CrossingInv, UNCHANGED occupied,
         NEW r \in Robots, ThreadStep(r)
  PROVE  CrossingInv'
<1>1. CASE Approach(r)
  <2>1. pc[r] = "next_waypoint" /\ Answered(r)
    BY <1>1 DEF Approach, At, CrossingInv, RequestFlow
  <2>2. CASE Goto(r, "drive") /\ UNCHANGED requests
    <3>1. QuietStep(r)
      BY <1>1, <2>2, GotoSettles
      DEF Approach, QuietStep, KeepsOrReleases, TypeInv, Label
    <3> QED
      BY <2>1, <3>1, QuietKeeps
  <2>3. CASE /\ Wanted(r) # granted[r]
             /\ Wanted(r) \notin Elements(releases[r])
             /\ Goto(r, "requesting")
             /\ requests' = Put(requests, r, Wanted(r))
    BY <1>1, <2>1, <2>3, AskKeeps DEF Approach, Goto
  <2> QED
    BY <1>1, <2>2, <2>3 DEF Approach, Wanted
<1>2. CASE Republish(r)
  <2>1. /\ pc[r] = "requesting"
        /\ Answered(r)
        /\ granted[r] # Wanted(r)
        /\ Wanted(r) \notin Elements(releases[r])
        /\ requests' = Put(requests, r, Wanted(r))
    BY <1>2 DEF Republish, At, Wanted, CrossingInv, RequestFlow
  <2>2. pc' = [pc EXCEPT ![r] = "requesting"]
    BY <1>2, <2>1 DEF Republish, controlVars, TypeInv, FlowOK
  <2> QED
    BY <1>2, <2>1, <2>2, AskKeeps DEF Republish, controlVars
<1>3. CASE QuietStep(r)
  <2>1. Answered(r) \/ Republish(r)
    <3>1. CASE pc[r] = "requesting"
      BY <3>1, RequestingSteps
      DEF CrossingGranted, CrossingTimeout, CrossingInv, RequestFlow, Wanted
    <3>2. CASE pc[r] # "requesting"
      BY <3>2 DEF CrossingInv, RequestFlow
    <3> QED
      BY <3>1, <3>2
  <2> QED
    BY <1>2, <1>3, <2>1, QuietKeeps
<1> QED
  BY <1>1, <1>2, <1>3, ThreadQuiet

\* Only the arrival of a grant changes what a robot believes.
LEMMA CallbackKeeps ==
  ASSUME TypeInv, CrossingInv, NEW r \in Robots, Callback(r)
  PROVE  CrossingInv'
<1>1. CASE OnGrant(r)
  <2>1. /\ pc' = pc /\ stack' = stack /\ occupied' = occupied
        /\ requests' = requests /\ releases' = releases
        /\ granted' = [granted EXCEPT ![r] = Head(grants[r])]
        /\ grants' = [grants EXCEPT ![r] = Tail(@)]
        /\ grants[r] # << >>
    BY <1>1 DEF OnGrant, Callback, fleetVars, Take
  <2>2. /\ pc[r] = "requesting"
        /\ Wanted(r) \notin Elements(releases[r])
        /\ requests[r] = << >>
        /\ grants[r] = << Wanted(r) >>
        /\ occupied[Wanted(r)] = r
    BY <2>1 DEF CrossingInv, RequestFlow, Answered
  <2>3. Wanted(r)' = Wanted(r)
    BY <2>1 DEF Wanted, Target, Top
  <2>4. granted'[r] = Wanted(r) /\ requests'[r] = << >> /\ grants'[r] = << >>
    BY <2>1, <2>2 DEF TypeInv, DataType, TopicsType
  <2>5. RequestFlow(r)' /\ GrantRecorded(r)'
    BY <2>1, <2>2, <2>3, <2>4 DEF RequestFlow, GrantRecorded, Answered
  <2>6. ASSUME NEW s \in Robots \ {r} PROVE Apart(s)
    BY <2>1 DEF Apart, TypeInv, DataType, TopicsType
  <2>7. ASSUME NEW s \in Robots \ {r}
        PROVE  RequestFlow(s)' /\ GrantRecorded(s)'
    BY <2>1, <2>6, ApartKeeps DEF CrossingInv
  <2> QED
    BY <2>5, <2>7 DEF CrossingInv
<1>2. CASE UNCHANGED << pc, stack, granted, crossingTopics, occupied >>
  <2>1. ASSUME NEW s \in Robots PROVE Apart(s)
    BY <1>2 DEF Apart, crossingTopics
  <2> QED
    BY <1>2, <2>1, ApartKeeps DEF CrossingInv
<1>3. CASE OnMission(r, missions[r])
  BY <1>2, <1>3 DEF OnMission, Callback, fleetVars, topics, crossingTopics
<1>4. ASSUME NEW kind, Receive(r, kind) PROVE CrossingInv'
  BY <1>2, <1>4 DEF Receive, Callback, fleetVars
<1> QED
  BY <1>1, <1>3, <1>4
  DEF Callback, OnAnomaly, OnDock, OnAnomalyResume, OnAnomalyCaptured,
      OnEmergencyStop, OnPause, OnRepatrol

\* The Fleet Node records a holder before it sends the grant.
LEMMA RequestKeeps ==
  ASSUME TypeInv, CrossingInv, UNCHANGED << pc, stack, granted >>,
         NEW r \in Robots, OnRequest(r)
  PROVE  CrossingInv'
<1> DEFINE p == Head(requests[r])
<1>1. /\ pc[r] = "requesting"
      /\ Wanted(r) \notin Elements(releases[r])
      /\ granted[r] # Wanted(r)
      /\ requests[r] = << Wanted(r) >>
      /\ grants[r] = << >>
  BY DEF OnRequest, CrossingInv, RequestFlow, Answered
<1>2. p = Wanted(r) /\ p \in Points
  <2>1. requests[r] \in Seq(Points)
    BY DEF TypeInv, TopicsType
  <2>2. Len(requests[r]) = 1 /\ requests[r][1] = Wanted(r)
    BY <1>1
  <2> QED
    BY <2>1, <2>2
<1> HIDE DEF p
<1>3. /\ requests' = [requests EXCEPT ![r] = << >>]
      /\ releases' = releases
  BY <1>1 DEF OnRequest, Take
<1>4. \A s \in Robots : Wanted(s)' = Wanted(s)
  BY DEF Wanted, Target, Top
<1>5. CASE /\ occupied[p] \in {NoRobot, r}
           /\ occupied' = [occupied EXCEPT ![p] = r]
           /\ grants' = [grants EXCEPT ![r] = Append(@, p)]
  <2>1. /\ requests'[r] = << >>
        /\ grants'[r] = << Wanted(r) >>
        /\ occupied'[Wanted(r)] = r
    BY <1>1, <1>2, <1>3, <1>5 DEF TypeInv, TopicsType, FleetType
  <2>2. RequestFlow(r)'
    BY <1>1, <1>3, <1>4, <2>1 DEF RequestFlow, Answered
  <2>3. GrantRecorded(r)'
    BY <1>2, <1>3, <1>5 DEF CrossingInv, GrantRecorded, TypeInv, FleetType,
                            DataType
  <2>4. ASSUME NEW s \in Robots \ {r}
        PROVE  RequestFlow(s)' /\ GrantRecorded(s)'
    <3>1. Apart(s)
      BY <1>3, <1>5 DEF Apart, TypeInv, TopicsType
    <3>2. \A x : occupied[x] = s => occupied'[x] = s
      BY <1>2, <1>5, NoneAssumption DEF TypeInv, FleetType
    <3> QED
      BY <3>1, <3>2, ApartKeeps DEF CrossingInv
  <2> QED
    BY <2>2, <2>3, <2>4 DEF CrossingInv
<1>6. CASE UNCHANGED << occupied, grants >>
  <2>1. Answered(r)' /\ RequestFlow(r)' /\ GrantRecorded(r)'
    BY <1>1, <1>3, <1>4, <1>6
    DEF RequestFlow, GrantRecorded, Answered, CrossingInv, TypeInv, TopicsType
  <2>2. ASSUME NEW s \in Robots \ {r}
        PROVE  RequestFlow(s)' /\ GrantRecorded(s)'
    <3>1. Apart(s)
      BY <1>3, <1>6 DEF Apart, TypeInv, TopicsType
    <3> QED
      BY <1>6, <3>1, ApartKeeps DEF CrossingInv
  <2> QED
    BY <2>1, <2>2 DEF CrossingInv
<1> QED
  BY <1>5, <1>6 DEF OnRequest, Grantable, SendGrant, Put, p

\* A release on its way is never for a point the robot holds or is being
\* granted again.
LEMMA ReleaseKeeps ==
  ASSUME TypeInv, CrossingInv, UNCHANGED << pc, stack, granted >>,
         NEW r \in Robots, OnRelease(r)
  PROVE  CrossingInv'
<1> DEFINE p == Head(releases[r])
<1>1. /\ releases[r] \in Seq(Points)
      /\ releases[r] # << >>
  BY DEF OnRelease, TypeInv, TopicsType
<1>2. p \in Elements(releases[r])
  BY <1>1 DEF Elements
<1>3. Elements(Tail(releases[r])) \subseteq Elements(releases[r])
  BY <1>1 DEF Elements
<1>4. /\ releases' = [releases EXCEPT ![r] = Tail(@)]
      /\ occupied' = [occupied EXCEPT ![p] = IF @ = r THEN NoRobot ELSE @]
      /\ UNCHANGED << requests, grants >>
  BY DEF OnRelease, Take
<1> HIDE DEF p
<1>5. \A x : x # p => occupied'[x] = occupied[x]
  BY <1>4 DEF TypeInv, FleetType
<1>6. \A s \in Robots : Wanted(s)' = Wanted(s)
  BY DEF Wanted, Target, Top
<1>7. Elements(releases'[r]) \subseteq Elements(releases[r])
  BY <1>3, <1>4 DEF TypeInv, TopicsType
<1>8. RequestFlow(r)'
  <2>1. RequestFlow(r)
    BY DEF CrossingInv
  <2>2. CASE pc[r] # "requesting"
    BY <1>4, <2>1, <2>2 DEF RequestFlow, Answered
  <2>3. CASE pc[r] = "requesting"
    <3>1. Wanted(r) # p /\ Wanted(r) \notin Elements(releases'[r])
      BY <1>2, <1>7, <2>1, <2>3 DEF RequestFlow
    <3>2. occupied'[Wanted(r)] = occupied[Wanted(r)]
      BY <1>5, <3>1
    <3> QED
      BY <1>4, <1>6, <2>1, <2>3, <3>1, <3>2 DEF RequestFlow, Answered
  <2> QED
    BY <2>2, <2>3
<1>9. GrantRecorded(r)'
  <2>1. GrantRecorded(r)
    BY DEF CrossingInv
  <2>2. granted[r] # NoPoint => granted[r] # p
    BY <1>2, <2>1 DEF GrantRecorded
  <2> QED
    BY <1>5, <1>7, <2>1, <2>2 DEF GrantRecorded
<1>10. ASSUME NEW s \in Robots \ {r} PROVE RequestFlow(s)' /\ GrantRecorded(s)'
  <2>1. Apart(s)
    BY <1>4 DEF Apart, TypeInv, TopicsType
  <2>2. \A x : occupied[x] = s => occupied'[x] = s
    BY <1>4 DEF TypeInv, FleetType
  <2> QED
    BY <2>1, <2>2, ApartKeeps DEF CrossingInv
<1> QED
  BY <1>8, <1>9, <1>10 DEF CrossingInv

LEMMA StillKeeps ==
  ASSUME CrossingInv,
         UNCHANGED << pc, stack, granted, crossingTopics, occupied >>
  PROVE  CrossingInv'
<1>1. ASSUME NEW s \in Robots PROVE Apart(s)
  BY DEF Apart, crossingTopics
<1> QED
  BY <1>1, ApartKeeps DEF CrossingInv

LEMMA FleetKeeps ==
  ASSUME TypeInv, CrossingInv, NEW r \in Robots, FleetStep(r)
  PROVE  CrossingInv'
<1>1. UNCHANGED << pc, stack, granted >>
  BY DEF FleetStep, controlVars
<1>2. CASE OnAnomalyDone(r)
  BY <1>1, <1>2, StillKeeps DEF OnAnomalyDone
<1> QED
  BY <1>1, <1>2, RequestKeeps, ReleaseKeeps DEF FleetStep

LEMMA OperatorKeeps ==
  ASSUME CrossingInv, OperatorStep
  PROVE  CrossingInv'
<1>1. UNCHANGED << pc, stack, granted >>
  BY DEF OperatorStep, StartPatrol, Operator, controlVars
<1>2. UNCHANGED << crossingTopics, occupied >>
  BY DEF OperatorStep, StartPatrol, Operator, OnMapPoints, StopAllRobots,
         ReleaseAllRobots, OnDockReturn, OnAnomalyTrigger, RelayAnomalySignal,
         PublishDirect, topics, crossingTopics, fleetVars
<1> QED
  BY <1>1, <1>2, StillKeeps

-----------------------------------------------------------------------------
(* The theorem *)

LEMMA CrossingInit == Init => CrossingInv
<1> SUFFICES ASSUME Init, NEW r \in Robots
             PROVE  RequestFlow(r) /\ GrantRecorded(r)
  BY DEF CrossingInv
<1>1. pc[r] # "requesting" /\ granted[r] = NoPoint /\ Answered(r)
  BY DEF Init, TopicsInit, ControlInit, Answered
<1> QED
  BY <1>1 DEF RequestFlow, GrantRecorded

LEMMA CrossingNext ==
  PromptNetwork /\ TypeInv /\ CrossingInv /\ [Next]_vars => CrossingInv'
<1> SUFFICES ASSUME PromptNetwork, TypeInv, CrossingInv, [Next]_vars
             PROVE  CrossingInv'
  OBVIOUS
<1>1. CASE OperatorStep
  BY <1>1, OperatorKeeps
<1>2. ASSUME NEW r \in Robots, FleetStep(r) PROVE CrossingInv'
  BY <1>2, FleetKeeps
<1>3. ASSUME NEW r \in Robots, Callback(r) PROVE CrossingInv'
  BY <1>3, CallbackKeeps
<1>4. ASSUME NEW r \in Robots, ThreadStep(r) PROVE CrossingInv'
  <2>1. UNCHANGED occupied
    BY <1>4 DEF ThreadStep, fleetVars
  <2> QED
    BY <1>4, <2>1, ThreadKeeps
<1>5. CASE UNCHANGED vars
  BY <1>5, StillKeeps
  DEF vars, topics, crossingTopics, controlVars, fleetVars
<1> QED
  BY <1>1, <1>2, <1>3, <1>4, <1>5 DEF Next

LEMMA CrossingInvariance ==
  ASSUME PromptNetwork
  PROVE  Spec => []CrossingInv
<1>1. TypeInv /\ CrossingInv /\ [Next]_vars => CrossingInv'
  BY CrossingNext
<1> QED
  BY <1>1, CrossingInit, TypeInvariance, PTL DEF Spec

\* On a network that answers before a request is repeated, every point a robot
\* believes it was granted is recorded as held by it: through detours nested in
\* detours, timeouts, aborts, docking and repeated zone plans.
THEOREM GrantsAreRecorded ==
  ASSUME PromptNetwork
  PROVE  Spec => []HoldsWhatFleetRecords
<1>1. CrossingInv => HoldsWhatFleetRecords
  BY DEF CrossingInv, GrantRecorded, HoldsWhatFleetRecords
<1> QED
  BY <1>1, CrossingInvariance, PTL

-----------------------------------------------------------------------------
(***************************************************************************)
(* PATROLS that nothing diverts: what a robot holds while it drives, and   *)
(* that the protocol implements AisleLock.  Detours break these            *)
(* properties, so every theorem of this section assumes there are none.    *)
(***************************************************************************)

NoDetourRoutes ==
  \A r \in Robots : AnomalyRoutes[r] = {} /\ DockRoutes[r] = {}

-----------------------------------------------------------------------------
(* Without detours a robot only runs its mission *)

NoOrders(r) ==
  /\ commands[r].anomaly = << >>
  /\ commands[r].dock = << >>
  /\ anomalyOrder[r] = NoRoute
  /\ dockOrder[r] = NoRoute

MissionOnly(r) ==
  /\ pc[r] \notin {"docking", "anomaly_wait", "anomaly_hold"}
  /\ stack[r] # << >> => Top(r).kind = "mission" /\ Callers(r) = << >>

\* A robot holds a point only for the waypoint its mission is at, or, while it
\* inspects a gate there, for that waypoint and the next; and it holds that
\* point as long as it drives or is stopped on the way.
OnTheWay == {"drive", "moving", "emergency_hold", "pause_hold"}
HoldsForTarget(r) ==
  /\ granted[r] # NoPoint =>
       /\ pc[r] \notin Idle
       /\ Top(r).i <= Len(Top(r).route)
       /\ granted[r] = Wanted(r)
       /\ pc[r] = "gate" => granted[r] = NextPoint(r)
  /\ pc[r] \in OnTheWay => Wanted(r) \in {NoPoint, granted[r]}

\* It is on no other point than the one it holds, unless it was aborted there.
InsideHeld(r) == ~ Faults => inside[r] \in {NoPoint, granted[r]}

PatrolInv ==
  \A r \in Robots :
    NoOrders(r) /\ MissionOnly(r) /\ HoldsForTarget(r) /\ InsideHeld(r)

-----------------------------------------------------------------------------
(* How a mission's steps keep what is held for the target *)

HeldWell(r) == MissionOnly(r) /\ HoldsForTarget(r)

LEMMA BeginsWell ==
  ASSUME TypeInv, NEW r \in Robots, pc[r] \in Idle, HeldWell(r),
         BeginMission(r), UNCHANGED granted
  PROVE  HeldWell(r)'
<1> DEFINE frame == [kind |-> "mission", route |-> mission[r], i |-> 1]
<1>1. stack[r] = << >> /\ granted[r] = NoPoint
  BY FlowIdle DEF TypeInv, HeldWell, HoldsForTarget
<1>2. frame \in Frame /\ frame.kind = "mission"
  BY DEF TypeInv, DataType, Frame
<1>3. /\ pc'[r] = "next_waypoint"
      /\ stack'[r] = << frame >> \o stack[r]
  BY DEF BeginMission, Call, SetStack, Goto, TypeInv, FlowOK
<1> HIDE DEF frame
<1>4. Head(stack'[r]) = frame /\ Tail(stack'[r]) = << >>
  BY <1>1, <1>2, <1>3, Pushed DEF TypeInv, FlowOK
<1>5. MissionOnly(r)'
  BY <1>2, <1>3, <1>4 DEF MissionOnly, Top, Callers
<1>6. HoldsForTarget(r)'
  BY <1>1, <1>3 DEF HoldsForTarget, OnTheWay
<1> QED
  BY <1>5, <1>6 DEF HeldWell

LEMMA EndsWell ==
  ASSUME TypeInv, NEW r \in Robots,
         NEW label \in {"wait_mission", "patrol_wait"}, MissionEnds(r, label),
         granted'[r] = NoPoint
  PROVE  HeldWell(r)'
<1>1. pc'[r] = label /\ stack'[r] = << >>
  BY DEF MissionEnds, Goto, SetStack, TypeInv, FlowOK
<1> QED
  BY <1>1 DEF HeldWell, MissionOnly, HoldsForTarget, OnTheWay

\* The label changes, the route loop stays where it is.
LEMMA MovesWell ==
  ASSUME TypeInv, NEW r \in Robots, HeldWell(r), pc[r] \notin Idle,
         NEW label \in OnTheWay \cup {"requesting", "gate"},
         Goto(r, label), UNCHANGED stack,
         granted'[r] \in {NoPoint, granted[r]},
         label = "gate" => granted'[r] \in {NoPoint, NextPoint(r)},
         label \in OnTheWay => Wanted(r) \in {NoPoint, granted'[r]}
  PROVE  HeldWell(r)'
<1>1. pc'[r] = label
  BY DEF Goto, TypeInv, FlowOK
<1>2. /\ Top(r)' = Top(r)
      /\ Wanted(r)' = Wanted(r)
      /\ NextPoint(r)' = NextPoint(r)
      /\ Callers(r)' = Callers(r)
  BY DEF Top, Wanted, Target, NextPoint, IsLast, Callers
<1>3. MissionOnly(r)'
  BY <1>1, <1>2 DEF HeldWell, MissionOnly, OnTheWay
<1>4. HoldsForTarget(r)'
  BY <1>1, <1>2 DEF HeldWell, HoldsForTarget, OnTheWay, Idle
<1> QED
  BY <1>3, <1>4 DEF HeldWell

\* The loop goes on to a waypoint for which the point, if one is kept, is held.
LEMMA AdvancesWell ==
  ASSUME TypeInv, NEW r \in Robots, HeldWell(r),
         pc[r] \notin Idle \cup {"next_waypoint"},
         Advance(r), Goto(r, "next_waypoint"),
         granted'[r] # NoPoint => granted'[r] = NextPoint(r)
  PROVE  HeldWell(r)'
<1> DEFINE frame == [Top(r) EXCEPT !.i = @ + 1]
<1>1. /\ stack[r] # << >>
      /\ Top(r) \in Frame
      /\ Top(r).i <= Len(Top(r).route)
      /\ Callers(r) \in Seq(Frame)
  BY InLoop DEF TypeInv
<1>2. Top(r).kind = "mission" /\ Callers(r) = << >>
  BY <1>1 DEF HeldWell, MissionOnly
<1>3. /\ frame \in Frame
      /\ frame.kind = "mission"
      /\ frame.route = Top(r).route
      /\ frame.i = Top(r).i + 1
  BY <1>1, <1>2 DEF Frame
<1>4. /\ pc'[r] = "next_waypoint"
      /\ stack'[r] = << frame >> \o Callers(r)
  BY DEF Advance, SetStack, Goto, TypeInv, FlowOK
<1> HIDE DEF frame
<1>5. Top(r)' = frame /\ Callers(r)' = << >>
  BY <1>1, <1>2, <1>3, <1>4, Pushed DEF Top, Callers
<1>6. MissionOnly(r)'
  BY <1>3, <1>4, <1>5 DEF MissionOnly
<1>7. ASSUME granted'[r] # NoPoint
      PROVE  /\ Top(r)'.i <= Len(Top(r)'.route)
             /\ granted'[r] = Wanted(r)'
  <2>1. ~ IsLast(r) /\ NextPoint(r) = Top(r).route[Top(r).i + 1].point
    BY <1>7 DEF NextPoint
  <2>2. Top(r).i + 1 <= Len(Top(r).route)
    BY <1>1, <2>1 DEF IsLast, Frame, Route
  <2>3. Wanted(r)' = NextPoint(r)
    BY <1>3, <1>5, <2>1 DEF Wanted, Target
  <2> QED
    BY <1>3, <1>5, <1>7, <2>2, <2>3
<1>8. HoldsForTarget(r)'
  BY <1>4, <1>7 DEF HoldsForTarget, Idle, OnTheWay
<1> QED
  BY <1>6, <1>8 DEF HeldWell

\* Giving a crossing back leaves none.
LEMMA HeldThenNone ==
  ASSUME TypeInv, NEW r \in Robots, ReleaseHeld(r)
  PROVE  granted'[r] = NoPoint
BY DEF ReleaseHeld, Release, TypeInv, DataType

LEMMA UnresolvedWell ==
  ASSUME TypeInv, NEW r \in Robots, pc[r] \notin Idle, HeldWell(r),
         Unresolved(r)
  PROVE  HeldWell(r)'
<1>1. stack[r] # << >>
  BY InLoop DEF TypeInv
<1>2. Top(r).kind = "mission"
  BY <1>1 DEF HeldWell, MissionOnly
<1>3. MissionEnds(r, "wait_mission") /\ ReleaseHeld(r)
  BY <1>2 DEF Unresolved
<1> QED
  BY <1>3, HeldThenNone, EndsWell

LEMMA IdleWell ==
  ASSUME TypeInv, NEW r \in Robots, HeldWell(r), pc[r] \in Idle,
         NEW label \in Idle, Goto(r, label), UNCHANGED << stack, granted >>
  PROVE  HeldWell(r)'
<1>1. pc'[r] = label /\ stack'[r] = << >> /\ granted'[r] = NoPoint
  BY FlowIdle DEF TypeInv, FlowOK, Goto, HeldWell, HoldsForTarget
<1> QED
  BY <1>1 DEF HeldWell, MissionOnly, HoldsForTarget, Idle, OnTheWay

-----------------------------------------------------------------------------
(* Every step of a thread *)

\* What AisleLock lets r do in one step, but for acquiring a point.
Locks(r) ==
  UNCHANGED << granted, inside >> \/ Lock!Enter(r) \/ Lock!Leave(r)

LEMMA DriveLocks ==
  ASSUME TypeInv, ~ Faults, NEW r \in Robots, HeldWell(r), InsideHeld(r),
         Drive(r)
  PROVE  Locks(r)
<1>1. /\ granted' = granted
      /\ pc[r] = "drive"
      /\ \/ inside' = inside
         \/ inside' = [inside EXCEPT ![r] = Wanted(r)]
  BY DEF Drive, At, Wanted
<1>2. /\ Wanted(r) \in {NoPoint, granted[r]}
      /\ granted[r] # NoPoint => granted[r] = Wanted(r)
      /\ inside[r] \in {NoPoint, granted[r]}
  BY <1>1 DEF HeldWell, HoldsForTarget, OnTheWay, InsideHeld
<1>3. CASE granted[r] # NoPoint
  BY <1>1, <1>2, <1>3 DEF Locks, Lock!Enter
<1>4. CASE granted[r] = NoPoint
  <2>1. inside[r] = NoPoint /\ Wanted(r) = NoPoint
    BY <1>2, <1>4
  <2> QED
    BY <1>1, <2>1 DEF Locks, TypeInv, DataType
<1> QED
  BY <1>3, <1>4

LEMMA ArriveWell ==
  ASSUME TypeInv, NEW r \in Robots, HeldWell(r), Arrive(r)
  PROVE  HeldWell(r)' /\ Locks(r)
<1>1. /\ pc[r] = "moving"
      /\ stack[r] # << >>
      /\ Top(r).kind = "mission"
  <2>1. pc[r] = "moving"
    BY DEF Arrive, At
  <2> QED
    BY <2>1, InLoop DEF TypeInv, Idle, HeldWell, MissionOnly
<1>2. /\ Wanted(r) \in {NoPoint, granted[r]}
      /\ granted[r] # NoPoint => granted[r] = Wanted(r)
  BY <1>1 DEF HeldWell, HoldsForTarget, OnTheWay
<1>3. CASE /\ Passed(r)
           /\ granted' = [granted EXCEPT ![r] = NoPoint]
           /\ inside' = [inside EXCEPT ![r] = NoPoint]
  <2>1. granted'[r] = NoPoint
    BY <1>3 DEF TypeInv, DataType
  <2>2. granted[r] # NoPoint
    BY <1>2, <1>3 DEF Passed, Wanted
  <2>3. Locks(r)
    BY <1>3, <2>2 DEF Locks, Lock!Leave
  <2> HIDE DEF Locks
  <2>4. CASE Goto(r, "gate") /\ UNCHANGED stack
    BY <1>1, <2>1, <2>3, <2>4, MovesWell DEF Idle, OnTheWay
  <2>5. CASE Advance(r) /\ Goto(r, "next_waypoint")
    BY <1>1, <2>1, <2>3, <2>5, AdvancesWell DEF Idle
  <2> QED
    BY <1>1, <2>4, <2>5 DEF Arrive
<1>4. CASE ~ Passed(r) /\ UNCHANGED << releases, granted, inside >>
  <2>1. granted'[r] # NoPoint => granted'[r] = NextPoint(r)
    BY <1>1, <1>2, <1>4 DEF Passed, Wanted
  <2>2. Locks(r)
    BY <1>4 DEF Locks
  <2>3. CASE Goto(r, "gate") /\ UNCHANGED stack
    BY <1>1, <1>4, <2>1, <2>2, <2>3, MovesWell DEF Idle, OnTheWay
  <2>4. CASE Advance(r) /\ Goto(r, "next_waypoint")
    BY <1>1, <2>1, <2>2, <2>4, AdvancesWell DEF Idle
  <2> QED
    BY <1>1, <2>3, <2>4 DEF Arrive
<1> QED
  BY <1>3, <1>4 DEF Arrive, ReleaseOnArrival, Release

LEMMA PatrolThread ==
  ASSUME TypeInv, NEW r \in Robots,
         NoOrders(r), HeldWell(r), InsideHeld(r), ThreadStep(r)
  PROVE  /\ HeldWell(r)'
         /\ ~ Faults => Locks(r)
         /\ UNCHANGED << commands, dockOrder, anomalyOrder >>
<1> USE DEF At, topics, commandTopics, orders, physical
<1>a. pc[r] \in Idle => granted[r] = NoPoint
  BY DEF HeldWell, HoldsForTarget
<1>b. pc[r] \notin Idle => Top(r).kind = "mission"
  BY InLoop DEF TypeInv, HeldWell, MissionOnly
<1>c. UNCHANGED << granted, inside >> => Locks(r)
  BY DEF Locks
<1>d. ASSUME UNCHANGED granted, pc[r] \in Idle PROVE granted'[r] = NoPoint
  BY <1>a, <1>d
<1>1. CASE StartMission(r)
  BY <1>1, <1>c, BeginsWell, IdleWell DEF StartMission, Idle
<1>2. CASE EnsureUndocked(r)
  BY <1>2, <1>c, <1>d, BeginsWell, IdleWell, EndsWell
  DEF EnsureUndocked, UndockFailed, Idle
<1>3. CASE UndockEnds(r)
  BY <1>3, <1>c, <1>d, BeginsWell, EndsWell DEF UndockEnds, UndockFailed, Idle
<1>4. CASE MissionComplete(r)
  <2>1. pc[r] = "next_waypoint" /\ granted'[r] = granted[r]
    BY <1>4 DEF MissionComplete
  <2>2. Top(r).i \in Nat /\ Len(Top(r).route) \in Nat
    BY <2>1, InLoop DEF TypeInv, Idle, Frame, Route
  <2>3. granted'[r] = NoPoint
    BY <1>4, <2>1, <2>2 DEF MissionComplete, HeldWell, HoldsForTarget
  <2> QED
    BY <1>4, <1>c, <2>3, EndsWell DEF MissionComplete
<1>5. CASE NextPatrol(r)
  BY <1>5, <1>c, IdleWell DEF NextPatrol, Idle
<1>6. CASE Approach(r)
  BY <1>6, <1>c, MovesWell DEF Approach, Wanted, OnTheWay, Idle
<1>7. CASE Republish(r)
  <2>1. pc[r] = "requesting" /\ Goto(r, "requesting")
    BY <1>7 DEF Republish, controlVars, Goto, TypeInv, FlowOK
  <2> QED
    BY <1>7, <1>c, <2>1, MovesWell DEF Republish, controlVars, OnTheWay, Idle
<1>8. CASE CrossingGranted(r)
  BY <1>8, <1>c, MovesWell DEF CrossingGranted, Wanted, OnTheWay, Idle
<1>9. CASE CrossingTimeout(r)
  <2>1. pc[r] \notin Idle /\ Unresolved(r) /\ granted[r] = NoPoint
    BY <1>9, <1>b
    DEF CrossingTimeout, Idle, HeldWell, HoldsForTarget, Wanted
  <2>2. HeldWell(r)'
    BY <2>1, UnresolvedWell
  <2>3. UNCHANGED << granted, inside >>
    BY <1>9, <2>1 DEF CrossingTimeout, Unresolved, ReleaseHeld
  <2> QED
    BY <1>9, <1>c, <2>2, <2>3 DEF CrossingTimeout
<1>10. CASE Drive(r)
  <2>1. Wanted(r) \in {NoPoint, granted[r]}
    BY <1>10 DEF Drive, HeldWell, HoldsForTarget, OnTheWay
  <2>2. HeldWell(r)'
    BY <1>10, <2>1, MovesWell DEF Drive, OnTheWay, Idle
  <2> QED
    BY <1>10, <2>2, DriveLocks DEF Drive
<1>11. CASE Hold(r)
  <2>1. Wanted(r) \in {NoPoint, granted[r]}
    BY <1>11 DEF Hold, HeldWell, HoldsForTarget, OnTheWay
  <2> QED
    BY <1>11, <1>c, <2>1, MovesWell DEF Hold, OnTheWay, Idle
<1>12. CASE CollisionRisk(r)
  BY <1>12, UnresolvedWell DEF CollisionRisk, Idle
<1>13. CASE Divert(r)
  BY <1>13 DEF Divert, NoOrders
<1>14. CASE StopEarly(r)
  BY <1>14, <1>b DEF StopEarly, Idle
<1>15. CASE NavFailed(r)
  <2>1. Faults /\ pc[r] = "moving" /\ Wanted(r) \in {NoPoint, granted[r]}
    BY <1>15 DEF NavFailed, HeldWell, HoldsForTarget, OnTheWay
  <2>2. CASE Goto(r, "drive") /\ UNCHANGED << stack, granted >>
    BY <1>15, <2>1, <2>2, MovesWell DEF NavFailed, OnTheWay, Idle
  <2>3. CASE Unresolved(r)
    BY <1>15, <2>1, <2>3, UnresolvedWell DEF NavFailed, Idle
  <2> QED
    BY <1>15, <2>2, <2>3 DEF NavFailed
<1>16. CASE Arrive(r)
  BY <1>16, ArriveWell DEF Arrive
<1>17. CASE EndHold(r)
  <2>1. /\ pc[r] \in {"emergency_hold", "pause_hold"}
        /\ Goto(r, "drive")
    BY <1>17 DEF EndHold, HeldWell, MissionOnly
  <2>2. Wanted(r) \in {NoPoint, granted[r]}
    BY <2>1 DEF HeldWell, HoldsForTarget, OnTheWay
  <2> QED
    BY <1>17, <1>c, <2>1, <2>2, MovesWell DEF EndHold, OnTheWay, Idle
<1>18. CASE InspectGate(r)
  <2>1. pc[r] = "gate"
    BY <1>18 DEF InspectGate
  <2>2. CASE /\ Advance(r)
             /\ Goto(r, "next_waypoint")
             /\ UNCHANGED granted
    <3>1. granted'[r] # NoPoint => granted'[r] = NextPoint(r)
      BY <2>1, <2>2 DEF HeldWell, HoldsForTarget
    <3> QED
      BY <1>18, <1>c, <2>1, <2>2, <3>1, AdvancesWell DEF InspectGate, Idle
  <2>3. CASE Faults /\ Unresolved(r)
    BY <1>18, <2>1, <2>3, UnresolvedWell DEF InspectGate, Idle
  <2> QED
    BY <1>18, <2>2, <2>3 DEF InspectGate
<1>19. CASE HoldAtAnomaly(r) \/ DecideDock(r) \/ DecideResume(r) \/ DockEnds(r)
  BY <1>19 DEF HoldAtAnomaly, DecideDock, DecideResume, DockEnds, HeldWell,
               MissionOnly
<1> QED
  BY <1>1, <1>2, <1>3, <1>4, <1>5, <1>6, <1>7, <1>8, <1>9, <1>10, <1>11,
     <1>12, <1>13, <1>14, <1>15, <1>16, <1>17, <1>18, <1>19 DEF ThreadStep

-----------------------------------------------------------------------------
(* The other robots, callbacks, the Fleet Node and the operator *)

PatrolOK(r) ==
  NoOrders(r) /\ MissionOnly(r) /\ HoldsForTarget(r) /\ InsideHeld(r)

\* Nothing PatrolOK(r) depends on has changed.
Untouched(r) ==
  /\ pc'[r] = pc[r] /\ stack'[r] = stack[r]
  /\ granted'[r] = granted[r] /\ inside'[r] = inside[r]
  /\ dockOrder'[r] = dockOrder[r] /\ anomalyOrder'[r] = anomalyOrder[r]
  /\ commands'[r].anomaly = commands[r].anomaly
  /\ commands'[r].dock = commands[r].dock

LEMMA UntouchedKeeps ==
  ASSUME NEW r \in Robots, PatrolOK(r), Untouched(r)
  PROVE  PatrolOK(r)'
<1>1. /\ Top(r)' = Top(r)
      /\ Callers(r)' = Callers(r)
      /\ Wanted(r)' = Wanted(r)
      /\ NextPoint(r)' = NextPoint(r)
  BY DEF Untouched, Top, Callers, Wanted, Target, NextPoint, IsLast
<1>2. NoOrders(r)' /\ InsideHeld(r)'
  BY DEF PatrolOK, Untouched, NoOrders, InsideHeld
<1>3. MissionOnly(r)'
  BY <1>1 DEF PatrolOK, Untouched, MissionOnly
<1>4. HoldsForTarget(r)'
  BY <1>1 DEF PatrolOK, Untouched, HoldsForTarget
<1> QED
  BY <1>2, <1>3, <1>4 DEF PatrolOK

\* A robot's thread moves no other robot.
LEMMA InsideOfOthers ==
  ASSUME TypeInv, NEW r \in Robots, ThreadStep(r), NEW s \in Robots \ {r}
  PROVE  inside'[s] = inside[s]
<1>1. \/ UNCHANGED inside
      \/ \E p : inside' = [inside EXCEPT ![r] = p]
  BY DEF ThreadStep, StartMission, EnsureUndocked, UndockEnds,
         MissionComplete, NextPatrol, Approach, Republish, CrossingGranted,
         CrossingTimeout, Drive, Hold, CollisionRisk, Divert, StopEarly,
         NavFailed, Arrive, ReleaseOnArrival, EndHold, InspectGate,
         HoldAtAnomaly, DecideDock, DecideResume, DockEnds, physical,
         controlVars
<1> QED
  BY <1>1 DEF TypeInv, DataType

LEMMA ThreadElsewhere ==
  ASSUME TypeInv, NEW r \in Robots, ThreadStep(r), NEW s \in Robots \ {r}
  PROVE  /\ pc'[s] = pc[s] /\ stack'[s] = stack[s]
         /\ granted'[s] = granted[s] /\ inside'[s] = inside[s]
<1>1. CASE QuietStep(r)
  BY <1>1, QuietApart, InsideOfOthers DEF Apart
<1>2. CASE Approach(r)
  BY <1>2, InsideOfOthers DEF Approach, Goto, TypeInv, FlowOK
<1>3. CASE Republish(r)
  BY <1>3, InsideOfOthers DEF Republish, controlVars
<1> QED
  BY <1>1, <1>2, <1>3, ThreadQuiet

LEMMA LocksInside ==
  ASSUME TypeInv, NEW r \in Robots, InsideHeld(r), ~ Faults => Locks(r)
  PROVE  InsideHeld(r)'
BY DEF InsideHeld, Locks, Lock!Enter, Lock!Leave, TypeInv, DataType

LEMMA ThreadPatrols ==
  ASSUME TypeInv, PatrolInv, NEW r \in Robots, ThreadStep(r)
  PROVE  PatrolInv' /\ (~ Faults => Locks(r))
<1>1. /\ HeldWell(r)'
      /\ ~ Faults => Locks(r)
      /\ UNCHANGED << commands, dockOrder, anomalyOrder >>
  BY PatrolThread DEF PatrolInv, HeldWell
<1>2. PatrolOK(r)'
  <2>1. InsideHeld(r)'
    BY <1>1, LocksInside DEF PatrolInv
  <2>2. NoOrders(r)'
    BY <1>1 DEF PatrolInv, NoOrders
  <2> QED
    BY <1>1, <2>1, <2>2 DEF PatrolOK, HeldWell
<1>3. ASSUME NEW s \in Robots \ {r} PROVE PatrolOK(s)'
  BY <1>1, ThreadElsewhere, UntouchedKeeps DEF PatrolInv, PatrolOK, Untouched
<1> QED
  BY <1>1, <1>2, <1>3 DEF PatrolInv, PatrolOK

\* The grant that arrives is the permission AisleLock hands out.
LEMMA GrantAcquires ==
  ASSUME TypeInv, CrossingInv, PatrolInv, NEW r \in Robots, OnGrant(r),
         UNCHANGED fleetVars
  PROVE  PatrolInv' /\ \E p \in Points : Lock!Acquire(r, p)
<1>1. /\ pc' = pc /\ stack' = stack /\ inside' = inside
      /\ UNCHANGED << commands, dockOrder, anomalyOrder >>
      /\ granted' = [granted EXCEPT ![r] = Head(grants[r])]
      /\ grants[r] # << >>
  BY DEF OnGrant, commandTopics, orders, physical
<1>2. /\ pc[r] = "requesting"
      /\ granted[r] # Wanted(r)
      /\ grants[r] = << Wanted(r) >>
      /\ occupied[Wanted(r)] = r
  BY <1>1 DEF CrossingInv, RequestFlow, Answered
<1>3. Wanted(r) \in Points
  <2>1. grants[r] \in Seq(Points)
    BY DEF TypeInv, TopicsType
  <2>2. Len(grants[r]) = 1 /\ grants[r][1] = Wanted(r)
    BY <1>2
  <2> QED
    BY <2>1, <2>2
<1>4. granted' = [granted EXCEPT ![r] = Wanted(r)]
  BY <1>1, <1>2
<1>5. granted[r] = NoPoint
  BY <1>2 DEF PatrolInv, HoldsForTarget
<1>6. \A s \in Robots : granted[s] # Wanted(r)
  BY <1>2, <1>3, NoneAssumption DEF CrossingInv, GrantRecorded
<1>7. Lock!Acquire(r, Wanted(r))
  BY <1>1, <1>4, <1>5, <1>6 DEF Lock!Acquire
<1>8. /\ Top(r)' = Top(r)
      /\ Callers(r)' = Callers(r)
      /\ Wanted(r)' = Wanted(r)
  BY <1>1 DEF Top, Callers, Wanted, Target
<1>9. PatrolOK(r)'
  <2>1. granted'[r] = Wanted(r)
    BY <1>4 DEF TypeInv, DataType
  <2>2. Top(r).i <= Len(Top(r).route)
    BY <1>2, InLoop DEF TypeInv, Idle
  <2>3. HoldsForTarget(r)'
    BY <1>1, <1>2, <1>8, <2>1, <2>2 DEF HoldsForTarget, Idle, OnTheWay
  <2>4. InsideHeld(r)'
    BY <1>1, <1>5 DEF InsideHeld, PatrolInv
  <2>5. NoOrders(r)' /\ MissionOnly(r)'
    BY <1>1, <1>8 DEF NoOrders, MissionOnly, PatrolInv
  <2> QED
    BY <2>3, <2>4, <2>5 DEF PatrolOK
<1>10. ASSUME NEW s \in Robots \ {r} PROVE PatrolOK(s)'
  <2>1. Untouched(s)
    BY <1>1, <1>4 DEF Untouched, TypeInv, DataType
  <2> QED
    BY <2>1, UntouchedKeeps DEF PatrolInv, PatrolOK
<1> QED
  BY <1>3, <1>7, <1>9, <1>10 DEF PatrolInv, PatrolOK

LEMMA AllUntouched ==
  ASSUME PatrolInv, \A s \in Robots : Untouched(s)
  PROVE  PatrolInv'
BY UntouchedKeeps DEF PatrolInv, PatrolOK

\* A callback other than a grant's raises flags or replaces the mission.
LEMMA CallbackPatrols ==
  ASSUME TypeInv, PatrolInv, NEW r \in Robots, Callback(r), ~ OnGrant(r)
  PROVE  PatrolInv' /\ UNCHANGED << granted, inside >>
<1>1. UNCHANGED << pc, stack, granted, inside >>
  BY DEF Callback, OnMission, OnAnomaly, OnDock, OnAnomalyResume,
         OnAnomalyCaptured, OnEmergencyStop, OnPause, OnRepatrol, Receive,
         physical
<1>2. CASE OnMission(r, missions[r])
  <2>1. UNCHANGED << commands, dockOrder, anomalyOrder >>
    BY <1>2 DEF OnMission, topics, orders
  <2> QED
    BY <1>1, <2>1, AllUntouched DEF Untouched
<1>3. ASSUME NEW kind \in CommandKind, Receive(r, kind),
             kind \notin {"anomaly", "dock"}, UNCHANGED orders
      PROVE  PatrolInv'
  <2>1. \A s \in Robots : /\ commands'[s].anomaly = commands[s].anomaly
                          /\ commands'[s].dock = commands[s].dock
    BY <1>3 DEF Receive, TypeInv, TopicsType, Inbox
  <2> QED
    BY <1>1, <1>3, <2>1, AllUntouched DEF Untouched, orders
<1>4. ~ OnAnomaly(r) /\ ~ OnDock(r)
  BY DEF OnAnomaly, OnDock, Receive, PatrolInv, NoOrders
<1>5. PatrolInv'
  BY <1>2, <1>3, <1>4
  DEF Callback, OnAnomalyResume, OnAnomalyCaptured, OnEmergencyStop, OnPause,
      OnRepatrol, CommandKind
<1> QED
  BY <1>1, <1>5

LEMMA FleetPatrols ==
  ASSUME PatrolInv, NEW r \in Robots, FleetStep(r)
  PROVE  PatrolInv' /\ UNCHANGED << granted, inside >>
<1>1. UNCHANGED << controlVars, commands >>
  BY DEF FleetStep, OnRequest, OnRelease, OnAnomalyDone, commandTopics
<1> QED
  BY <1>1, AllUntouched DEF Untouched, controlVars, orders, physical

LEMMA OperatorPatrols ==
  ASSUME NoDetourRoutes, TypeInv, PatrolInv, OperatorStep
  PROVE  PatrolInv' /\ UNCHANGED << granted, inside >>
<1>1. UNCHANGED controlVars
  BY DEF OperatorStep, StartPatrol, Operator
<1>2. \A s \in Robots : /\ commands'[s].anomaly = commands[s].anomaly
                        /\ commands'[s].dock = commands[s].dock
  <2>1. commands \in [Robots -> Inbox]
    BY DEF TypeInv, TopicsType
  <2>2. CASE StartPatrol
    BY <2>2 DEF StartPatrol, OnMapPoints, topics, commandTopics
  <2>3. CASE StopAllRobots \/ ReleaseAllRobots
    BY <2>1, <2>3 DEF StopAllRobots, ReleaseAllRobots, Inbox
  <2>4. ASSUME NEW requested, NEW routeOf PROVE ~ OnDockReturn(requested, routeOf)
    BY DEF OnDockReturn, DockTargets, NoDetourRoutes, TypeInv, FleetType
  <2>5. ASSUME NEW s \in Robots, NEW kind \in CommandKind \ {"anomaly", "dock"},
               NEW m, Publish(s, kind, m)
        PROVE  \A x \in Robots : /\ commands'[x].anomaly = commands[x].anomaly
                                 /\ commands'[x].dock = commands[x].dock
    BY <2>1, <2>5 DEF Publish, Inbox
  <2>6. ASSUME NEW s \in Robots, NEW kind, RelayAnomalySignal(s, kind)
        PROVE  \A x \in Robots : /\ commands'[x].anomaly = commands[x].anomaly
                                 /\ commands'[x].dock = commands[x].dock
    BY <2>5, <2>6 DEF RelayAnomalySignal, CommandKind
  <2>7. ASSUME NEW s \in Robots, NEW kind \in {"pause", "repatrol"}, NEW m,
               PublishDirect(s, kind, m)
        PROVE  \A x \in Robots : /\ commands'[x].anomaly = commands[x].anomaly
                                 /\ commands'[x].dock = commands[x].dock
    BY <2>5, <2>7 DEF PublishDirect, CommandKind
  <2>8. \A s \in Robots : AnomalyRoutes[s] = {}
    BY DEF NoDetourRoutes
  <2> QED
    BY <2>2, <2>3, <2>4, <2>6, <2>7, <2>8 DEF OperatorStep, Operator
<1> QED
  BY <1>1, <1>2, AllUntouched DEF Untouched, controlVars, orders, physical

-----------------------------------------------------------------------------
(* The invariant *)

LEMMA PatrolInit == Init => PatrolInv
<1> SUFFICES ASSUME Init, NEW r \in Robots PROVE PatrolOK(r)
  BY DEF PatrolInv, PatrolOK
<1>1. /\ commands[r] = EmptyInbox
      /\ pc[r] = "wait_mission"
      /\ stack[r] = << >>
      /\ granted[r] = NoPoint /\ inside[r] = NoPoint
      /\ dockOrder[r] = NoRoute /\ anomalyOrder[r] = NoRoute
  BY DEF Init, TopicsInit, ControlInit
<1> QED
  BY <1>1 DEF PatrolOK, NoOrders, MissionOnly, HoldsForTarget, InsideHeld,
              EmptyInbox, OnTheWay

\* One step keeps PatrolInv and, if nothing fails, is one of AisleLock's.
LEMMA PatrolNext ==
  ASSUME NoDetourRoutes, TypeInv, CrossingInv, PatrolInv, [Next]_vars
  PROVE  PatrolInv' /\ (~ Faults => [Lock!LockNext]_(Lock!lockVars))
<1> USE DEF Lock!lockVars
<1>1. CASE OperatorStep
  BY <1>1, OperatorPatrols
<1>2. ASSUME NEW r \in Robots, FleetStep(r)
      PROVE  PatrolInv' /\ UNCHANGED << granted, inside >>
  BY <1>2, FleetPatrols
<1>3. ASSUME NEW r \in Robots, Callback(r)
      PROVE  PatrolInv' /\ [Lock!LockNext]_(Lock!lockVars)
  <2>1. CASE OnGrant(r)
    BY <1>3, <2>1, GrantAcquires DEF Callback, Lock!LockNext
  <2>2. CASE ~ OnGrant(r)
    BY <1>3, <2>2, CallbackPatrols
  <2> QED
    BY <2>1, <2>2
<1>4. ASSUME NEW r \in Robots, ThreadStep(r)
      PROVE  PatrolInv' /\ (~ Faults => [Lock!LockNext]_(Lock!lockVars))
  <2>1. PatrolInv' /\ (~ Faults => Locks(r))
    BY <1>4, ThreadPatrols
  <2>2. Locks(r) => [Lock!LockNext]_(Lock!lockVars)
    BY DEF Locks, Lock!LockNext
  <2> QED
    BY <2>1, <2>2
<1>5. CASE UNCHANGED vars
  <2>1. UNCHANGED << controlVars, commands >>
    BY <1>5 DEF vars, topics, commandTopics
  <2> QED
    BY <2>1, AllUntouched DEF Untouched, controlVars, orders, physical
<1> QED
  BY <1>1, <1>2, <1>3, <1>4, <1>5 DEF Next

LEMMA PatrolInvariance ==
  ASSUME PromptNetwork, NoDetourRoutes
  PROVE  Spec => [](TypeInv /\ CrossingInv /\ PatrolInv)
<1>1. TypeInv /\ CrossingInv /\ PatrolInv /\ [Next]_vars => PatrolInv'
  BY PatrolNext
<1> QED
  BY <1>1, PatrolInit, TypeInvariance, CrossingInvariance, PTL DEF Spec

-----------------------------------------------------------------------------
(* The theorems *)

\* However Nav2, the gate checks and the timeouts of the requests go, and
\* however often the zones are planned anew, two patrolling robots never drive
\* into the same shared point.
THEOREM NoTwoDrive ==
  ASSUME PromptNetwork, NoDetourRoutes
  PROVE  Spec => []NoTwoDriving
<1>1. CrossingInv /\ PatrolInv => NoTwoDriving
  <2> SUFFICES ASSUME CrossingInv, PatrolInv,
                      NEW r \in Robots, NEW s \in Robots,
                      Driving(r), Driving(s),
                      Target(r).point = Target(s).point
               PROVE  r = s
    BY DEF NoTwoDriving
  <2>1. granted[r] = Target(r).point /\ granted[s] = Target(s).point
    BY DEF Driving, PatrolInv, HoldsForTarget, OnTheWay, Wanted
  <2> QED
    BY <2>1 DEF Driving, CrossingInv, GrantRecorded
<1> QED
  BY <1>1, PatrolInvariance, PTL

\* A patrolling robot asks for a point with no other in its hands, so the
\* occupancy protocol cannot make robots wait for each other in a circle.
THEOREM AsksEmptyHanded ==
  ASSUME PromptNetwork, NoDetourRoutes
  PROVE  Spec => []NoHoldAndWait
<1>1. PatrolInv => NoHoldAndWait
  BY DEF PatrolInv, HoldsForTarget, Wanted, NoHoldAndWait
<1> QED
  BY <1>1, PatrolInvariance, PTL

\* As long as no mission is aborted by a failed move or gate check, the robots
\* that patrol are never on the same shared point, whatever the operator stops,
\* pauses and replans.
THEOREM Exclusion ==
  ASSUME PromptNetwork, NoDetourRoutes, ~ Faults
  PROVE  Spec => []MutualExclusion
<1>1. CrossingInv /\ PatrolInv => MutualExclusion
  BY DEF CrossingInv, GrantRecorded, PatrolInv, InsideHeld, MutualExclusion
<1> QED
  BY <1>1, PatrolInvariance, PTL

\* Under the same assumptions the occupancy protocol implements AisleLock.
THEOREM ImplementsAisleLock ==
  ASSUME PromptNetwork, NoDetourRoutes, ~ Faults
  PROVE  Spec => KeepsAisleLock
<1>1. Init => Lock!LockInit
  BY DEF Init, ControlInit, Lock!LockInit
<1>2. TypeInv /\ CrossingInv /\ PatrolInv /\ [Next]_vars
        => [Lock!LockNext]_(Lock!lockVars)
  BY PatrolNext
<1> QED
  BY <1>1, <1>2, PatrolInvariance, PTL DEF Spec, KeepsAisleLock, Lock!LockSpec

-----------------------------------------------------------------------------
(* No holder that never releases *)

\* A patrolling robot only ever releases the point it holds.
LEMMA ReleasesItsOwn ==
  ASSUME TypeInv, NEW r \in Robots, HeldWell(r), ThreadStep(r)
  PROVE  UNCHANGED << releases, granted >> \/ Release(r, granted[r])
<1> USE DEF topics, crossingTopics
<1>1. CASE Arrive(r)
  <2>1. pc[r] = "moving"
    BY <1>1 DEF Arrive, At
  <2>2. Target(r).point \in {NoPoint, granted[r]}
    BY <2>1 DEF HeldWell, HoldsForTarget, OnTheWay, Wanted
  <2> QED
    BY <1>1, <2>2 DEF Arrive, ReleaseOnArrival, Passed
<1>2. CASE \/ CrossingTimeout(r) \/ CollisionRisk(r) \/ NavFailed(r)
           \/ InspectGate(r) \/ DecideDock(r) \/ DecideResume(r) \/ DockEnds(r)
  BY <1>2
  DEF CrossingTimeout, CollisionRisk, NavFailed, InspectGate, DecideDock,
      DecideResume, DockEnds, Unresolved, ReleaseHeld
<1>3. CASE \/ StartMission(r) \/ EnsureUndocked(r) \/ UndockEnds(r)
           \/ MissionComplete(r) \/ NextPatrol(r) \/ Approach(r)
           \/ Republish(r) \/ CrossingGranted(r) \/ Drive(r) \/ Hold(r)
           \/ Divert(r) \/ StopEarly(r) \/ EndHold(r) \/ HoldAtAnomaly(r)
  BY <1>3
  DEF StartMission, EnsureUndocked, UndockEnds, MissionComplete, NextPatrol,
      Approach, Republish, CrossingGranted, Drive, Hold, Divert, StopEarly,
      EndHold, HoldAtAnomaly, controlVars
<1> QED
  BY <1>1, <1>2, <1>3 DEF ThreadStep

\* The record of a holder that holds the point, hears of it, or gave it back.
NotOrphan(p, r) ==
  occupied[p] = r =>
    \/ granted[r] = p
    \/ p \in Elements(grants[r])
    \/ p \in Elements(releases[r])

LEMMA ReleaseNotOrphan ==
  ASSUME TypeInv, NEW r \in Robots, Release(r, granted[r]),
         UNCHANGED << occupied, grants >>,
         NEW p \in Points, NEW s \in Robots, NotOrphan(p, s)
  PROVE  NotOrphan(p, s)'
<1>1. /\ releases \in [Robots -> Seq(Points)]
      /\ granted \in [Robots -> Points \cup {NoPoint}]
      /\ releases' = [releases EXCEPT ![r] = Append(@, granted[r])]
      /\ granted' = [granted EXCEPT ![r] = NoPoint]
  BY DEF TypeInv, TopicsType, DataType, Release, Put
<1>2. CASE s # r
  <2>1. releases'[s] = releases[s] /\ granted'[s] = granted[s]
    BY <1>1, <1>2
  <2> QED
    BY <2>1 DEF NotOrphan
<1>3. CASE s = r
  <2> DEFINE q == releases[r]
             given == granted[r]
  <2>1. q \in Seq(Points)
    BY <1>1
  <2>2. releases'[r] = Append(q, given)
    BY <1>1
  <2> HIDE DEF q, given
  <2>3. Elements(Append(q, given)) = Elements(q) \cup {given}
    <3>1. /\ Len(Append(q, given)) = Len(q) + 1
          /\ Len(q) \in Nat
          /\ Append(q, given)[Len(q) + 1] = given
          /\ \A i \in 1..Len(q) : Append(q, given)[i] = q[i]
      BY <2>1
    <3> QED
      BY <3>1 DEF Elements
  <2> QED
    BY <1>3, <2>2, <2>3 DEF NotOrphan, q, given
<1> QED
  BY <1>2, <1>3

\* The grant that arrives is about the point asked for, and nothing was held.
LEMMA GrantNotOrphan ==
  ASSUME TypeInv, CrossingInv, PatrolInv, NEW r \in Robots, OnGrant(r),
         UNCHANGED fleetVars,
         NEW p \in Points, NEW s \in Robots, NotOrphan(p, s)
  PROVE  NotOrphan(p, s)'
<1>1. /\ granted' = [granted EXCEPT ![r] = Head(grants[r])]
      /\ grants' = [grants EXCEPT ![r] = Tail(@)]
      /\ grants[r] # << >>
      /\ UNCHANGED << occupied, releases >>
  BY DEF OnGrant, Take, fleetVars
<1>2. granted \in [Robots -> Points \cup {NoPoint}]
      /\ grants \in [Robots -> Seq(Points)]
  BY DEF TypeInv, TopicsType, DataType
<1>3. CASE s # r
  BY <1>1, <1>2, <1>3 DEF NotOrphan
<1>4. CASE s = r
  <2>1. /\ pc[r] = "requesting"
        /\ granted[r] # Wanted(r)
        /\ grants[r] = << Wanted(r) >>
    BY <1>1 DEF CrossingInv, RequestFlow, Answered
  <2>2. granted[r] = NoPoint
    BY <2>1 DEF PatrolInv, HoldsForTarget
  <2>3. granted'[r] = Wanted(r) /\ Elements(grants[r]) = {Wanted(r)}
    BY <1>1, <1>2, <2>1 DEF Elements
  <2> QED
    BY <1>1, <1>4, <2>2, <2>3, NoneAssumption DEF NotOrphan
<1> QED
  BY <1>3, <1>4

\* A robot that is recorded is told so, and only its release frees the point.
LEMMA FleetNotOrphan ==
  ASSUME TypeInv, NEW r \in Robots, FleetStep(r),
         NEW p \in Points, NEW s \in Robots, NotOrphan(p, s)
  PROVE  NotOrphan(p, s)'
<1>0. granted' = granted
  BY DEF FleetStep, controlVars
<1>1. CASE OnRequest(r)
  <2> DEFINE asked == Head(requests[r])
             q == grants[r]
  <2>1. /\ grants \in [Robots -> Seq(Points)]
        /\ occupied \in [Points -> Robots \cup {NoRobot}]
        /\ q \in Seq(Points)
        /\ UNCHANGED releases
    BY <1>1 DEF OnRequest, TypeInv, TopicsType, FleetType
  <2>2. CASE /\ occupied' = [occupied EXCEPT ![asked] = r]
             /\ grants' = [grants EXCEPT ![r] = Append(@, asked)]
    <3>1. Elements(Append(q, asked)) = Elements(q) \cup {asked}
      <4> HIDE DEF q, asked
      <4>1. /\ Len(Append(q, asked)) = Len(q) + 1
            /\ Len(q) \in Nat
            /\ Append(q, asked)[Len(q) + 1] = asked
            /\ \A i \in 1..Len(q) : Append(q, asked)[i] = q[i]
        BY <2>1
      <4> QED
        BY <4>1 DEF Elements
    <3>2. /\ grants'[r] = Append(q, asked)
          /\ s # r => grants'[s] = grants[s]
          /\ occupied'[p] = IF p = asked THEN r ELSE occupied[p]
      BY <2>1, <2>2
    <3> HIDE DEF asked
    <3> QED
      BY <1>0, <2>1, <3>1, <3>2 DEF NotOrphan
  <2>3. CASE UNCHANGED << occupied, grants >>
    BY <1>0, <2>1, <2>3 DEF NotOrphan
  <2> QED
    BY <1>1, <2>2, <2>3 DEF OnRequest, SendGrant, Put
<1>2. CASE OnRelease(r)
  <2> DEFINE q == releases[r]
  <2>1. /\ releases \in [Robots -> Seq(Points)]
        /\ occupied \in [Points -> Robots \cup {NoRobot}]
        /\ q \in Seq(Points) /\ q # << >>
        /\ releases' = [releases EXCEPT ![r] = Tail(q)]
        /\ occupied' = [occupied EXCEPT ![Head(q)] = IF @ = r THEN NoRobot ELSE @]
        /\ UNCHANGED grants
    BY <1>2 DEF OnRelease, Take, TypeInv, TopicsType, FleetType
  <2> HIDE DEF q
  <2>2. Elements(q) \subseteq Elements(Tail(q)) \cup {Head(q)}
    <3>1. /\ Len(q) \in Nat \ {0}
          /\ Len(Tail(q)) = Len(q) - 1
          /\ Head(q) = q[1]
          /\ \A i \in 2..Len(q) : i - 1 \in 1..Len(Tail(q)) /\ Tail(q)[i - 1] = q[i]
      BY <2>1
    <3> QED
      BY <3>1 DEF Elements
  <2>3. CASE s # r
    <3>1. occupied'[p] = s => occupied[p] = s
      BY <2>1, NoneAssumption
    <3>2. releases'[s] = releases[s]
      BY <2>1, <2>3
    <3> QED
      BY <1>0, <2>1, <3>1, <3>2 DEF NotOrphan
  <2>4. CASE s = r
    <3>1. occupied'[p] = r => occupied[p] = r /\ p # Head(q)
      BY <2>1, NoneAssumption
    <3>2. releases'[r] = Tail(q)
      BY <2>1
    <3>3. p \in Elements(q) /\ p # Head(q) => p \in Elements(Tail(q))
      BY <2>2
    <3> QED
      BY <1>0, <2>1, <2>4, <3>1, <3>2, <3>3 DEF NotOrphan, q
  <2> QED
    BY <2>3, <2>4
<1>3. CASE OnAnomalyDone(r)
  BY <1>0, <1>3 DEF OnAnomalyDone, crossingTopics, NotOrphan
<1> QED
  BY <1>1, <1>2, <1>3 DEF FleetStep

LEMMA OrphanNext ==
  ASSUME TypeInv, CrossingInv, PatrolInv, NoOrphanHold, [Next]_vars
  PROVE  NoOrphanHold'
<1> SUFFICES ASSUME NEW p \in Points, NEW s \in Robots PROVE NotOrphan(p, s)'
  BY DEF NoOrphanHold, NotOrphan
<1>0. NotOrphan(p, s)
  BY DEF NoOrphanHold, NotOrphan
<1>1. CASE OperatorStep
  <2>1. UNCHANGED << occupied, grants, releases, granted >>
    BY <1>1
    DEF OperatorStep, StartPatrol, Operator, OnMapPoints, StopAllRobots,
        ReleaseAllRobots, OnDockReturn, OnAnomalyTrigger, RelayAnomalySignal,
        PublishDirect, controlVars, topics, crossingTopics, fleetVars
  <2> QED
    BY <1>0, <2>1 DEF NotOrphan
<1>2. ASSUME NEW r \in Robots, FleetStep(r) PROVE NotOrphan(p, s)'
  BY <1>0, <1>2, FleetNotOrphan
<1>3. ASSUME NEW r \in Robots, Callback(r) PROVE NotOrphan(p, s)'
  <2>1. CASE OnGrant(r)
    BY <1>0, <1>3, <2>1, GrantNotOrphan DEF Callback
  <2>2. CASE ~ OnGrant(r)
    <3>1. UNCHANGED << occupied, grants, releases, granted >>
      BY <1>3, <2>2
      DEF Callback, OnMission, OnAnomaly, OnDock, OnAnomalyResume,
          OnAnomalyCaptured, OnEmergencyStop, OnPause, OnRepatrol, Receive,
          topics, crossingTopics, fleetVars
    <3> QED
      BY <1>0, <3>1 DEF NotOrphan
  <2> QED
    BY <2>1, <2>2
<1>4. ASSUME NEW r \in Robots, ThreadStep(r) PROVE NotOrphan(p, s)'
  <2>1. UNCHANGED << occupied, grants >>
    <3>1. QuietStep(r) \/ Approach(r) \/ Republish(r)
      BY <1>4, ThreadQuiet
    <3> QED
      BY <1>4, <3>1 DEF ThreadStep, QuietStep, Approach, Republish, fleetVars
  <2>2. UNCHANGED << releases, granted >> \/ Release(r, granted[r])
    BY <1>4, ReleasesItsOwn DEF PatrolInv, HeldWell
  <2> QED
    BY <1>0, <2>1, <2>2, ReleaseNotOrphan DEF NotOrphan
<1>5. CASE UNCHANGED vars
  BY <1>0, <1>5
  DEF vars, topics, crossingTopics, fleetVars, controlVars, NotOrphan
<1> QED
  BY <1>1, <1>2, <1>3, <1>4, <1>5 DEF Next

\* While nothing diverts the patrols, the Fleet Node never records a holder that
\* will not release: the recorded robot holds the point, is being told so, or
\* its release is on the way.  No point is lost to the others.
THEOREM NoOrphans ==
  ASSUME PromptNetwork, NoDetourRoutes
  PROVE  Spec => []NoOrphanHold
<1>1. Init => NoOrphanHold
  BY NoneAssumption DEF Init, FleetInit, NoOrphanHold
<1>2. TypeInv /\ CrossingInv /\ PatrolInv /\ NoOrphanHold /\ [Next]_vars
        => NoOrphanHold'
  BY OrphanNext
<1> QED
  BY <1>1, <1>2, PatrolInvariance, PTL DEF Spec

-----------------------------------------------------------------------------
(***************************************************************************)
(* ANOMALIES: a dispatch is neither lost nor given twice, detours nested   *)
(* in detours included.                                                    *)
(***************************************************************************)

\* How many of the route loops answer an anomaly.
Anomalies(frames) == Cardinality({i \in 1..Len(frames) : frames[i].kind = "anomaly"})

\* A mission is never called by another loop, and what the thread does fits the
\* kind of its loop.  Only a mission may be past its last waypoint.
MissionAtBottom(frames) ==
  \A k \in 1..Len(frames) : frames[k].kind = "mission" => k = Len(frames)
KindFits(frame, label) ==
  /\ label \in {"anomaly_wait", "anomaly_hold"} => frame.kind = "anomaly"
  /\ label = "docking" => frame.kind = "dock"
  /\ label = "gate" => frame.kind = "mission"
  /\ label = "next_waypoint" /\ frame.kind # "mission" => frame.i <= Len(frame.route)
KindsOK(r) ==
  /\ MissionAtBottom(stack[r])
  /\ pc[r] \notin Idle => KindFits(Top(r), pc[r])

\* Every anomaly dispatched carries a route, so that the order shows.
DispatchesShow(r) == \A i \in 1..Len(commands[r].anomaly) : commands[r].anomaly[i] # NoRoute

\* What of the account is on the robot and its thread.
Local(r) ==
  (IF anomalyOrder[r] # NoRoute THEN 1 ELSE 0) + Anomalies(stack[r]) + dones[r]
AccountOK(r) ==
  Len(commands[r].anomaly) + Local(r) = IF r \in anomalyBusy THEN 1 ELSE 0

BusyInv == \A r \in Robots : KindsOK(r) /\ DispatchesShow(r) /\ AccountOK(r)

\* The loops answering an anomaly are as many as those of the callers, and one
\* more if the loop being executed is one.
LEMMA AnomaliesPopped ==
  ASSUME NEW s \in Seq(Frame)
  PROVE  /\ Anomalies(s) \in Nat
         /\ s = << >> => Anomalies(s) = 0
         /\ s # << >> =>
              Anomalies(s) = Anomalies(Tail(s))
                             + (IF Head(s).kind = "anomaly" THEN 1 ELSE 0)
<1> DEFINE Of(t) == {i \in 1..Len(t) : t[i].kind = "anomaly"}
<1>1. ASSUME NEW t \in Seq(Frame)
      PROVE  IsFiniteSet(Of(t)) /\ Cardinality(Of(t)) \in Nat
  <2>1. IsFiniteSet(1..Len(t))
    <3>1. Len(t) \in Int
      OBVIOUS
    <3> QED
      BY <3>1, FS_Interval
  <2>2. Of(t) \in SUBSET (1..Len(t))
    OBVIOUS
  <2>3. IsFiniteSet(Of(t))
    BY <2>1, <2>2, FS_Subset
  <2> QED
    BY <2>3, FS_CardinalityType
<1>2. s = << >> => Anomalies(s) = 0
  <2>1. s = << >> => Of(s) = {}
    OBVIOUS
  <2> QED
    BY <2>1, FS_EmptySet DEF Anomalies
<1>3. ASSUME s # << >>
      PROVE  Anomalies(s) = Anomalies(Tail(s))
                            + (IF Head(s).kind = "anomaly" THEN 1 ELSE 0)
  <2> DEFINE t == Tail(s)
             later == Of(s) \ {1}
             shift == [i \in Of(t) |-> i + 1]
  <2>1. /\ Len(s) \in Nat \ {0}
        /\ t \in Seq(Frame)
        /\ Len(t) = Len(s) - 1
        /\ Head(s) = s[1]
        /\ \A i \in 1..Len(t) : t[i] = s[i + 1]
    BY <1>3
  <2>2. shift \in Bijection(Of(t), later)
    <3>1. shift \in [Of(t) -> later]
      <4>1. ASSUME NEW i \in Of(t) PROVE i + 1 \in later
        BY <2>1, <4>1
      <4> QED
        BY <4>1
    <3>2. \A i, j \in Of(t) : shift[i] = shift[j] => i = j
      BY <2>1
    <3>3. ASSUME NEW k \in later PROVE \E i \in Of(t) : shift[i] = k
      <4>1. k \in 2..Len(s) /\ s[k].kind = "anomaly"
        BY <2>1
      <4>2. k - 1 \in 1..Len(t) /\ t[k - 1] = s[k]
        BY <2>1, <4>1
      <4>3. k - 1 \in Of(t)
        BY <4>1, <4>2
      <4>4. shift[k - 1] = k
        BY <4>1, <4>3
      <4> QED
        BY <4>3, <4>4
    <3> HIDE DEF shift, later, Of
    <3> QED
      BY <3>1, <3>2, <3>3, Fun_IsBij
  <2>3. IsFiniteSet(later) /\ Cardinality(later) = Cardinality(Of(t))
    <3>1. ExistsBijection(Of(t), later)
      BY <2>2 DEF ExistsBijection
    <3>2. IsFiniteSet(Of(t))
      BY <1>1, <2>1
    <3> HIDE DEF later, Of
    <3> QED
      BY <3>1, <3>2, FS_Bijection
  <2>4. CASE s[1].kind = "anomaly"
    <3>1. Of(s) = later \cup {1} /\ 1 \notin later
      BY <2>1, <2>4
    <3>2. Cardinality(later \cup {1}) = Cardinality(later) + 1
      <4> HIDE DEF later
      <4> QED
        BY <2>3, <3>1, FS_AddElement
    <3>3. /\ Anomalies(s) = Cardinality(Of(s))
          /\ Anomalies(Tail(s)) = Cardinality(Of(t))
      BY DEF Anomalies
    <3> HIDE DEF later, Of
    <3> QED
      BY <2>1, <2>3, <2>4, <3>1, <3>2, <3>3
  <2>5. CASE s[1].kind # "anomaly"
    <3>1. Of(s) = later
      BY <2>1, <2>5
    <3>2. Cardinality(Of(t)) \in Nat
      BY <1>1, <2>1
    <3>3. /\ Anomalies(s) = Cardinality(Of(s))
          /\ Anomalies(Tail(s)) = Cardinality(Of(t))
      BY DEF Anomalies
    <3> HIDE DEF later, Of
    <3> QED
      BY <2>1, <2>3, <2>5, <3>1, <3>2, <3>3
  <2> QED
    BY <2>4, <2>5
<1> QED
  BY <1>1, <1>2, <1>3 DEF Anomalies

\* Calling a route loop: a mission only from outside.
LEMMA KindsPushed ==
  ASSUME NEW s \in Seq(Frame), MissionAtBottom(s), NEW f \in Frame,
         f.kind = "mission" => s = << >>
  PROVE  /\ MissionAtBottom(<< f >> \o s)
         /\ Anomalies(<< f >> \o s) =
              Anomalies(s) + (IF f.kind = "anomaly" THEN 1 ELSE 0)
         /\ Head(<< f >> \o s) = f
<1>1. /\ << f >> \o s \in Seq(Frame)
      /\ << f >> \o s # << >>
      /\ Head(<< f >> \o s) = f
      /\ Tail(<< f >> \o s) = s
  BY Pushed
<1>2. Anomalies(<< f >> \o s) =
        Anomalies(s) + (IF f.kind = "anomaly" THEN 1 ELSE 0)
  BY <1>1, AnomaliesPopped
<1>3. MissionAtBottom(<< f >> \o s)
  <2> DEFINE t == << f >> \o s
  <2>1. /\ Len(s) \in Nat
        /\ Len(t) = Len(s) + 1
        /\ t[1] = f
        /\ \A k \in 2..Len(t) : k - 1 \in 1..Len(s) /\ t[k] = s[k - 1]
    OBVIOUS
  <2> HIDE DEF t
  <2>2. ASSUME NEW k \in 1..Len(t), t[k].kind = "mission" PROVE k = Len(t)
    <3>1. CASE k = 1
      <4>1. s = << >>
        BY <2>1, <2>2, <3>1
      <4> QED
        BY <2>1, <3>1, <4>1
    <3>2. CASE k \in 2..Len(t)
      BY <2>1, <2>2, <3>2 DEF MissionAtBottom
    <3> QED
      BY <2>1, <3>1, <3>2
  <2>3. MissionAtBottom(t)
    BY <2>2 DEF MissionAtBottom
  <2> QED
    BY <2>3 DEF t
<1> QED
  BY <1>1, <1>2, <1>3

\* Returning from one.  A loop above a mission is not the mission, and a
\* mission has no callers.
LEMMA KindsPopped ==
  ASSUME NEW s \in Seq(Frame), MissionAtBottom(s), s # << >>
  PROVE  /\ Tail(s) \in Seq(Frame)
         /\ MissionAtBottom(Tail(s))
         /\ Head(s).kind = "mission" => Tail(s) = << >> /\ Anomalies(s) = 0
         /\ Anomalies(s) = Anomalies(Tail(s))
                           + (IF Head(s).kind = "anomaly" THEN 1 ELSE 0)
<1> DEFINE t == Tail(s)
<1>1. /\ Len(s) \in Nat \ {0}
      /\ t \in Seq(Frame)
      /\ Len(t) = Len(s) - 1
      /\ Head(s) = s[1]
      /\ \A i \in 1..Len(t) : t[i] = s[i + 1]
  OBVIOUS
<1>2. Anomalies(s) = Anomalies(t)
                     + (IF Head(s).kind = "anomaly" THEN 1 ELSE 0)
  BY AnomaliesPopped
<1> HIDE DEF t
<1>3. MissionAtBottom(t)
  <2>1. ASSUME NEW k \in 1..Len(t), t[k].kind = "mission" PROVE k = Len(t)
    <3>1. k + 1 \in 1..Len(s) /\ s[k + 1].kind = "mission"
      BY <1>1, <2>1
    <3>2. k + 1 = Len(s)
      BY <3>1 DEF MissionAtBottom
    <3> QED
      BY <1>1, <2>1, <3>2
  <2> QED
    BY <2>1 DEF MissionAtBottom
<1>4. ASSUME Head(s).kind = "mission" PROVE t = << >> /\ Anomalies(s) = 0
  <2>1. 1 \in 1..Len(s) /\ s[1].kind = "mission"
    BY <1>1, <1>4
  <2>2. Len(s) = 1
    BY <2>1 DEF MissionAtBottom
  <2>3. t = << >>
    BY <1>1, <2>2
  <2>4. Anomalies(t) = 0
    BY <1>1, <2>3, AnomaliesPopped
  <2> QED
    BY <1>2, <1>4, <2>3, <2>4
<1> QED
  BY <1>1, <1>2, <1>3, <1>4 DEF t

-----------------------------------------------------------------------------
(* No step of a thread changes the account *)

LocalKept(r) == KindsOK(r)' /\ Local(r)' = Local(r)

LEMMA KindsAfter ==
  ASSUME TypeInv, NEW r \in Robots, NEW frames \in Seq(Frame), NEW label,
         SetStack(r, frames), Goto(r, label), MissionAtBottom(frames),
         label \notin Idle => KindFits(Head(frames), label)
  PROVE  KindsOK(r)' /\ stack'[r] = frames
<1>1. stack'[r] = frames /\ pc'[r] = label
  BY DEF TypeInv, FlowOK, SetStack, Goto
<1> QED
  BY <1>1 DEF KindsOK, Top

\* What the account needs of the types.
LEMMA LocalTypes ==
  ASSUME TypeInv, NEW r \in Robots
  PROVE  /\ stack[r] \in Seq(Frame)
         /\ dones \in [Robots -> Nat]
         /\ anomalyOrder \in [Robots -> Route]
         /\ dockOrder[r] \in Route
         /\ Anomalies(stack[r]) \in Nat
         /\ NoRoute \in Route
         /\ commands[r].anomaly \in Seq(Route)
         /\ Len(commands[r].anomaly) \in Nat
<1>1. stack[r] \in Seq(Frame)
  BY DEF TypeInv, FlowOK
<1>2. NoRoute \in Route
  BY DEF NoRoute, Route
<1>3. commands[r].anomaly \in Seq(Route)
  BY DEF TypeInv, TopicsType, Inbox
<1>4. Len(commands[r].anomaly) \in Nat
  BY <1>3
<1> QED
  BY <1>1, <1>2, <1>3, <1>4, AnomaliesPopped DEF TypeInv, TopicsType, DataType

\* A step on the same frame.
LEMMA LabelKeeps ==
  ASSUME TypeInv, NEW r \in Robots, KindsOK(r), pc[r] \notin Idle,
         UNCHANGED << stack, anomalyOrder, dones >>, NEW label,
         Goto(r, label), KindFits(Top(r), label)
  PROVE  LocalKept(r)
<1>1. pc'[r] = label
  BY DEF TypeInv, FlowOK, Goto
<1>2. KindsOK(r)'
  BY <1>1 DEF KindsOK, Top
<1> QED
  BY <1>2 DEF LocalKept, Local

\* A step of an idle thread.
LEMMA IdleKeeps ==
  ASSUME TypeInv, NEW r \in Robots, KindsOK(r),
         UNCHANGED << stack, anomalyOrder, dones >>, NEW label \in Idle,
         Goto(r, label)
  PROVE  LocalKept(r)
<1>1. pc'[r] = label
  BY DEF TypeInv, FlowOK, Goto
<1>2. KindsOK(r)'
  BY <1>1 DEF KindsOK
<1> QED
  BY <1>2 DEF LocalKept, Local

LEMMA BeginKeeps ==
  ASSUME TypeInv, NEW r \in Robots, pc[r] \in Idle, BeginMission(r),
         UNCHANGED << anomalyOrder, dones >>
  PROVE  LocalKept(r)
<1> DEFINE frame == [kind |-> "mission", route |-> mission[r], i |-> 1]
           frames == << frame >> \o stack[r]
<1>1. stack[r] = << >>
  BY FlowIdle DEF TypeInv
<1>2. frame \in Frame /\ frame.kind = "mission"
  BY DEF TypeInv, DataType, Frame
<1>3. MissionAtBottom(stack[r])
  BY <1>1 DEF MissionAtBottom
<1>4. SetStack(r, frames) /\ Goto(r, "next_waypoint")
  BY DEF BeginMission, Call
<1> HIDE DEF frame
<1>5. /\ MissionAtBottom(frames)
      /\ Anomalies(frames) = Anomalies(stack[r])
      /\ Head(frames) = frame
      /\ frames \in Seq(Frame)
  <2>1. stack[r] \in Seq(Frame) /\ Anomalies(stack[r]) \in Nat
    BY LocalTypes
  <2>2. /\ MissionAtBottom(frames)
        /\ Anomalies(frames) = Anomalies(stack[r]) + 0
        /\ Head(frames) = frame
    BY <1>1, <1>2, <1>3, <2>1, KindsPushed
  <2>3. frames \in Seq(Frame)
    BY <1>2, <2>1, Pushed
  <2> QED
    BY <2>1, <2>2, <2>3
<1>6. KindFits(frame, "next_waypoint")
  BY <1>2 DEF KindFits
<1>7. KindsOK(r)' /\ stack'[r] = frames
  BY <1>4, <1>5, <1>6, KindsAfter
<1> QED
  BY <1>5, <1>7 DEF LocalKept, Local

\* A detour is called by the loop it interrupts, its order being taken.
LEMMA DetourCalled ==
  ASSUME TypeInv, NEW r \in Robots, KindsOK(r),
         NEW kind \in {"anomaly", "dock"}, NEW route \in Route \ {NoRoute},
         Call(r, kind, route)
  PROVE  /\ KindsOK(r)'
         /\ Anomalies(stack'[r]) =
              Anomalies(stack[r]) + (IF kind = "anomaly" THEN 1 ELSE 0)
<1> DEFINE frame == [kind |-> kind, route |-> route, i |-> 1]
           frames == << frame >> \o stack[r]
<1>1. 1 <= Len(route)
  BY DEF Route, NoRoute
<1>2. frame \in Frame /\ frame.kind = kind /\ frame.i <= Len(frame.route)
  BY <1>1 DEF Frame
<1>3. MissionAtBottom(stack[r])
  BY DEF KindsOK
<1>4. SetStack(r, frames) /\ Goto(r, "next_waypoint")
  BY DEF Call
<1> HIDE DEF frame
<1>5. /\ MissionAtBottom(frames)
      /\ Anomalies(frames) =
           Anomalies(stack[r]) + (IF kind = "anomaly" THEN 1 ELSE 0)
      /\ Head(frames) = frame
      /\ frames \in Seq(Frame)
  BY <1>2, <1>3, KindsPushed, LocalTypes, Pushed
<1>6. KindFits(frame, "next_waypoint")
  BY <1>2 DEF KindFits
<1>7. KindsOK(r)' /\ stack'[r] = frames
  BY <1>4, <1>5, <1>6, KindsAfter
<1> QED
  BY <1>5, <1>7

\* A loop returns to its callers; reported, if it answered an anomaly.
LEMMA ReturnCounts ==
  ASSUME TypeInv, NEW r \in Robots, NEW callers \in Seq(Frame),
         MissionAtBottom(callers), ReturnTo(r, callers)
  PROVE  KindsOK(r)' /\ stack'[r] = callers
<1>1. CASE callers # << >> /\ Goto(r, "drive")
  BY <1>1, KindsAfter DEF ReturnTo, KindFits
<1>2. CASE callers = << >> /\ Goto(r, "wait_mission")
  BY <1>2, KindsAfter DEF ReturnTo, Idle
<1> QED
  BY <1>1, <1>2 DEF ReturnTo

LEMMA FailureKeeps ==
  ASSUME TypeInv, NEW r \in Robots, NEW s \in Seq(Frame), s # << >>,
         MissionAtBottom(s), Anomalies(s) = Anomalies(stack[r]),
         DetourFailed(r, Head(s), Tail(s)), UNCHANGED anomalyOrder
  PROVE  LocalKept(r)
<1>1. /\ Tail(s) \in Seq(Frame)
      /\ MissionAtBottom(Tail(s))
      /\ Anomalies(s) = Anomalies(Tail(s))
                        + (IF Head(s).kind = "anomaly" THEN 1 ELSE 0)
      /\ Anomalies(Tail(s)) \in Nat
  BY KindsPopped, AnomaliesPopped
<1>2. KindsOK(r)' /\ stack'[r] = Tail(s)
  BY <1>1, ReturnCounts DEF DetourFailed
<1>3. dones'[r] = dones[r] + (IF Head(s).kind = "anomaly" THEN 1 ELSE 0)
  BY LocalTypes DEF DetourFailed, PublishDone
<1>4. dones[r] \in Nat
  BY LocalTypes
<1> DEFINE one == IF Head(s).kind = "anomaly" THEN 1 ELSE 0
           pending == IF anomalyOrder[r] # NoRoute THEN 1 ELSE 0
<1>5. one \in Nat /\ pending \in Nat
  OBVIOUS
<1>6. Local(r) = pending + (Anomalies(Tail(s)) + one) + dones[r]
  BY <1>1 DEF Local
<1>7. Local(r)' = pending + Anomalies(Tail(s)) + (dones[r] + one)
  BY <1>2, <1>3 DEF Local
<1> HIDE DEF one, pending
<1>8. Local(r)' = Local(r)
  BY <1>1, <1>4, <1>5, <1>6, <1>7
<1> QED
  BY <1>2, <1>8 DEF LocalKept

\* A mission ends with nothing above it: no anomaly is lost.
LEMMA EndKeeps ==
  ASSUME TypeInv, NEW r \in Robots, Anomalies(stack[r]) = 0,
         NEW label \in Idle, MissionEnds(r, label),
         UNCHANGED << anomalyOrder, dones >>
  PROVE  LocalKept(r)
<1>1. /\ << >> \in Seq(Frame)
      /\ MissionAtBottom(<< >>)
      /\ SetStack(r, << >>)
      /\ Goto(r, label)
  BY DEF MissionEnds, MissionAtBottom
<1>2. Anomalies(<< >>) = 0
  BY <1>1, AnomaliesPopped
<1>3. KindsOK(r)' /\ stack'[r] = << >>
  BY <1>1, KindsAfter
<1> QED
  BY <1>2, <1>3 DEF LocalKept, Local

LEMMA UnresolvedKeeps ==
  ASSUME TypeInv, NEW r \in Robots, KindsOK(r), pc[r] \notin Idle,
         Unresolved(r), UNCHANGED anomalyOrder
  PROVE  LocalKept(r)
<1>1. /\ stack[r] \in Seq(Frame)
      /\ stack[r] # << >>
      /\ MissionAtBottom(stack[r])
  BY InLoop DEF TypeInv, KindsOK
<1>2. CASE Top(r).kind = "mission" /\ MissionEnds(r, "wait_mission")
           /\ UNCHANGED dones
  <2>1. Anomalies(stack[r]) = 0
    BY <1>1, <1>2, KindsPopped DEF Top
  <2> QED
    BY <1>2, <2>1, EndKeeps DEF Idle
<1>3. CASE DetourFailed(r, Top(r), Callers(r))
  BY <1>1, <1>3, FailureKeeps DEF Top, Callers
<1> QED
  BY <1>2, <1>3 DEF Unresolved

\* The waypoint after the one a loop has reached: a detour has one.
LEMMA AdvanceKeeps ==
  ASSUME TypeInv, NEW r \in Robots, KindsOK(r), pc[r] \notin Idle,
         Top(r).kind # "mission" =>
           ~ IsLast(r) /\ Top(r).i <= Len(Top(r).route),
         Advance(r), Goto(r, "next_waypoint"),
         UNCHANGED << anomalyOrder, dones >>
  PROVE  LocalKept(r)
<1> DEFINE frame == [Top(r) EXCEPT !.i = @ + 1]
           frames == << frame >> \o Callers(r)
<1>1. /\ stack[r] \in Seq(Frame)
      /\ stack[r] # << >>
      /\ MissionAtBottom(stack[r])
      /\ Top(r) \in Frame
  BY InLoop DEF TypeInv, KindsOK
<1>2. /\ Callers(r) \in Seq(Frame)
      /\ MissionAtBottom(Callers(r))
      /\ Top(r).kind = "mission" => Callers(r) = << >>
      /\ Anomalies(stack[r]) = Anomalies(Callers(r))
                               + (IF Top(r).kind = "anomaly" THEN 1 ELSE 0)
  BY <1>1, KindsPopped DEF Top, Callers
<1>3. /\ frame \in Frame
      /\ frame.kind = Top(r).kind
      /\ frame.route = Top(r).route
      /\ frame.i = Top(r).i + 1
  BY <1>1 DEF Frame
<1>4. KindFits(frame, "next_waypoint")
  <2>1. /\ Top(r).i \in Nat
        /\ Len(Top(r).route) \in Nat
    BY <1>1 DEF Frame, Route
  <2> QED
    BY <1>3, <2>1 DEF KindFits, IsLast
<1>5. SetStack(r, frames) /\ Goto(r, "next_waypoint")
  BY DEF Advance
<1> HIDE DEF frame
<1>6. /\ MissionAtBottom(frames)
      /\ Anomalies(frames) = Anomalies(Callers(r))
                             + (IF frame.kind = "anomaly" THEN 1 ELSE 0)
      /\ Head(frames) = frame
      /\ frames \in Seq(Frame)
  <2>1. frames \in Seq(Frame)
    BY <1>2, <1>3, Pushed
  <2> QED
    BY <1>2, <1>3, <2>1, KindsPushed
<1> HIDE DEF frames
<1>7. KindsOK(r)' /\ stack'[r] = frames
  BY <1>4, <1>5, <1>6, KindsAfter
<1> QED
  BY <1>2, <1>3, <1>6, <1>7 DEF LocalKept, Local

\* Taking an order moves the dispatch from the order to the stack.
LEMMA DivertKeeps ==
  ASSUME TypeInv, NEW r \in Robots, KindsOK(r), Divert(r)
  PROVE  LocalKept(r)
<1>1. /\ dones'[r] = dones[r]
      /\ dones[r] \in Nat
      /\ Anomalies(stack[r]) \in Nat
      /\ dockOrder[r] \in Route
      /\ anomalyOrder[r] \in Route
  BY LocalTypes DEF Divert, topics, commandTopics
<1>2. CASE dockOrder[r] # NoRoute /\ TakeDockOrder(r)
  <2>1. /\ KindsOK(r)'
        /\ Anomalies(stack'[r]) = Anomalies(stack[r]) + 0
    BY <1>1, <1>2, DetourCalled DEF TakeDockOrder
  <2>2. anomalyOrder'[r] = anomalyOrder[r]
    BY <1>2 DEF TakeDockOrder
  <2> QED
    BY <1>1, <2>1, <2>2 DEF LocalKept, Local
<1>3. CASE anomalyOrder[r] # NoRoute /\ TakeAnomalyOrder(r)
  <2>1. /\ KindsOK(r)'
        /\ Anomalies(stack'[r]) = Anomalies(stack[r]) + 1
    BY <1>1, <1>3, DetourCalled DEF TakeAnomalyOrder
  <2>2. anomalyOrder'[r] = NoRoute
    BY <1>3, LocalTypes DEF TakeAnomalyOrder
  <2> QED
    BY <1>1, <1>3, <2>1, <2>2 DEF LocalKept, Local
<1> QED
  BY <1>2, <1>3 DEF Divert

\* The decision ends the loop that answers the anomaly, and reports it.
LEMMA DecideKeeps ==
  ASSUME TypeInv, NEW r \in Robots, KindsOK(r), DecideDock(r) \/ DecideResume(r)
  PROVE  LocalKept(r)
<1>1. pc[r] = "anomaly_wait" /\ pc[r] \notin Idle
  BY DEF DecideDock, DecideResume, At, Idle
<1>2. /\ stack[r] \in Seq(Frame)
      /\ stack[r] # << >>
      /\ MissionAtBottom(stack[r])
  BY <1>1, InLoop DEF TypeInv, KindsOK
<1>3. Top(r).kind = "anomaly"
  BY <1>1 DEF KindsOK, KindFits
<1>4. /\ Callers(r) \in Seq(Frame)
      /\ MissionAtBottom(Callers(r))
      /\ Anomalies(stack[r]) = Anomalies(Callers(r)) + 1
      /\ Anomalies(Callers(r)) \in Nat
  BY <1>2, <1>3, KindsPopped, AnomaliesPopped DEF Top, Callers
<1>5. /\ dones'[r] = dones[r] + 1
      /\ dones[r] \in Nat
      /\ anomalyOrder'[r] = anomalyOrder[r]
  BY LocalTypes DEF DecideDock, DecideResume, PublishDone, orders
<1>6. KindsOK(r)' /\ Anomalies(stack'[r]) = Anomalies(Callers(r))
  <2>1. CASE DecideDock(r)
    <3> DEFINE frame == [kind |-> "dock", route |-> dockOrder[r], i |-> 1]
               frames == << frame >> \o Callers(r)
    <3>1. frame \in Frame /\ frame.kind = "dock" /\ frame.i <= Len(frame.route)
      <4>1. dockOrder[r] \in Route /\ dockOrder[r] # NoRoute
        BY <2>1, LocalTypes DEF DecideDock
      <4>2. 1 <= Len(dockOrder[r])
        BY <4>1 DEF Route, NoRoute
      <4> QED
        BY <4>1, <4>2 DEF Frame
    <3>2. SetStack(r, frames) /\ Goto(r, "next_waypoint")
      BY <2>1 DEF DecideDock
    <3> HIDE DEF frame
    <3>3. KindFits(frame, "next_waypoint")
      BY <3>1 DEF KindFits
    <3>4. /\ MissionAtBottom(frames)
          /\ Anomalies(frames) = Anomalies(Callers(r)) + 0
          /\ Head(frames) = frame
      BY <1>4, <3>1, KindsPushed
    <3>5. frames \in Seq(Frame)
      BY <1>4, <3>1, Pushed
    <3> HIDE DEF frames
    <3>6. KindsOK(r)' /\ stack'[r] = frames
      BY <3>2, <3>3, <3>4, <3>5, KindsAfter
    <3> QED
      BY <1>4, <3>4, <3>6
  <2>2. CASE DecideResume(r)
    <3>1. ReturnTo(r, Callers(r))
      BY <2>2 DEF DecideResume
    <3> QED
      BY <1>4, <3>1, ReturnCounts
  <2> QED
    BY <2>1, <2>2
<1> DEFINE pending == IF anomalyOrder[r] # NoRoute THEN 1 ELSE 0
<1>7. pending \in Nat
  OBVIOUS
<1>8. /\ Local(r) = pending + (Anomalies(Callers(r)) + 1) + dones[r]
      /\ Local(r)' = pending + Anomalies(Callers(r)) + (dones[r] + 1)
  BY <1>4, <1>5, <1>6 DEF Local
<1> HIDE DEF pending
<1> QED
  BY <1>4, <1>5, <1>6, <1>7, <1>8 DEF LocalKept

\* After docking the loop below the dock loop ends too: a mission is complete,
\* a detour has failed.
LEMMA DockKeeps ==
  ASSUME TypeInv, NEW r \in Robots, KindsOK(r), DockEnds(r)
  PROVE  LocalKept(r)
<1>1. pc[r] = "docking" /\ pc[r] \notin Idle /\ UNCHANGED anomalyOrder
  BY DEF DockEnds, At, Idle, orders
<1>2. /\ stack[r] \in Seq(Frame)
      /\ stack[r] # << >>
      /\ MissionAtBottom(stack[r])
  BY <1>1, InLoop DEF TypeInv, KindsOK
<1>3. Top(r).kind = "dock"
  BY <1>1 DEF KindsOK, KindFits
<1>4. /\ Callers(r) \in Seq(Frame)
      /\ MissionAtBottom(Callers(r))
      /\ Anomalies(stack[r]) = Anomalies(Callers(r)) + 0
      /\ Anomalies(Callers(r)) \in Nat
  BY <1>2, <1>3, KindsPopped, AnomaliesPopped DEF Top, Callers
<1>5. Anomalies(Callers(r)) = Anomalies(stack[r])
  BY <1>4
<1>6. CASE Callers(r) = << >> /\ ReturnTo(r, Callers(r)) /\ UNCHANGED dones
  <2>1. KindsOK(r)' /\ stack'[r] = Callers(r)
    BY <1>4, <1>6, ReturnCounts
  <2> QED
    BY <1>1, <1>5, <1>6, <2>1 DEF LocalKept, Local
<1>7. CASE /\ Callers(r) # << >>
           /\ Head(Callers(r)).kind = "mission"
           /\ MissionEnds(r, "patrol_wait")
           /\ UNCHANGED dones
  <2>1. Anomalies(stack[r]) = 0
    BY <1>4, <1>5, <1>7, KindsPopped
  <2> QED
    BY <1>1, <1>7, <2>1, EndKeeps DEF Idle
<1>8. CASE /\ Callers(r) # << >>
           /\ DetourFailed(r, Head(Callers(r)), Tail(Callers(r)))
  BY <1>1, <1>4, <1>5, <1>8, FailureKeeps
<1> QED
  BY <1>6, <1>7, <1>8 DEF DockEnds

LEMMA ThreadCounts ==
  ASSUME TypeInv, NEW r \in Robots, KindsOK(r), ThreadStep(r)
  PROVE  LocalKept(r)
<1> USE DEF At
<1>0. pc[r] \notin Idle => KindFits(Top(r), pc[r])
  BY DEF KindsOK
<1>1. CASE StartMission(r)
  <2>1. pc[r] \in Idle /\ UNCHANGED << anomalyOrder, dones >>
    BY <1>1 DEF StartMission, Idle, orders, topics, commandTopics
  <2>2. CASE BeginMission(r)
    BY <2>1, <2>2, BeginKeeps
  <2>3. CASE Goto(r, "undock") /\ UNCHANGED stack
    BY <2>1, <2>3, IdleKeeps DEF Idle
  <2> QED
    BY <1>1, <2>2, <2>3 DEF StartMission
<1>2. CASE EnsureUndocked(r) \/ UndockEnds(r)
  <2>1. pc[r] \in Idle /\ UNCHANGED << anomalyOrder, dones >>
    BY <1>2 DEF EnsureUndocked, UndockEnds, Idle, orders, topics, commandTopics
  <2>2. CASE BeginMission(r)
    BY <2>1, <2>2, BeginKeeps
  <2>3. CASE Goto(r, "undocking") /\ UNCHANGED stack
    BY <2>1, <2>3, IdleKeeps DEF Idle
  <2>4. CASE UndockFailed(r)
    <3>1. Anomalies(stack[r]) = 0
      <4>1. stack[r] = << >>
        BY <2>1, FlowIdle DEF TypeInv
      <4> QED
        BY <4>1, LocalTypes, AnomaliesPopped
    <3> QED
      BY <2>1, <2>4, <3>1, EndKeeps DEF UndockFailed, Idle
  <2> QED
    BY <1>2, <2>2, <2>3, <2>4 DEF EnsureUndocked, UndockEnds
<1>3. CASE MissionComplete(r)
  <2>1. /\ pc[r] = "next_waypoint"
        /\ pc[r] \notin Idle
        /\ Top(r).i > Len(Top(r).route)
        /\ MissionEnds(r, "patrol_wait")
        /\ UNCHANGED << anomalyOrder, dones >>
    BY <1>3 DEF MissionComplete, Idle, orders, topics, commandTopics
  <2>2. /\ stack[r] \in Seq(Frame)
        /\ stack[r] # << >>
        /\ Top(r) \in Frame
        /\ MissionAtBottom(stack[r])
    BY <2>1, InLoop DEF TypeInv, KindsOK
  <2>3. Top(r).i \in Nat /\ Len(Top(r).route) \in Nat
    BY <2>2 DEF Frame, Route
  <2>4. Top(r).kind = "mission"
    BY <1>0, <2>1, <2>3 DEF KindFits
  <2>5. Anomalies(stack[r]) = 0
    BY <2>2, <2>4, KindsPopped DEF Top
  <2> QED
    BY <2>1, <2>5, EndKeeps DEF Idle
<1>4. CASE NextPatrol(r)
  BY <1>4, IdleKeeps DEF NextPatrol, Idle, orders, topics, commandTopics
<1>5. CASE Approach(r)
  <2>1. /\ pc[r] \notin Idle
        /\ UNCHANGED << stack, anomalyOrder, dones >>
        /\ \E label \in {"drive", "requesting"} : Goto(r, label)
    BY <1>5 DEF Approach, Idle, orders, commandTopics
  <2> QED
    BY <2>1, LabelKeeps DEF KindFits
<1>6. CASE Republish(r)
  BY <1>6
  DEF Republish, controlVars, orders, commandTopics, LocalKept, Local, KindsOK,
      Top
<1>7. CASE CrossingGranted(r) \/ Drive(r) \/ Hold(r)
  <2>1. /\ pc[r] \notin Idle
        /\ UNCHANGED << stack, anomalyOrder, dones >>
        /\ \E label \in {"drive", "emergency_hold", "pause_hold", "moving"} :
             Goto(r, label)
    BY <1>7
    DEF CrossingGranted, Drive, Hold, Idle, orders, topics, commandTopics
  <2> QED
    BY <2>1, LabelKeeps DEF KindFits
<1>8. CASE CrossingTimeout(r)
  <2>1. pc[r] \notin Idle /\ UNCHANGED anomalyOrder
    BY <1>8 DEF CrossingTimeout, Idle, orders
  <2>2. CASE Unresolved(r)
    BY <2>1, <2>2, UnresolvedKeeps
  <2>3. CASE DetourFailed(r, Top(r), Callers(r))
    <3>1. /\ stack[r] \in Seq(Frame)
          /\ stack[r] # << >>
          /\ MissionAtBottom(stack[r])
      BY <2>1, InLoop DEF TypeInv, KindsOK
    <3> QED
      BY <2>1, <2>3, <3>1, FailureKeeps DEF Top, Callers
  <2> QED
    BY <1>8, <2>2, <2>3 DEF CrossingTimeout
<1>9. CASE CollisionRisk(r)
  BY <1>9, UnresolvedKeeps DEF CollisionRisk, Idle, orders
<1>10. CASE Divert(r)
  BY <1>10, DivertKeeps
<1>11. CASE StopEarly(r)
  <2>1. /\ pc[r] \notin Idle
        /\ UNCHANGED << stack, anomalyOrder, dones >>
        /\ Goto(r, "anomaly_wait")
        /\ Top(r).kind = "anomaly"
    BY <1>11
    DEF StopEarly, WaitForOperator, Idle, orders, topics, commandTopics
  <2> QED
    BY <2>1, LabelKeeps DEF KindFits
<1>12. CASE NavFailed(r)
  <2>1. pc[r] \notin Idle /\ UNCHANGED anomalyOrder
    BY <1>12 DEF NavFailed, Idle, orders
  <2>2. CASE Goto(r, "drive") /\ UNCHANGED << stack, dones >>
    BY <2>1, <2>2, LabelKeeps DEF KindFits
  <2>3. CASE Unresolved(r)
    BY <2>1, <2>3, UnresolvedKeeps
  <2> QED
    BY <1>12, <2>2, <2>3 DEF NavFailed
<1>13. CASE Arrive(r)
  <2>1. /\ pc[r] \notin Idle
        /\ pc[r] # "next_waypoint"
        /\ UNCHANGED << anomalyOrder, dones >>
    BY <1>13 DEF Arrive, Idle, orders, commandTopics
  <2>2. Top(r).i <= Len(Top(r).route)
    BY <2>1, InLoop DEF TypeInv
  <2>3. CASE \E label \in {"gate", "docking", "anomaly_wait"} :
               /\ Goto(r, label) /\ UNCHANGED stack
               /\ label = "gate" => Top(r).kind = "mission"
               /\ label = "docking" => Top(r).kind = "dock"
               /\ label = "anomaly_wait" => Top(r).kind = "anomaly"
    BY <2>1, <2>3, LabelKeeps DEF KindFits
  <2>4. CASE /\ Top(r).kind # "mission" => ~ IsLast(r)
             /\ Advance(r)
             /\ Goto(r, "next_waypoint")
    BY <2>1, <2>2, <2>4, AdvanceKeeps
  <2> QED
    BY <1>13, <2>3, <2>4 DEF Arrive
<1>14. CASE EndHold(r)
  <2>1. pc[r] \notin Idle /\ UNCHANGED << stack, anomalyOrder, dones >>
    BY <1>14 DEF EndHold, Idle, orders, topics, commandTopics
  <2>2. CASE Goto(r, "drive")
    BY <2>1, <2>2, LabelKeeps DEF KindFits
  <2>3. CASE pc[r] = "anomaly_hold" /\ Goto(r, "anomaly_wait")
    <3>1. KindFits(Top(r), "anomaly_wait")
      BY <1>0, <2>1, <2>3 DEF KindFits
    <3> QED
      BY <2>1, <2>3, <3>1, LabelKeeps
  <2> QED
    BY <1>14, <2>2, <2>3 DEF EndHold
<1>15. CASE InspectGate(r)
  <2>1. /\ pc[r] = "gate"
        /\ pc[r] \notin Idle
        /\ UNCHANGED anomalyOrder
    BY <1>15 DEF InspectGate, Idle, orders
  <2>2. Top(r).kind = "mission"
    BY <1>0, <2>1 DEF KindFits
  <2>3. CASE Advance(r) /\ Goto(r, "next_waypoint") /\ UNCHANGED dones
    BY <2>1, <2>2, <2>3, AdvanceKeeps
  <2>4. CASE Unresolved(r)
    BY <2>1, <2>4, UnresolvedKeeps
  <2> QED
    BY <1>15, <2>3, <2>4 DEF InspectGate
<1>16. CASE HoldAtAnomaly(r)
  <2>1. /\ pc[r] = "anomaly_wait"
        /\ pc[r] \notin Idle
        /\ UNCHANGED << stack, anomalyOrder, dones >>
        /\ Goto(r, "anomaly_hold")
    BY <1>16 DEF HoldAtAnomaly, Idle, orders, topics, commandTopics
  <2>2. KindFits(Top(r), "anomaly_hold")
    BY <1>0, <2>1 DEF KindFits
  <2> QED
    BY <2>1, <2>2, LabelKeeps
<1>17. CASE DecideDock(r) \/ DecideResume(r)
  BY <1>17, DecideKeeps
<1>18. CASE DockEnds(r)
  BY <1>18, DockKeeps
<1> QED
  BY <1>1, <1>2, <1>3, <1>4, <1>5, <1>6, <1>7, <1>8, <1>9, <1>10, <1>11,
     <1>12, <1>13, <1>14, <1>15, <1>16, <1>17, <1>18 DEF ThreadStep

-----------------------------------------------------------------------------
(* The dispatches of anomalies: the other steps *)

BusyOK(r) == KindsOK(r) /\ DispatchesShow(r) /\ AccountOK(r)

\* Nothing changed of what one robot's account is made of.
AccountKept(s) ==
  /\ pc'[s] = pc[s] /\ stack'[s] = stack[s]
  /\ anomalyOrder'[s] = anomalyOrder[s] /\ dones'[s] = dones[s]
  /\ commands'[s].anomaly = commands[s].anomaly
  /\ s \in anomalyBusy' <=> s \in anomalyBusy

LEMMA KeptBusy ==
  ASSUME NEW s \in Robots, BusyOK(s), AccountKept(s)
  PROVE  BusyOK(s)'
BY DEF BusyOK, AccountKept, KindsOK, Top, DispatchesShow, AccountOK, Local

LEMMA ThreadBusy ==
  ASSUME TypeInv, NEW r \in Robots, ThreadStep(r), NEW s \in Robots, BusyOK(s)
  PROVE  BusyOK(s)'
<1>1. UNCHANGED << commands, anomalyBusy >>
  BY DEF ThreadStep, StartMission, EnsureUndocked, UndockEnds,
         MissionComplete, NextPatrol, Approach, Republish, CrossingGranted,
         CrossingTimeout, Drive, Hold, CollisionRisk, Divert, StopEarly,
         NavFailed, Arrive, EndHold, InspectGate, HoldAtAnomaly, DecideDock,
         DecideResume, DockEnds, topics, commandTopics, fleetVars
<1>2. CASE s = r
  BY <1>1, <1>2, ThreadCounts
  DEF BusyOK, LocalKept, DispatchesShow, AccountOK
<1>3. CASE s # r
  <2>1. /\ pc'[s] = pc[s]
        /\ stack'[s] = stack[s]
    BY <1>3, ThreadElsewhere
  <2>2. \/ UNCHANGED dones
        \/ PublishDone(r)
    BY DEF ThreadStep, StartMission, EnsureUndocked, UndockEnds,
           MissionComplete, NextPatrol, Approach, Republish, CrossingGranted,
           CrossingTimeout, Drive, Hold, CollisionRisk, Divert, StopEarly,
           NavFailed, Arrive, EndHold, InspectGate, HoldAtAnomaly, DecideDock,
           DecideResume, DockEnds, topics, commandTopics, Unresolved,
           DetourFailed
  <2>3. \/ UNCHANGED anomalyOrder
        \/ anomalyOrder' = [anomalyOrder EXCEPT ![r] = NoRoute]
    BY DEF ThreadStep, StartMission, EnsureUndocked, UndockEnds,
           MissionComplete, NextPatrol, Approach, Republish, CrossingGranted,
           CrossingTimeout, Drive, Hold, CollisionRisk, Divert, StopEarly,
           NavFailed, Arrive, EndHold, InspectGate, HoldAtAnomaly, DecideDock,
           DecideResume, DockEnds, TakeDockOrder, TakeAnomalyOrder, orders,
           controlVars
  <2>4. dones'[s] = dones[s] /\ anomalyOrder'[s] = anomalyOrder[s]
    BY <1>3, <2>2, <2>3, LocalTypes DEF PublishDone
  <2> QED
    BY <1>1, <2>1, <2>4, KeptBusy DEF AccountKept
<1> QED
  BY <1>2, <1>3

\* A dispatch that arrives becomes the order: there was none, because the robot
\* was busy with this one only.
LEMMA OrderArrives ==
  ASSUME TypeInv, NEW r \in Robots, BusyOK(r), OnAnomaly(r),
         UNCHANGED anomalyBusy
  PROVE  BusyOK(r)'
<1> DEFINE q == commands[r].anomaly
<1>1. q \in Seq(Route) /\ q # << >>
  BY DEF TypeInv, TopicsType, Inbox, OnAnomaly, Receive
<1>2. /\ commands'[r].anomaly = Tail(q)
      /\ anomalyOrder'[r] = Head(q)
      /\ UNCHANGED << pc, stack, dones >>
  BY LocalTypes
  DEF TypeInv, TopicsType, Inbox, OnAnomaly, Receive, Arrived
<1>3. \A i \in 1..Len(q) : q[i] # NoRoute
  BY DEF BusyOK, DispatchesShow
<1> HIDE DEF q
<1>4. /\ Len(q) \in Nat \ {0}
      /\ Head(q) = q[1]
      /\ Tail(q) \in Seq(Route)
      /\ Len(Tail(q)) = Len(q) - 1
      /\ \A i \in 1..Len(Tail(q)) : Tail(q)[i] = q[i + 1]
  BY <1>1
<1>5. anomalyOrder'[r] # NoRoute
  BY <1>2, <1>3, <1>4
<1>6. DispatchesShow(r)'
  <2>1. ASSUME NEW i \in 1..Len(Tail(q)) PROVE Tail(q)[i] # NoRoute
    BY <1>3, <1>4, <2>1
  <2> QED
    BY <1>2, <2>1 DEF DispatchesShow
<1>7. AccountOK(r)'
  <2>1. /\ Anomalies(stack[r]) \in Nat
        /\ dones[r] \in Nat
    BY LocalTypes
  <2>2. Len(q) + Local(r) = IF r \in anomalyBusy THEN 1 ELSE 0
    BY DEF BusyOK, AccountOK, q
  <2>3. Local(r) = (IF anomalyOrder[r] # NoRoute THEN 1 ELSE 0)
                   + Anomalies(stack[r]) + dones[r]
    BY DEF Local
  <2>4. /\ Len(q) = 1
        /\ Anomalies(stack[r]) = 0
        /\ dones[r] = 0
        /\ r \in anomalyBusy
    BY <1>4, <2>1, <2>2, <2>3
  <2>5. Local(r)' = 1
    BY <1>2, <1>5, <2>4 DEF Local
  <2>6. Len(commands'[r].anomaly) = 0
    BY <1>2, <1>4, <2>4
  <2> QED
    BY <2>4, <2>5, <2>6 DEF AccountOK
<1>8. KindsOK(r)'
  BY <1>2 DEF BusyOK, KindsOK, Top
<1> QED
  BY <1>6, <1>7, <1>8 DEF BusyOK

LEMMA CallbackBusy ==
  ASSUME TypeInv, NEW r \in Robots, Callback(r), NEW s \in Robots, BusyOK(s)
  PROVE  BusyOK(s)'
<1>1. commands \in [Robots -> Inbox] /\ anomalyOrder \in [Robots -> Route]
  BY DEF TypeInv, DataType, TopicsType
<1>2. UNCHANGED anomalyBusy
  BY DEF Callback, fleetVars
<1>3. CASE OnAnomaly(r)
  <2>1. CASE s = r
    BY <1>2, <1>3, <2>1, OrderArrives
  <2>2. CASE s # r
    <3>1. AccountKept(s)
      BY <1>1, <1>2, <1>3, <2>2 DEF OnAnomaly, Receive, AccountKept
    <3> QED
      BY <3>1, KeptBusy
  <2> QED
    BY <2>1, <2>2
<1>4. CASE OnGrant(r) \/ OnMission(r, missions[r])
  BY <1>2, <1>4, KeptBusy
  DEF OnGrant, OnMission, commandTopics, topics, orders, AccountKept
<1>5. ASSUME NEW kind \in CommandKind \ {"anomaly"}, Receive(r, kind),
             UNCHANGED anomalyOrder
      PROVE  BusyOK(s)'
  <2>1. commands'[s].anomaly = commands[s].anomaly
    BY <1>1, <1>5 DEF Receive, Inbox, CommandKind
  <2> QED
    BY <1>2, <1>5, <2>1, KeptBusy DEF Receive, AccountKept
<1>6. CASE OnDock(r)
  BY <1>5, <1>6 DEF OnDock, CommandKind
<1>7. CASE \/ OnAnomalyResume(r) \/ OnAnomalyCaptured(r)
           \/ OnEmergencyStop(r) \/ OnPause(r) \/ OnRepatrol(r)
  BY <1>5, <1>7
  DEF OnAnomalyResume, OnAnomalyCaptured, OnEmergencyStop, OnPause, OnRepatrol,
      CommandKind, orders
<1> QED
  BY <1>3, <1>4, <1>6, <1>7 DEF Callback

\* A done report frees the robot for the next dispatch.
LEMMA FleetStepBusy ==
  ASSUME TypeInv, NEW r \in Robots, FleetStep(r), NEW s \in Robots, BusyOK(s)
  PROVE  BusyOK(s)'
<1>1. CASE OnRequest(r) \/ OnRelease(r)
  BY <1>1, KeptBusy
  DEF FleetStep, OnRequest, OnRelease, commandTopics, controlVars, orders,
      AccountKept
<1>2. CASE OnAnomalyDone(r)
  <2>1. /\ dones \in [Robots -> Nat]
        /\ dones[r] > 0
        /\ dones' = [dones EXCEPT ![r] = @ - 1]
        /\ anomalyBusy' = anomalyBusy \ {r}
        /\ UNCHANGED << commands, pc, stack, anomalyOrder >>
    BY <1>2, LocalTypes DEF FleetStep, OnAnomalyDone, controlVars, orders
  <2>2. CASE s # r
    BY <2>1, <2>2, KeptBusy DEF AccountKept
  <2>3. CASE s = r
    <3>1. /\ Anomalies(stack[r]) \in Nat
          /\ dones[r] \in Nat \ {0}
          /\ Len(commands[r].anomaly) \in Nat
      BY <2>1, LocalTypes
    <3>2. /\ Len(commands[r].anomaly) + Local(r) =
               IF r \in anomalyBusy THEN 1 ELSE 0
          /\ Local(r) = (IF anomalyOrder[r] # NoRoute THEN 1 ELSE 0)
                        + Anomalies(stack[r]) + dones[r]
      BY <2>3 DEF BusyOK, AccountOK, Local
    <3>3. /\ Len(commands[r].anomaly) = 0
          /\ anomalyOrder[r] = NoRoute
          /\ Anomalies(stack[r]) = 0
          /\ dones[r] = 1
      BY <3>1, <3>2
    <3>4. Local(r)' = 0
      <4>1. dones'[r] = 0
        BY <2>1, <3>3
      <4> QED
        BY <2>1, <3>3, <4>1 DEF Local
    <3>5. AccountOK(r)'
      BY <2>1, <3>3, <3>4 DEF AccountOK
    <3> QED
      BY <2>1, <2>3, <3>5 DEF BusyOK, KindsOK, Top, DispatchesShow
  <2> QED
    BY <2>2, <2>3
<1> QED
  BY <1>1, <1>2 DEF FleetStep

\* The Fleet Node dispatches only a robot that is not busy.
LEMMA TriggerBusy ==
  ASSUME TypeInv, NEW r \in Robots, NEW route \in AnomalyRoutes[r],
         OnAnomalyTrigger(r, route), UNCHANGED controlVars, BusyOK(r)
  PROVE  BusyOK(r)'
<1> DEFINE q == commands[r].anomaly
<1>1. q \in Seq(Route) /\ route \in Route /\ route # NoRoute
  BY RoutesAssumption DEF TypeInv, TopicsType, Inbox
<1>2. /\ commands'[r].anomaly = Append(q, route)
      /\ r \notin anomalyBusy
      /\ r \in anomalyBusy'
      /\ UNCHANGED << pc, stack, anomalyOrder, dones >>
  BY DEF OnAnomalyTrigger, Publish, TypeInv, TopicsType, Inbox, controlVars,
         orders
<1>3. Len(q) + Local(r) = 0
  BY <1>2 DEF BusyOK, AccountOK
<1>4. Local(r)' = Local(r)
  BY <1>2 DEF Local
<1>5. \A i \in 1..Len(q) : q[i] # NoRoute
  BY DEF BusyOK, DispatchesShow
<1> HIDE DEF q
<1>6. /\ Len(Append(q, route)) = Len(q) + 1
      /\ \A i \in 1..Len(Append(q, route)) :
           Append(q, route)[i] = IF i <= Len(q) THEN q[i] ELSE route
      /\ Len(q) \in Nat
  BY <1>1
<1>7. AccountOK(r)'
  <2>1. Local(r) \in Nat
    <3>1. Anomalies(stack[r]) \in Nat /\ dones[r] \in Nat
      BY LocalTypes
    <3> QED
      BY <3>1 DEF Local
  <2> QED
    BY <1>2, <1>3, <1>4, <1>6, <2>1 DEF AccountOK
<1>8. DispatchesShow(r)'
  <2>1. ASSUME NEW i \in 1..Len(Append(q, route))
        PROVE  Append(q, route)[i] # NoRoute
    BY <1>1, <1>5, <1>6, <2>1
  <2> QED
    BY <1>2, <2>1 DEF DispatchesShow
<1> QED
  BY <1>2, <1>7, <1>8 DEF BusyOK, KindsOK, Top

LEMMA OperatorBusy ==
  ASSUME TypeInv, OperatorStep, NEW s \in Robots, BusyOK(s)
  PROVE  BusyOK(s)'
<1>1. commands \in [Robots -> Inbox]
  BY DEF TypeInv, TopicsType
<1>2. UNCHANGED << pc, stack, anomalyOrder >>
  BY DEF OperatorStep, StartPatrol, Operator, controlVars, orders
<1>3. UNCHANGED dones
  BY DEF OperatorStep, StartPatrol, Operator, OnMapPoints, topics,
         StopAllRobots, ReleaseAllRobots, OnDockReturn, OnAnomalyTrigger,
         RelayAnomalySignal, PublishDirect
<1>4. ASSUME NEW r \in Robots, NEW route \in AnomalyRoutes[r],
             OnAnomalyTrigger(r, route), UNCHANGED controlVars
      PROVE  BusyOK(s)'
  <2>1. CASE s = r
    BY <1>4, <2>1, TriggerBusy
  <2>2. CASE s # r
    <3>1. /\ commands'[s] = commands[s]
          /\ s \in anomalyBusy' <=> s \in anomalyBusy
      BY <1>1, <1>4, <2>2 DEF OnAnomalyTrigger, Publish
    <3> QED
      BY <1>2, <1>3, <3>1, KeptBusy DEF AccountKept
  <2> QED
    BY <2>1, <2>2
<1>5. ASSUME commands'[s].anomaly = commands[s].anomaly, UNCHANGED anomalyBusy
      PROVE  BusyOK(s)'
  BY <1>2, <1>3, <1>5, KeptBusy DEF AccountKept
<1>6. CASE StartPatrol
  BY <1>5, <1>6 DEF StartPatrol, OnMapPoints, topics, commandTopics
<1>7. CASE StopAllRobots
  <2>1. commands'[s].anomaly = commands[s].anomaly
    BY <1>1, <1>7 DEF StopAllRobots, Inbox
  <2> QED
    BY <1>5, <1>7, <2>1 DEF StopAllRobots
<1>8. CASE ReleaseAllRobots
  <2>1. commands'[s].anomaly = commands[s].anomaly
    BY <1>1, <1>8 DEF ReleaseAllRobots, Inbox
  <2> QED
    BY <1>5, <1>8, <2>1 DEF ReleaseAllRobots
<1>9. ASSUME NEW requested \in SUBSET Robots, NEW routeOf,
             OnDockReturn(requested, routeOf)
      PROVE  BusyOK(s)'
  <2> DEFINE targets == DockTargets(requested)
  <2>1. commands'[s] =
          IF s \notin targets THEN commands[s]
          ELSE [commands[s] EXCEPT
                  !.dock = Append(@, routeOf[s]),
                  !.emergency_stop =
                    IF s \in emergencyStopped THEN Append(@, FALSE) ELSE @]
    BY <1>9 DEF OnDockReturn
  <2> HIDE DEF targets
  <2>2. commands'[s].anomaly = commands[s].anomaly
    BY <1>1, <2>1 DEF Inbox
  <2> QED
    BY <1>5, <1>9, <2>2 DEF OnDockReturn
<1>10. ASSUME NEW r \in Robots, NEW kind \in CommandKind \ {"anomaly"}, NEW m,
              Publish(r, kind, m), UNCHANGED anomalyBusy
       PROVE  BusyOK(s)'
  <2>1. commands'[s].anomaly = commands[s].anomaly
    BY <1>1, <1>10 DEF Publish, Inbox, CommandKind
  <2> QED
    BY <1>5, <1>10, <2>1
<1>11. ASSUME NEW r \in Robots, NEW kind, RelayAnomalySignal(r, kind)
       PROVE  BusyOK(s)'
  BY <1>10, <1>11 DEF RelayAnomalySignal, CommandKind, fleetVars
<1>12. ASSUME NEW r \in Robots, NEW kind \in CommandKind \ {"anomaly"}, NEW m,
              PublishDirect(r, kind, m)
       PROVE  BusyOK(s)'
  BY <1>10, <1>12 DEF PublishDirect, fleetVars
<1> QED
  BY <1>4, <1>6, <1>7, <1>8, <1>9, <1>11, <1>12
  DEF OperatorStep, Operator, CommandKind

LEMMA BusyInit == Init => \A s \in Robots : BusyOK(s)
<1> SUFFICES ASSUME Init, NEW s \in Robots PROVE BusyOK(s)
  OBVIOUS
<1> USE DEF Init, TopicsInit, FleetInit, ControlInit
<1>1. /\ stack[s] = << >>
      /\ pc[s] \in Idle
      /\ anomalyOrder[s] = NoRoute
      /\ dones[s] = 0
      /\ commands[s].anomaly = << >>
      /\ s \notin anomalyBusy
  BY DEF Idle, EmptyInbox
<1>2. Anomalies(stack[s]) = 0
  <2>1. stack[s] \in Seq(Frame)
    BY <1>1
  <2> QED
    BY <1>1, <2>1, AnomaliesPopped
<1>3. Local(s) = 0
  BY <1>1, <1>2 DEF Local
<1>4. Len(commands[s].anomaly) = 0
  BY <1>1
<1> QED
  BY <1>1, <1>3, <1>4
  DEF BusyOK, KindsOK, MissionAtBottom, DispatchesShow, AccountOK

LEMMA BusyNext ==
  TypeInv /\ (\A s \in Robots : BusyOK(s)) /\ [Next]_vars
    => (\A s \in Robots : BusyOK(s))'
<1> SUFFICES ASSUME TypeInv, \A s \in Robots : BusyOK(s), [Next]_vars,
                    NEW s \in Robots
             PROVE  BusyOK(s)'
  OBVIOUS
<1>1. CASE OperatorStep
  BY <1>1, OperatorBusy
<1>2. ASSUME NEW r \in Robots, FleetStep(r) PROVE BusyOK(s)'
  BY <1>2, FleetStepBusy
<1>3. ASSUME NEW r \in Robots, Callback(r) PROVE BusyOK(s)'
  BY <1>3, CallbackBusy
<1>4. ASSUME NEW r \in Robots, ThreadStep(r) PROVE BusyOK(s)'
  BY <1>4, ThreadBusy
<1>5. CASE UNCHANGED vars
  BY <1>5, KeptBusy
  DEF vars, topics, commandTopics, fleetVars, controlVars, orders, AccountKept
<1> QED
  BY <1>1, <1>2, <1>3, <1>4, <1>5 DEF Next

\* A robot is busy with an anomaly for the Fleet Node exactly as long as one
\* dispatch is on its way, pending, on the stack of route loops or reported
\* done: with any detours, stops and failures, none is lost and none is given
\* twice (_anomaly_busy, fleet_node.py:372).
THEOREM BusyIsAccounted == Spec => []BusyAccounted
<1>1. TypeInv /\ (\A s \in Robots : BusyOK(s)) => BusyAccounted
  <2> SUFFICES ASSUME TypeInv, NEW r \in Robots, BusyOK(r)
               PROVE  Dispatches(r) = IF r \in anomalyBusy THEN 1 ELSE 0
    BY DEF BusyAccounted
  <2> DEFINE pending == IF anomalyOrder[r] # NoRoute THEN 1 ELSE 0
             sent == Len(commands[r].anomaly)
             served == Anomalies(stack[r])
  <2>1. sent \in Nat /\ served \in Nat /\ dones[r] \in Nat /\ pending \in Nat
    BY LocalTypes
  <2>2. /\ Dispatches(r) = sent + pending + served + dones[r]
        /\ Local(r) = pending + served + dones[r]
        /\ sent + Local(r) = IF r \in anomalyBusy THEN 1 ELSE 0
    BY DEF Dispatches, Local, Anomalies, BusyOK, AccountOK
  <2> HIDE DEF pending, sent, served
  <2> QED
    BY <2>1, <2>2
<1> QED
  BY <1>1, TypeInvariance, BusyInit, BusyNext, PTL DEF Spec
-----------------------------------------------------------------------------
(* Numbers *)

\* A set of numbers has a least one.
LEMMA LeastOf ==
  ASSUME NEW I \in SUBSET Nat, I # {}
  PROVE  \E n \in I : \A m \in I : n <= m
<1> DEFINE less == OpToRel(<, Nat)
<1>1. IsWellFoundedOn(less, Nat)
  BY NatLessThanWellFounded, Zenon
<1>2. \A m, n \in Nat : m < n => <<m, n>> \in less
  BY DEF OpToRel
<1> HIDE DEF less
<1>3. PICK n \in I : \A m \in I : ~ (<<m, n>> \in less)
  BY <1>1, WFMin
<1>4. \A m \in I : m \in Nat /\ n \in Nat /\ ~ (m < n)
  BY <1>2, <1>3
<1> QED
  BY <1>4

\* Induction, with a set for what holds of a number.
LEMMA AllNumbers ==
  ASSUME NEW good, 0 \in good, \A n \in Nat : n \in good => n + 1 \in good
  PROVE  Nat \subseteq good
<1> DEFINE bad == Nat \ good
<1> SUFFICES ASSUME bad # {} PROVE FALSE
  OBVIOUS
<1>1. PICK n \in bad : \A m \in bad : n <= m
  BY LeastOf
<1>2. n - 1 \in Nat /\ n - 1 \in good /\ n = (n - 1) + 1
  BY <1>1
<1> QED
  BY <1>1, <1>2

-----------------------------------------------------------------------------
(* What recursive functions of the router are *)

\* The union-find after each hop.
Root(root, hops, both, resources) ==
  /\ DOMAIN root = 0 .. Len(hops)
  /\ root[0] = [x \in resources |-> x]
  /\ \A i \in 1 .. Len(hops) :
       root[i] = IF hops[i] \in both
                 THEN Router!Merge(root[i - 1], Router!X(hops[i]), Router!J(hops[i]))
                 ELSE root[i - 1]

\* MergedBy is the last of such root functions: there is one for hops of every length.
LEMMA RootExists ==
  ASSUME NEW S, NEW hops \in Seq(S), NEW both, NEW resources
  PROVE  \E root : /\ Root(root, hops, both, resources)
                   /\ Router!MergedBy(hops, both, resources) = root[Len(hops)]
<1> DEFINE Step(i, before) == IF hops[i] \in both
                              THEN Router!Merge(before, Router!X(hops[i]), Router!J(hops[i]))
                              ELSE before
           first == [x \in resources |-> x]
           Upto(n, f) == f = [i \in 0 .. n |-> IF i = 0 THEN first ELSE Step(i, f[i - 1])]
           good == {n \in Nat : \E f : Upto(n, f)}
<1>1. Nat \subseteq good
  <2>1. 0 \in good
    <3> HIDE DEF Step, first
    <3>1. Upto(0, [i \in 0 .. 0 |-> first])
      OBVIOUS
    <3> QED
      BY <3>1
  <2>2. ASSUME NEW n \in Nat, n \in good PROVE n + 1 \in good
    <3>1. PICK f : Upto(n, f)
      BY <2>2
    <3> DEFINE g == [i \in 0 .. n + 1 |-> IF i <= n THEN f[i] ELSE Step(n + 1, f[n])]
    <3> HIDE DEF Step, first
    <3>2. \A i \in 0 .. n : f[i] = IF i = 0 THEN first ELSE Step(i, f[i - 1])
      BY <3>1
    <3>3. \A i \in 0 .. n + 1 : g[i] = IF i = 0 THEN first ELSE Step(i, g[i - 1])
      <4> SUFFICES ASSUME NEW i \in 0 .. n + 1
                   PROVE  g[i] = IF i = 0 THEN first ELSE Step(i, g[i - 1])
        OBVIOUS
      <4>1. CASE i = n + 1
        BY <4>1
      <4>2. CASE i <= n
        BY <3>2, <4>2
      <4> QED
        BY <4>1, <4>2
    <3>4. Upto(n + 1, g)
      <4>1. g = [i \in 0 .. n + 1 |-> g[i]]
        OBVIOUS
      <4> HIDE DEF g
      <4> QED
        BY <4>1, <3>3
    <3> HIDE DEF Upto
    <3> QED
      BY <3>4
  <2> HIDE DEF good
  <2> QED
    BY <2>1, <2>2, AllNumbers
<1>2. Router!MergedBy(hops, both, resources) = (CHOOSE f : Upto(Len(hops), f))[Len(hops)]
  BY DEF Router!MergedBy
<1>3. PICK f : f = (CHOOSE g : Upto(Len(hops), g)) /\ Upto(Len(hops), f)
  <2> HIDE DEF Upto
  <2>1. Len(hops) \in good
    BY <1>1
  <2> QED
    BY <2>1
<1>4. Root(f, hops, both, resources)
  <2> HIDE DEF Step, first
  <2>1. DOMAIN f = 0 .. Len(hops) /\ Len(hops) \in Nat
    BY <1>3
  <2>2. \A i \in 0 .. Len(hops) : f[i] = IF i = 0 THEN first ELSE Step(i, f[i - 1])
    BY <1>3, <2>1
  <2>3. f[0] = first /\ \A i \in 1 .. Len(hops) : f[i] = Step(i, f[i - 1])
    BY <2>1, <2>2
  <2> QED
    BY <2>1, <2>3 DEF Root, Step, first
<1> QED
  BY <1>2, <1>3, <1>4

\* Every hop that needs both finds the two merged in the end.
LEMMA MergedTogether ==
  ASSUME NEW S, NEW hops \in Seq(S), NEW both, NEW resources,
         \A h \in both : Router!X(h) \in resources /\ Router!J(h) \in resources
  PROVE  LET merged == Router!MergedBy(hops, both, resources)
         IN  /\ merged \in [resources -> resources]
             /\ \A i \in DOMAIN hops :
                  hops[i] \in both => merged[Router!X(hops[i])] = merged[Router!J(hops[i])]
<1>1. PICK root : /\ Root(root, hops, both, resources)
                  /\ Router!MergedBy(hops, both, resources) = root[Len(hops)]
  BY RootExists
<1> DEFINE Together(n) ==
             \A i \in 1 .. n : hops[i] \in both => root[n][Router!X(hops[i])] = root[n][Router!J(hops[i])]
           good == {n \in Nat : n <= Len(hops) => root[n] \in [resources -> resources] /\ Together(n)}
<1>2. Nat \subseteq good
  <2>1. 0 \in good
    <3>1. root[0] \in [resources -> resources]
      BY <1>1 DEF Root
    <3>2. \A i \in 1 .. 0 : FALSE
      OBVIOUS
    <3> QED
      BY <3>1, <3>2
  <2>2. ASSUME NEW n \in Nat, n \in good PROVE n + 1 \in good
    <3> SUFFICES ASSUME n + 1 <= Len(hops)
                 PROVE  root[n + 1] \in [resources -> resources] /\ Together(n + 1)
      OBVIOUS
    <3>1. root[n] \in [resources -> resources] /\ Together(n)
      BY <2>2
    <3>2. root[n + 1] = IF hops[n + 1] \in both
                        THEN Router!Merge(root[n], Router!X(hops[n + 1]), Router!J(hops[n + 1]))
                        ELSE root[n]
      BY <1>1 DEF Root
    <3>3. CASE hops[n + 1] \in both
      <4> DEFINE a == Router!X(hops[n + 1])
                 b == Router!J(hops[n + 1])
      <4>1. a \in resources /\ b \in resources
        BY <3>3
      <4>2. root[n + 1] = Router!Merge(root[n], a, b)
        BY <3>2, <3>3
      <4>3. /\ root[n + 1] \in [resources -> resources]
            /\ root[n + 1][a] = root[n + 1][b]
            /\ \A x, y \in resources : root[n][x] = root[n][y] => root[n + 1][x] = root[n + 1][y]
        <5> DEFINE before == root[n]
                   after  == root[n + 1]
        <5>1. before \in [resources -> resources] /\ after = Router!Merge(before, a, b)
          BY <3>1, <4>2
        <5> HIDE DEF a, b, before, after
        <5>2. /\ after \in [resources -> resources]
              /\ after[a] = after[b]
              /\ \A x, y \in resources : before[x] = before[y] => after[x] = after[y]
          BY <4>1, <5>1 DEF Router!Merge
        <5> QED
          BY <5>2 DEF before, after
      <4> HIDE DEF a, b
      <4>4. ASSUME NEW i \in 1 .. n + 1, hops[i] \in both
            PROVE  root[n + 1][Router!X(hops[i])] = root[n + 1][Router!J(hops[i])]
        <5>1. CASE i = n + 1
          <6>1. Router!X(hops[i]) = a /\ Router!J(hops[i]) = b
            BY <5>1 DEF a, b
          <6> QED
            BY <4>3, <6>1
        <5>2. CASE i # n + 1
          <6>1. i \in 1 .. n
            BY <5>2
          <6>2. root[n][Router!X(hops[i])] = root[n][Router!J(hops[i])]
            BY <3>1, <4>4, <6>1
          <6>3. Router!X(hops[i]) \in resources /\ Router!J(hops[i]) \in resources
            BY <4>4
          <6> QED
            BY <4>3, <6>2, <6>3
        <5> QED
          BY <5>1, <5>2
      <4> QED
        BY <4>3, <4>4
    <3>4. CASE hops[n + 1] \notin both
      BY <3>1, <3>2, <3>4
    <3> QED
      BY <3>3, <3>4
  <2> HIDE DEF good
  <2> QED
    BY <2>1, <2>2, AllNumbers
<1>3. Len(hops) \in good /\ DOMAIN hops = 1 .. Len(hops)
  BY <1>2
<1> QED
  BY <1>1, <1>3

\* Sequences one after the other, joined one by one.
LEMMA JoinedExists ==
  ASSUME NEW seqs, Len(seqs) \in Nat
  PROVE  \E f : /\ f[0] = << >> /\ \A i \in 1 .. Len(seqs) : f[i] = f[i - 1] \o seqs[i]
                /\ Router!Joined(seqs) = f[Len(seqs)]
<1> DEFINE Upto(n, f) == f = [i \in 0 .. n |-> IF i = 0 THEN << >> ELSE f[i - 1] \o seqs[i]]
           good == {n \in Nat : \E f : Upto(n, f)}
<1>1. Nat \subseteq good
  <2>1. 0 \in good
    <3>1. Upto(0, [i \in 0 .. 0 |-> << >>])
      OBVIOUS
    <3> QED
      BY <3>1
  <2>2. ASSUME NEW n \in Nat, n \in good PROVE n + 1 \in good
    <3>1. PICK f : Upto(n, f)
      BY <2>2
    <3> DEFINE g == [i \in 0 .. n + 1 |-> IF i <= n THEN f[i] ELSE f[n] \o seqs[n + 1]]
    <3>2. \A i \in 0 .. n : f[i] = IF i = 0 THEN << >> ELSE f[i - 1] \o seqs[i]
      BY <3>1
    <3>3. \A i \in 0 .. n + 1 : g[i] = IF i = 0 THEN << >> ELSE g[i - 1] \o seqs[i]
      <4> SUFFICES ASSUME NEW i \in 0 .. n + 1
                   PROVE  g[i] = IF i = 0 THEN << >> ELSE g[i - 1] \o seqs[i]
        OBVIOUS
      <4>1. CASE i = n + 1
        BY <4>1
      <4>2. CASE i <= n
        BY <3>2, <4>2
      <4> QED
        BY <4>1, <4>2
    <3>4. Upto(n + 1, g)
      <4>1. g = [i \in 0 .. n + 1 |-> g[i]]
        OBVIOUS
      <4> HIDE DEF g
      <4> QED
        BY <4>1, <3>3
    <3> HIDE DEF Upto
    <3> QED
      BY <3>4
  <2> HIDE DEF good
  <2> QED
    BY <2>1, <2>2, AllNumbers
<1>2. PICK f : f = (CHOOSE g : Upto(Len(seqs), g)) /\ Upto(Len(seqs), f)
  <2> HIDE DEF Upto
  <2>1. Len(seqs) \in good
    BY <1>1
  <2> QED
    BY <2>1
<1>3. Router!Joined(seqs) = f[Len(seqs)]
  BY <1>2 DEF Router!Joined
<1>4. f[0] = << >> /\ \A i \in 1 .. Len(seqs) : f[i] = f[i - 1] \o seqs[i]
  <2>1. \A i \in 0 .. Len(seqs) : f[i] = IF i = 0 THEN << >> ELSE f[i - 1] \o seqs[i]
    BY <1>2
  <2>3. f[0] = << >>
    BY <2>1
  <2>4. ASSUME NEW i \in 1 .. Len(seqs) PROVE f[i] = f[i - 1] \o seqs[i]
    <3>1. i \in 0 .. Len(seqs) /\ i # 0
      OBVIOUS
    <3> QED
      BY <2>1, <3>1
  <2> QED
    BY <2>3, <2>4
<1> QED
  BY <1>3, <1>4

\* Sequences one after the other hold what each of them holds.
LEMMA JoinedHolds ==
  ASSUME NEW S, NEW seqs \in Seq(Seq(S))
  PROVE  LET joined == Router!Joined(seqs)
         IN  /\ joined \in Seq(S)
             /\ \A i \in DOMAIN seqs : Router!ToSet(seqs[i]) \subseteq Router!ToSet(joined)
<1>0. Len(seqs) \in Nat
  OBVIOUS
<1>1. PICK f : /\ f[0] = << >> /\ \A i \in 1 .. Len(seqs) : f[i] = f[i - 1] \o seqs[i]
               /\ Router!Joined(seqs) = f[Len(seqs)]
  BY <1>0, JoinedExists
<1>3. Router!Joined(seqs) = f[Len(seqs)]
  BY <1>1
<1>4. f[0] = << >> /\ \A i \in 1 .. Len(seqs) : f[i] = f[i - 1] \o seqs[i]
  BY <1>1
<1> DEFINE held == {n \in Nat : n <= Len(seqs) =>
                     f[n] \in Seq(S) /\ \A i \in 1 .. n : Router!ToSet(seqs[i]) \subseteq Router!ToSet(f[n])}
<1>5. Nat \subseteq held
  <2>1. 0 \in held
    <3>1. f[0] \in Seq(S)
      BY <1>4
    <3>2. \A i \in 1 .. 0 : FALSE
      OBVIOUS
    <3> QED
      BY <3>1, <3>2
  <2>2. ASSUME NEW n \in Nat, n \in held PROVE n + 1 \in held
    <3> SUFFICES ASSUME n + 1 <= Len(seqs)
                 PROVE  /\ f[n + 1] \in Seq(S)
                        /\ \A i \in 1 .. n + 1 : Router!ToSet(seqs[i]) \subseteq Router!ToSet(f[n + 1])
      OBVIOUS
    <3>1. f[n] \in Seq(S) /\ \A i \in 1 .. n : Router!ToSet(seqs[i]) \subseteq Router!ToSet(f[n])
      BY <2>2
    <3>2. f[n + 1] = f[n] \o seqs[n + 1] /\ seqs[n + 1] \in Seq(S)
      <4>1. n + 1 \in 1 .. Len(seqs) /\ (n + 1) - 1 = n
        OBVIOUS
      <4>2. seqs[n + 1] \in Seq(S)
        BY <4>1
      <4> QED
        BY <1>4, <4>1, <4>2
    <3>3. /\ f[n] \o seqs[n + 1] \in Seq(S)
          /\ Router!ToSet(f[n]) \subseteq Router!ToSet(f[n] \o seqs[n + 1])
          /\ Router!ToSet(seqs[n + 1]) \subseteq Router!ToSet(f[n] \o seqs[n + 1])
      <4> DEFINE s == f[n]
                 t == seqs[n + 1]
      <4>1. s \in Seq(S) /\ t \in Seq(S)
        BY <3>1, <3>2
      <4> HIDE DEF s, t
      <4>2. /\ s \o t \in Seq(S) /\ DOMAIN (s \o t) = 1 .. Len(s) + Len(t)
            /\ \A i \in 1 .. Len(s) : (s \o t)[i] = s[i]
            /\ \A i \in 1 .. Len(t) : (s \o t)[Len(s) + i] = t[i]
        BY <4>1
      <4>3. DOMAIN s = 1 .. Len(s) /\ DOMAIN t = 1 .. Len(t) /\ Len(s) \in Nat /\ Len(t) \in Nat
        BY <4>1
      <4>4. Router!ToSet(s) \subseteq Router!ToSet(s \o t)
        <5> SUFFICES ASSUME NEW i \in 1 .. Len(s) PROVE \E j \in DOMAIN (s \o t) : (s \o t)[j] = s[i]
          BY <4>3 DEF Router!ToSet
        <5>1. i \in DOMAIN (s \o t)
          BY <4>2, <4>3
        <5> QED
          BY <4>2, <5>1
      <4>5. Router!ToSet(t) \subseteq Router!ToSet(s \o t)
        <5> SUFFICES ASSUME NEW i \in 1 .. Len(t) PROVE \E j \in DOMAIN (s \o t) : (s \o t)[j] = t[i]
          BY <4>3 DEF Router!ToSet
        <5>1. Len(s) + i \in DOMAIN (s \o t)
          BY <4>2, <4>3
        <5> QED
          BY <4>2, <5>1
      <4> QED
        BY <4>2, <4>4, <4>5 DEF s, t
    <3>4. ASSUME NEW i \in 1 .. n + 1 PROVE Router!ToSet(seqs[i]) \subseteq Router!ToSet(f[n + 1])
      <4>1. CASE i = n + 1
        BY <3>2, <3>3, <4>1
      <4>2. CASE i # n + 1
        <5>1. i \in 1 .. n
          BY <4>2
        <5> QED
          BY <3>1, <3>2, <3>3, <5>1
      <4> QED
        BY <4>1, <4>2
    <3> QED
      BY <3>2, <3>3, <3>4
  <2> HIDE DEF held
  <2> QED
    BY <2>1, <2>2, AllNumbers
<1>6. Len(seqs) \in Nat /\ DOMAIN seqs = 1 .. Len(seqs)
  OBVIOUS
<1>7. /\ f[Len(seqs)] \in Seq(S)
      /\ \A i \in 1 .. Len(seqs) : Router!ToSet(seqs[i]) \subseteq Router!ToSet(f[Len(seqs)])
  <2>1. Len(seqs) \in held
    <3> HIDE DEF held
    <3> QED
      BY <1>5, <1>6
  <2>2. Len(seqs) <= Len(seqs)
    BY <1>6
  <2> QED
    BY <2>1, <2>2
<1> HIDE DEF held
<1>8. /\ Router!Joined(seqs) \in Seq(S)
      /\ \A i \in DOMAIN seqs : Router!ToSet(seqs[i]) \subseteq Router!ToSet(Router!Joined(seqs))
  BY <1>3, <1>6, <1>7
<1> QED
  BY <1>8

-----------------------------------------------------------------------------
(* Shortest ways *)

\* The router counts as everybody does.
LEMMA SameCardinality == \A S : Router!Cardinality(S) = Cardinality(S)
BY DEF Router!Cardinality, Cardinality

\* The places of a split graph, and its parts.
Spots(parts) == {h.from : h \in parts}
Split(parts) ==
  /\ parts \subseteq [from : Spots(parts), to : Spots(parts), base : Router!Corridors, length : Nat \ {0}]

\* A way: where it leads, how long it is and its hops.
Ways(parts) == [place : Spots(parts), length : Nat, hops : Seq([to : Spots(parts), edge : Router!Corridors])]

\* The place after i hops, and a way whose hops are parts one after the other.
Stage(start, hops, i) == IF i = 0 THEN start ELSE hops[i].to
Stretch(parts, from, hop, length) ==
  \E h \in parts : h.from = from /\ h.to = hop.to /\ h.base = hop.edge /\ h.length = length
Measures(parts, start, hops, miles) ==
  /\ miles \in [0 .. Len(hops) -> Nat]
  /\ miles[0] = 0
  /\ \A i \in 1 .. Len(hops) :
       \E d \in Nat : miles[i] = miles[i - 1] + d /\ Stretch(parts, Stage(start, hops, i - 1), hops[i], d)
Leads(parts, start, w) ==
  /\ w.place = Stage(start, w.hops, Len(w.hops))
  /\ \E miles : Measures(parts, start, w.hops, miles) /\ miles[Len(w.hops)] = w.length

\* A way and the part it goes on by.
Onto(u, h) == [place |-> h.to, length |-> u.length + h.length, hops |-> Append(u.hops, [to |-> h.to, edge |-> h.base])]

\* The ways on from a place go by its parts.
LEMMA WaysOnAre ==
  ASSUME NEW parts, NEW u, NEW w
  PROVE  w \in Router!WaysOn(parts, u) <=> \E h \in parts : h.from = u.place /\ w = Onto(u, h)
BY DEF Router!WaysOn, Onto

\* A way that goes on by a part is a way.
LEMMA GoesOn ==
  ASSUME NEW parts, Split(parts), NEW start, NEW u \in Ways(parts), Leads(parts, start, u),
         NEW h \in parts, h.from = u.place
  PROVE  Onto(u, h) \in Ways(parts) /\ Leads(parts, start, Onto(u, h))
<1> DEFINE S == [to : Spots(parts), edge : Router!Corridors]
           e == [to |-> h.to, edge |-> h.base]
           n == Len(u.hops)
           hops == Append(u.hops, e)
           w == Onto(u, h)
<1>1. h \in [from : Spots(parts), to : Spots(parts), base : Router!Corridors, length : Nat \ {0}]
  BY DEF Split
<1>2. u.hops \in Seq(S) /\ u.length \in Nat /\ n \in Nat /\ e \in S
  BY <1>1 DEF Ways
<1>3. hops \in Seq(S) /\ Len(hops) = n + 1 /\ hops[n + 1] = e /\ \A i \in 1 .. n : hops[i] = u.hops[i]
  <2> HIDE DEF S, e
  <2> QED
    BY <1>2
<1>4. w.place = h.to /\ w.length = u.length + h.length /\ w.hops = hops
  BY DEF Onto
<1>5. w \in Ways(parts)
  BY <1>1, <1>2, <1>3 DEF Onto, Ways
<1>6. PICK miles : Measures(parts, start, u.hops, miles) /\ miles[n] = u.length
  BY DEF Leads
<1> DEFINE more == [i \in 0 .. n + 1 |-> IF i <= n THEN miles[i] ELSE miles[n] + h.length]
<1>7. Measures(parts, start, hops, more)
  <2>1. /\ miles \in [0 .. n -> Nat] /\ miles[0] = 0
        /\ \A i \in 1 .. n :
             \E d \in Nat : miles[i] = miles[i - 1] + d /\ Stretch(parts, Stage(start, u.hops, i - 1), u.hops[i], d)
    BY <1>6 DEF Measures
  <2>2. more \in [0 .. Len(hops) -> Nat] /\ more[0] = 0
    <3>1. h.length \in Nat
      BY <1>1
    <3>2. \A i \in 0 .. n : miles[i] \in Nat
      BY <1>2, <2>1
    <3>3. \A i \in 0 .. n + 1 : (IF i <= n THEN miles[i] ELSE miles[n] + h.length) \in Nat
      <4> SUFFICES ASSUME NEW i \in 0 .. n + 1
                   PROVE  (IF i <= n THEN miles[i] ELSE miles[n] + h.length) \in Nat
        OBVIOUS
      <4>1. miles[n] + h.length \in Nat
        BY <1>2, <3>1, <3>2
      <4>2. i <= n => miles[i] \in Nat
        BY <1>2, <3>2
      <4> QED
        BY <4>1, <4>2
    <3>4. more \in [0 .. n + 1 -> Nat]
      BY <3>3
    <3>5. more[0] = 0
      BY <1>2, <2>1
    <3> HIDE DEF more, hops
    <3> QED
      BY <1>3, <3>4, <3>5
  <2>3. ASSUME NEW i \in 1 .. n
        PROVE  \E d \in Nat : more[i] = more[i - 1] + d /\ Stretch(parts, Stage(start, hops, i - 1), hops[i], d)
    <3>1. more[i] = miles[i] /\ more[i - 1] = miles[i - 1]
      BY <1>2
    <3>2. hops[i] = u.hops[i] /\ Stage(start, hops, i - 1) = Stage(start, u.hops, i - 1)
      <4> HIDE DEF hops, e
      <4>1. hops[i] = u.hops[i]
        BY <1>3
      <4>2. i = 1 \/ i - 1 \in 1 .. n
        BY <1>2
      <4>3. i - 1 \in 1 .. n => hops[i - 1] = u.hops[i - 1]
        BY <1>3
      <4> QED
        BY <4>1, <4>2, <4>3 DEF Stage
    <3> HIDE DEF more, hops
    <3> QED
      BY <2>1, <3>1, <3>2
  <2>4. more[n + 1] = more[n] + h.length /\ h.length \in Nat
    BY <1>1, <1>2, <2>1
  <2>5. Stage(start, hops, n) = u.place
    <3>1. u.place = Stage(start, u.hops, n)
      BY DEF Leads
    <3> HIDE DEF hops
    <3> QED
      BY <1>2, <1>3, <3>1 DEF Stage
  <2>6. Stretch(parts, Stage(start, hops, n), hops[n + 1], h.length)
    <3> HIDE DEF hops
    <3> QED
      BY <1>3, <2>5 DEF Stretch
  <2>7. ASSUME NEW i \in 1 .. n + 1
        PROVE  \E d \in Nat : more[i] = more[i - 1] + d /\ Stretch(parts, Stage(start, hops, i - 1), hops[i], d)
    <3> HIDE DEF more, hops
    <3>1. CASE i \in 1 .. n
      BY <2>3, <3>1
    <3>2. CASE i = n + 1
      <4>1. i - 1 = n
        BY <1>2, <3>2
      <4> QED
        BY <2>4, <2>6, <3>2, <4>1
    <3> QED
      BY <1>2, <3>1, <3>2
  <2> HIDE DEF more, hops
  <2> QED
    BY <1>3, <2>2, <2>7 DEF Measures
<1>8. more[n + 1] = w.length
  BY <1>2, <1>4, <1>6
<1>9. w.place = Stage(start, hops, n + 1)
  <2> HIDE DEF hops
  <2> QED
    BY <1>2, <1>3, <1>4 DEF Stage
<1> HIDE DEF more, hops, w
<1>10. Leads(parts, start, w)
  BY <1>3, <1>4, <1>7, <1>8, <1>9 DEF Leads
<1> QED
  BY <1>5, <1>10 DEF w

\* What the search knows: ways to places, of one length to each; the parts of the
\* visited places are taken account of, and these are nearer than the others.
Found(parts, start, found) ==
  /\ \A w \in found : w \in Ways(parts) /\ Leads(parts, start, w)
  /\ \A v, w \in found : v.place = w.place => v.length = w.length
  /\ \E w \in found : w.place = start /\ w.length = 0
Relaxed(parts, search) ==
  \A u \in search.found, h \in parts :
    u.place \in search.visited /\ h.from = u.place =>
      \E w \in search.found : w.place = h.to /\ w.length <= u.length + h.length
Nearer(search) ==
  \A u, w \in search.found : u.place \in search.visited /\ w.place \notin search.visited => u.length <= w.length
SearchInv(parts, start, search) ==
  /\ search.visited \subseteq Spots(parts)
  /\ Found(parts, start, search.found)
  /\ \A x \in search.visited : \E w \in search.found : w.place = x
  /\ Relaxed(parts, search)
  /\ Nearer(search)

\* There is a nearest way among some.
LEMMA NearestIsNearest ==
  ASSUME NEW parts, NEW ways \in SUBSET Ways(parts), ways # {}
  PROVE  Router!Nearest(ways) \in ways /\ \A v \in ways : Router!Nearest(ways).length <= v.length
<1> DEFINE I == {w.length : w \in ways}
<1>1. I \in SUBSET Nat /\ I # {}
  BY DEF Ways
<1>2. PICK n \in I : \A m \in I : n <= m
  <2> HIDE DEF I
  <2> QED
    BY <1>1, LeastOf
<1>3. PICK w \in ways : w.length = n
  BY <1>2
<1>4. \A v \in ways : w.length <= v.length
  BY <1>2, <1>3
<1> QED
  BY <1>4 DEF Router!Nearest

\* Of the ways on from a place those are taken over that improve what is known.
LEMMA BetterWays ==
  ASSUME NEW parts, Split(parts), NEW start, NEW found, Found(parts, start, found),
         NEW u \in found, NEW better, better = Router!Better(found, Router!WaysOn(parts, u))
  PROVE  /\ \A v \in better : \E h \in parts : h.from = u.place /\ v = Onto(u, h)
         /\ \A v \in better : v \in Ways(parts) /\ Leads(parts, start, v)
         /\ \A v \in better : \A w \in found : w.place = v.place => v.length < w.length
         /\ \A v, w \in better : v.place = w.place => v.length = w.length
         /\ \A h \in parts : h.from = u.place =>
              \/ \E w \in found : w.place = h.to /\ w.length <= u.length + h.length
              \/ \E v \in better : v.place = h.to /\ v.length <= u.length + h.length
<1> DEFINE ways == Router!WaysOn(parts, u)
<1>1. \A w : w \in ways <=> \E h \in parts : h.from = u.place /\ w = Onto(u, h)
  BY WaysOnAre
<1>2. u \in Ways(parts) /\ Leads(parts, start, u)
  BY DEF Found
<1>3. \A w \in ways : w \in Ways(parts) /\ Leads(parts, start, w)
  <2> SUFFICES ASSUME NEW h \in parts, h.from = u.place
               PROVE  Onto(u, h) \in Ways(parts) /\ Leads(parts, start, Onto(u, h))
    <3> HIDE DEF ways
    <3> QED
      BY <1>1
  <2> QED
    BY <1>2, GoesOn
<1> HIDE DEF ways
<1>4. \A v : v \in better <=> /\ v \in ways
                              /\ \A w \in found : w.place = v.place => v.length < w.length
                              /\ \A w \in ways : w.place = v.place => v.length <= w.length
  BY DEF Router!Better, Router!Improves, ways
<1>5. \A v \in better : v \in ways
  BY <1>4
<1>6. \A v, w \in better : v.place = w.place => v.length = w.length
  <2> SUFFICES ASSUME NEW v \in better, NEW w \in better, v.place = w.place PROVE v.length = w.length
    OBVIOUS
  <2>1. v.length <= w.length /\ w.length <= v.length
    BY <1>4
  <2>2. v.length \in Nat /\ w.length \in Nat
    BY <1>3, <1>5 DEF Ways
  <2> QED
    BY <2>1, <2>2
<1>7. ASSUME NEW h \in parts, h.from = u.place,
             \A w \in found : w.place = h.to => ~ (w.length <= u.length + h.length)
      PROVE  \E v \in better : v.place = h.to /\ v.length <= u.length + h.length
  <2>1. Onto(u, h) \in ways /\ Onto(u, h).place = h.to /\ Onto(u, h).length = u.length + h.length
    BY <1>1, <1>7 DEF Onto
  <2> DEFINE same == {w \in ways : w.place = h.to}
  <2>2. same \in SUBSET Ways(parts) /\ same # {}
    BY <1>3, <2>1
  <2>3. Router!Nearest(same) \in same /\ \A v \in same : Router!Nearest(same).length <= v.length
    <3> HIDE DEF same
    <3> QED
      BY <2>2, NearestIsNearest
  <2> DEFINE v == Router!Nearest(same)
  <2> HIDE DEF v
  <2>4. v \in ways /\ v.place = h.to /\ v.length <= u.length + h.length
        /\ \A w \in ways : w.place = v.place => v.length <= w.length
    BY <2>1, <2>3 DEF v
  <2>5. \A w \in found : w.place = v.place => v.length < w.length
    <3> SUFFICES ASSUME NEW w \in found, w.place = v.place PROVE v.length < w.length
      OBVIOUS
    <3>1. ~ (w.length <= u.length + h.length)
      BY <1>7, <2>4
    <3>2. w.length \in Nat /\ v.length \in Nat /\ u.length \in Nat /\ h.length \in Nat
      BY <1>2, <1>3, <2>4 DEF Found, Ways, Split
    <3> QED
      BY <2>4, <3>1, <3>2
  <2> QED
    BY <1>4, <2>4, <2>5
<1>8. \A v \in better : \E h \in parts : h.from = u.place /\ v = Onto(u, h)
  BY <1>1, <1>5
<1>9. \A v \in better : v \in Ways(parts) /\ Leads(parts, start, v)
  BY <1>3, <1>5
<1>10. \A v \in better : \A w \in found : w.place = v.place => v.length < w.length
  BY <1>4
<1> QED
  BY <1>6, <1>7, <1>8, <1>9, <1>10

\* A visit of the nearest place keeps what the search knows.
LEMMA VisitKeeps ==
  ASSUME NEW parts, Split(parts), NEW start, NEW search, SearchInv(parts, start, search),
         NEW u \in search.found, u.place \notin search.visited,
         \A w \in search.found : w.place \notin search.visited => u.length <= w.length
  PROVE  SearchInv(parts, start, Router!VisitPlace(parts, search, u))
<1> DEFINE found == search.found
           better == Router!Better(search.found, Router!WaysOn(parts, u))
           after == Router!VisitPlace(parts, search, u)
<1>0. Found(parts, start, found)
  BY DEF SearchInv
<1>1. /\ \A v \in better : \E h \in parts : h.from = u.place /\ v = Onto(u, h)
      /\ \A v \in better : v \in Ways(parts) /\ Leads(parts, start, v)
      /\ \A v \in better : \A w \in found : w.place = v.place => v.length < w.length
      /\ \A v, w \in better : v.place = w.place => v.length = w.length
      /\ \A h \in parts : h.from = u.place =>
              \/ \E w \in found : w.place = h.to /\ w.length <= u.length + h.length
              \/ \E v \in better : v.place = h.to /\ v.length <= u.length + h.length
  BY <1>0, BetterWays
<1>2. /\ after.visited = search.visited \cup {u.place}
      /\ after.found = better \cup {w \in found : \A v \in better : v.place # w.place}
  BY DEF Router!VisitPlace, Router!TakeOver
<1> HIDE DEF better, after
<1>3. u \in Ways(parts) /\ \A w \in found : w \in Ways(parts) /\ Leads(parts, start, w)
  BY <1>0 DEF Found
<1>4. \A w \in after.found : w \in better \/ (w \in found /\ \A v \in better : v.place # w.place)
  BY <1>2
<1>5. \A v \in better : v.length \in Nat /\ u.length < v.length
  <2> SUFFICES ASSUME NEW h \in parts, h.from = u.place, NEW v, v = Onto(u, h)
               PROVE  v.length \in Nat /\ u.length < v.length
    BY <1>1
  <2>1. u.length \in Nat /\ h.length \in Nat \ {0} /\ v.length = u.length + h.length
    BY <1>3 DEF Ways, Split, Onto
  <2> QED
    BY <2>1
\* Every place is as near as before.
<1>6. ASSUME NEW w \in found
      PROVE  \E v \in after.found : v.place = w.place /\ v.length <= w.length
  <2>1. w.length \in Nat
    BY <1>3 DEF Ways
  <2>2. CASE \E v \in better : v.place = w.place
    <3>1. PICK v \in better : v.place = w.place
      BY <2>2
    <3>2. v.length < w.length /\ v.length \in Nat
      BY <1>1, <1>5, <3>1
    <3> QED
      BY <1>2, <2>1, <3>1, <3>2
  <2>3. CASE \A v \in better : v.place # w.place
    BY <1>2, <2>1, <2>3
  <2> QED
    BY <2>2, <2>3
\* The ways to what is visited stay.
<1>7. ASSUME NEW w \in found, w.place \in after.visited
      PROVE  w.length <= u.length /\ \A v \in better : v.place # w.place
  <2>1. w.length \in Nat /\ u.length \in Nat
    BY <1>3 DEF Ways
  <2>2. w.length <= u.length
    <3>1. CASE w.place = u.place
      BY <1>0, <2>1, <3>1 DEF Found
    <3>2. CASE w.place \in search.visited
      BY <3>2 DEF SearchInv, Nearer
    <3> QED
      BY <1>2, <1>7, <3>1, <3>2
  <2>3. \A v \in better : v.place = w.place => v.length < w.length
    BY <1>1
  <2> QED
    BY <1>5, <2>1, <2>2, <2>3
<1>8. \A w \in after.found : w.place \in after.visited => w \in found
  <2> SUFFICES ASSUME NEW v \in better, v.place \in after.visited PROVE FALSE
    BY <1>4
  <2>1. PICK w \in found : w.place = v.place
    BY <1>2 DEF SearchInv
  <2> QED
    BY <1>7, <2>1
<1>9. Found(parts, start, after.found)
  <2>1. \A w \in after.found : w \in Ways(parts) /\ Leads(parts, start, w)
    BY <1>1, <1>3, <1>4
  <2>2. \A v, w \in after.found : v.place = w.place => v.length = w.length
    <3> SUFFICES ASSUME NEW v \in after.found, NEW w \in after.found, v.place = w.place
                 PROVE  v.length = w.length
      OBVIOUS
    <3>1. CASE v \in better /\ w \in better
      BY <1>1, <3>1
    <3>2. CASE v \in found /\ w \in found
      BY <1>0, <3>2 DEF Found
    <3> QED
      BY <1>4, <3>1, <3>2
  <2>3. \E w \in after.found : w.place = start /\ w.length = 0
    <3>1. PICK w \in found : w.place = start /\ w.length = 0
      BY <1>0 DEF Found
    <3>2. PICK v \in after.found : v.place = w.place /\ v.length <= w.length
      BY <1>6
    <3>3. v.length \in Nat
      BY <2>1 DEF Ways
    <3> QED
      BY <3>1, <3>2, <3>3
  <2> QED
    BY <2>1, <2>2, <2>3 DEF Found
<1>10. after.visited \subseteq Spots(parts)
  BY <1>2, <1>3 DEF SearchInv, Ways
<1>11. \A x \in after.visited : \E w \in after.found : w.place = x
  <2> SUFFICES ASSUME NEW x \in after.visited PROVE \E w \in found : w.place = x
    BY <1>6
  <2> QED
    BY <1>2 DEF SearchInv
<1>12. Relaxed(parts, after)
  <2> SUFFICES ASSUME NEW x \in after.found, NEW h \in parts, x.place \in after.visited, h.from = x.place
               PROVE  \E w \in after.found : w.place = h.to /\ w.length <= x.length + h.length
    BY DEF Relaxed
  <2>1. x \in found /\ x.length \in Nat /\ h.length \in Nat
    BY <1>3, <1>8 DEF Ways, Split
  <2>2. (\E w \in found : w.place = h.to /\ w.length <= x.length + h.length)
        \/ (\E v \in better : v.place = h.to /\ v.length <= x.length + h.length)
    <3>1. CASE x.place = u.place
      <4>1. x.length = u.length
        BY <1>0, <2>1, <3>1 DEF Found
      <4> QED
        BY <1>1, <3>1, <4>1
    <3>2. CASE x.place \in search.visited
      BY <2>1, <3>2 DEF SearchInv, Relaxed
    <3> QED
      BY <1>2, <3>1, <3>2
  <2>3. CASE \E v \in better : v.place = h.to /\ v.length <= x.length + h.length
    BY <1>2, <2>3
  <2>4. CASE \E w \in found : w.place = h.to /\ w.length <= x.length + h.length
    <3>1. PICK w \in found : w.place = h.to /\ w.length <= x.length + h.length
      BY <2>4
    <3>2. PICK v \in after.found : v.place = w.place /\ v.length <= w.length
      BY <1>6
    <3>3. v.length \in Nat /\ w.length \in Nat
      BY <1>3, <1>9 DEF Found, Ways
    <3> QED
      BY <2>1, <3>1, <3>2, <3>3
  <2> QED
    BY <2>2, <2>3, <2>4
<1>13. Nearer(after)
  <2> SUFFICES ASSUME NEW x \in after.found, NEW w \in after.found,
                      x.place \in after.visited, w.place \notin after.visited
               PROVE  x.length <= w.length
    BY DEF Nearer
  <2>1. x \in found /\ x.length <= u.length /\ x.length \in Nat /\ u.length \in Nat /\ w.length \in Nat
    BY <1>3, <1>7, <1>8, <1>9 DEF Found, Ways
  <2>2. u.length <= w.length
    <3>1. CASE w \in better
      BY <1>5, <2>1, <3>1
    <3>2. CASE w \in found
      BY <1>2, <3>2
    <3> QED
      BY <1>4, <3>1, <3>2
  <2> QED
    BY <2>1, <2>2
<1>14. SearchInv(parts, start, after)
  BY <1>9, <1>10, <1>11, <1>12, <1>13 DEF SearchInv
<1> QED
  BY <1>14 DEF after

\* The search after each turn of its loop.
Searched(parts, start) == [visited |-> {}, found |-> {[place |-> start, length |-> 0, hops |-> << >>]}]
Turns(parts, start, goal, search, n) ==
  /\ search[0] = Searched(parts, start)
  /\ \A i \in 1 .. n : search[i] = Router!Visit(parts, goal, search[i - 1])

\* ShortestPath looks the goal up in the last of such searches.
LEMMA SearchExists ==
  ASSUME NEW parts, NEW start, NEW goal, NEW n \in Nat, n = Cardinality(Spots(parts))
  PROVE  \E search : /\ Turns(parts, start, goal, search, n)
                     /\ Router!ShortestPath(parts, start, goal)
                          = (CHOOSE w \in search[n].found : w.place = goal).hops
<1> DEFINE first == [visited |-> {}, found |-> {[place |-> start, length |-> 0, hops |-> << >>]}]
           Step(before) == Router!Visit(parts, goal, before)
           Upto(k, f) == f = [i \in 0 .. k |-> IF i = 0 THEN first ELSE Step(f[i - 1])]
           good == {k \in Nat : \E f : Upto(k, f)}
<1>1. Nat \subseteq good
  <2>1. 0 \in good
    <3> HIDE DEF Step, first
    <3>1. Upto(0, [i \in 0 .. 0 |-> first])
      OBVIOUS
    <3> QED
      BY <3>1
  <2>2. ASSUME NEW k \in Nat, k \in good PROVE k + 1 \in good
    <3>1. PICK f : Upto(k, f)
      BY <2>2
    <3> DEFINE g == [i \in 0 .. k + 1 |-> IF i <= k THEN f[i] ELSE Step(f[k])]
    <3> HIDE DEF Step, first
    <3>2. \A i \in 0 .. k : f[i] = IF i = 0 THEN first ELSE Step(f[i - 1])
      BY <3>1
    <3>3. \A i \in 0 .. k + 1 : g[i] = IF i = 0 THEN first ELSE Step(g[i - 1])
      <4> SUFFICES ASSUME NEW i \in 0 .. k + 1
                   PROVE  g[i] = IF i = 0 THEN first ELSE Step(g[i - 1])
        OBVIOUS
      <4>1. CASE i = k + 1
        BY <4>1
      <4>2. CASE i <= k
        BY <3>2, <4>2
      <4> QED
        BY <4>1, <4>2
    <3>4. Upto(k + 1, g)
      <4>1. g = [i \in 0 .. k + 1 |-> g[i]]
        OBVIOUS
      <4> HIDE DEF g
      <4> QED
        BY <4>1, <3>3
    <3> HIDE DEF Upto
    <3> QED
      BY <3>4
  <2> HIDE DEF good
  <2> QED
    BY <2>1, <2>2, AllNumbers
<1>2. Router!ShortestPath(parts, start, goal)
        = (CHOOSE w \in (CHOOSE f : Upto(n, f))[n].found : w.place = goal).hops
  <2>1. Router!Cardinality({h.from : h \in parts}) = n
    BY SameCardinality DEF Spots
  <2> QED
    BY <2>1 DEF Router!ShortestPath
<1>3. PICK f : f = (CHOOSE g : Upto(n, g)) /\ Upto(n, f)
  <2> HIDE DEF Upto
  <2>1. n \in good
    BY <1>1
  <2> QED
    BY <2>1
<1>4. Turns(parts, start, goal, f, n)
  <2> HIDE DEF Step, first
  <2>1. \A i \in 0 .. n : f[i] = IF i = 0 THEN first ELSE Step(f[i - 1])
    BY <1>3
  <2>2. f[0] = first /\ \A i \in 1 .. n : f[i] = Step(f[i - 1])
    BY <2>1
  <2> QED
    BY <2>2 DEF Turns, Searched, Step, first
<1> HIDE DEF Upto
<1> QED
  BY <1>2, <1>3, <1>4

\* What one can get to from the start by the parts.
Reaches(parts, start, goal) ==
  \A N \in SUBSET Spots(parts) :
    start \in N /\ (\A h \in parts : h.from \in N => h.to \in N) => goal \in N

\* The search starts with the way to its start.
LEMMA FirstSearch ==
  ASSUME NEW parts, NEW start \in Spots(parts)
  PROVE  SearchInv(parts, start, Searched(parts, start))
<1> DEFINE w == [place |-> start, length |-> 0, hops |-> << >>]
<1>1. w \in Ways(parts)
  BY DEF Ways
<1>2. Leads(parts, start, w)
  <2>1. Measures(parts, start, << >>, [i \in 0 .. 0 |-> 0])
    <3>1. Len(<< >>) = 0 /\ \A i \in 1 .. 0 : FALSE
      OBVIOUS
    <3> QED
      BY <3>1 DEF Measures
  <2> QED
    BY <2>1 DEF Leads, Stage
<1>3. Searched(parts, start).found = {w} /\ Searched(parts, start).visited = {}
  BY DEF Searched
<1>4. w.place = start /\ w.length = 0
  OBVIOUS
<1> HIDE DEF w
<1> QED
  BY <1>1, <1>2, <1>3, <1>4 DEF SearchInv, Found, Relaxed, Nearer

\* A turn of the loop goes on, unless the goal is visited or nothing is left.
LEMMA TurnKeeps ==
  ASSUME NEW parts, Split(parts), IsFiniteSet(Spots(parts)), NEW start, NEW goal, NEW search,
         SearchInv(parts, start, search),
         NEW after, after = Router!Visit(parts, goal, search)
  PROVE  /\ SearchInv(parts, start, after)
         /\ IF goal \in search.visited \/ Router!Waiting(search) = {} THEN after = search
            ELSE Cardinality(after.visited) = Cardinality(search.visited) + 1
<1>1. CASE goal \in search.visited \/ Router!Waiting(search) = {}
  BY <1>1 DEF Router!Visit
<1>2. CASE ~ (goal \in search.visited \/ Router!Waiting(search) = {})
  <2> DEFINE ways == Router!Waiting(search)
             u == Router!Nearest(ways)
  <2>1. \A w : w \in ways <=> w \in search.found /\ w.place \notin search.visited
    BY DEF Router!Waiting
  <2>2. ways \in SUBSET Ways(parts) /\ ways # {}
    BY <1>2, <2>1 DEF SearchInv, Found
  <2>3. u \in ways /\ \A v \in ways : u.length <= v.length
    <3> HIDE DEF ways
    <3> QED
      BY <2>2, NearestIsNearest
  <2>4. after = Router!VisitPlace(parts, search, u)
    BY <1>2 DEF Router!Visit
  <2> HIDE DEF u, ways
  <2>5. SearchInv(parts, start, after)
    BY <2>1, <2>3, <2>4, VisitKeeps
  <2>6. after.visited = search.visited \cup {u.place} /\ u.place \notin search.visited
    BY <2>1, <2>3, <2>4 DEF Router!VisitPlace
  <2>7. IsFiniteSet(search.visited)
    BY FS_Subset DEF SearchInv
  <2>8. Cardinality(after.visited) = Cardinality(search.visited) + 1
    BY <2>6, <2>7, FS_AddElement
  <2> QED
    BY <1>2, <2>5, <2>8
<1> QED
  BY <1>1, <1>2

\* After as many turns as there are places the goal is visited, if it can be reached.
LEMMA SearchFinds ==
  ASSUME NEW parts, Split(parts), IsFiniteSet(Spots(parts)),
         NEW start \in Spots(parts), NEW goal \in Spots(parts), Reaches(parts, start, goal)
  PROVE  \E search : /\ SearchInv(parts, start, search)
                     /\ goal \in search.visited
                     /\ Router!ShortestPath(parts, start, goal)
                          = (CHOOSE w \in search.found : w.place = goal).hops
<1> DEFINE n == Cardinality(Spots(parts))
<1>1. n \in Nat
  BY FS_CardinalityType
<1>2. PICK search : /\ Turns(parts, start, goal, search, n)
                    /\ Router!ShortestPath(parts, start, goal)
                         = (CHOOSE w \in search[n].found : w.place = goal).hops
  BY <1>1, SearchExists
<1> DEFINE Over(s) == goal \in s.visited \/ Router!Waiting(s) = {}
           good == {i \in Nat : i <= n => /\ SearchInv(parts, start, search[i])
                                          /\ Over(search[i]) \/ Cardinality(search[i].visited) = i}
<1>3. Nat \subseteq good
  <2>1. 0 \in good
    <3>1. search[0] = Searched(parts, start) /\ Searched(parts, start).visited = {}
      BY <1>2 DEF Turns, Searched
    <3> QED
      BY <3>1, FirstSearch, FS_EmptySet
  <2>2. ASSUME NEW i \in Nat, i \in good PROVE i + 1 \in good
    <3> SUFFICES ASSUME i + 1 <= n
                 PROVE  /\ SearchInv(parts, start, search[i + 1])
                        /\ Over(search[i + 1]) \/ Cardinality(search[i + 1].visited) = i + 1
      OBVIOUS
    <3>1. SearchInv(parts, start, search[i]) /\ (Over(search[i]) \/ Cardinality(search[i].visited) = i)
      BY <1>1, <2>2
    <3>2. search[i + 1] = Router!Visit(parts, goal, search[i])
      <4>1. i + 1 \in 1 .. n /\ (i + 1) - 1 = i
        BY <1>1
      <4> HIDE DEF n
      <4> QED
        BY <1>2, <4>1 DEF Turns
    <3>3. /\ SearchInv(parts, start, search[i + 1])
          /\ IF Over(search[i]) THEN search[i + 1] = search[i]
             ELSE Cardinality(search[i + 1].visited) = Cardinality(search[i].visited) + 1
      <4> DEFINE s == search[i]
                 after == search[i + 1]
      <4>1. after = Router!Visit(parts, goal, s) /\ SearchInv(parts, start, s)
        BY <3>1, <3>2
      <4> HIDE DEF s, after, n, good
      <4>2. /\ SearchInv(parts, start, after)
            /\ IF goal \in s.visited \/ Router!Waiting(s) = {} THEN after = s
               ELSE Cardinality(after.visited) = Cardinality(s.visited) + 1
        BY <4>1, TurnKeeps
      <4> QED
        BY <4>2 DEF s, after
    <3> HIDE DEF Over
    <3> QED
      BY <3>1, <3>3
  <2> HIDE DEF good
  <2> QED
    BY <2>1, <2>2, AllNumbers
<1> DEFINE last == search[n]
<1>4. SearchInv(parts, start, last) /\ (Over(last) \/ Cardinality(last.visited) = n)
  <2>1. n \in good /\ n <= n
    <3> HIDE DEF n, good
    <3> QED
      BY <1>1, <1>3
  <2> HIDE DEF n
  <2> QED
    BY <2>1
<1> HIDE DEF last
<1>5. goal \in last.visited
  <2>1. CASE Router!Waiting(last) = {}
    <3>1. \A w \in last.found : w.place \in last.visited
      BY <2>1 DEF Router!Waiting
    <3>2. start \in last.visited
      BY <1>4, <3>1 DEF SearchInv, Found
    <3>3. ASSUME NEW h \in parts, h.from \in last.visited PROVE h.to \in last.visited
      <4>1. PICK u \in last.found : u.place = h.from
        BY <1>4, <3>3 DEF SearchInv
      <4>2. \E w \in last.found : w.place = h.to
        BY <1>4, <3>3, <4>1 DEF SearchInv, Relaxed
      <4> QED
        BY <3>1, <4>2
    <3>4. last.visited \in SUBSET Spots(parts)
      BY <1>4 DEF SearchInv
    <3> QED
      BY <3>2, <3>3, <3>4 DEF Reaches
  <2>2. CASE Cardinality(last.visited) = n
    <3>1. last.visited = Spots(parts)
      BY <1>4, <2>2, FS_Subset DEF SearchInv
    <3> QED
      BY <3>1
  <2> QED
    BY <1>4, <2>1, <2>2
<1> QED
  BY <1>2, <1>4, <1>5 DEF last

\* A gauge grows by at most its length along a part, so that from where it is 0 no way
\* is shorter than the gauge at its end.
Gauges(parts, far) ==
  /\ far \in [Spots(parts) -> Nat]
  /\ \A h \in parts : far[h.to] <= far[h.from] + h.length

\* The way ShortestPath finds is as long as a gauge says of its end.
LEMMA PathIsShortest ==
  ASSUME NEW parts, Split(parts), IsFiniteSet(Spots(parts)),
         NEW start \in Spots(parts), NEW goal \in Spots(parts), Reaches(parts, start, goal)
  PROVE  \E w, far : /\ w \in Ways(parts) /\ Leads(parts, start, w) /\ w.place = goal
                     /\ w.hops = Router!ShortestPath(parts, start, goal)
                     /\ Gauges(parts, far) /\ far[start] = 0 /\ far[goal] = w.length
<1>1. PICK search : /\ SearchInv(parts, start, search)
                    /\ goal \in search.visited
                    /\ Router!ShortestPath(parts, start, goal)
                         = (CHOOSE w \in search.found : w.place = goal).hops
  BY SearchFinds
<1> DEFINE found == search.found
           w == CHOOSE v \in found : v.place = goal
<1>2. w \in found /\ w.place = goal
  BY <1>1 DEF SearchInv
<1>3. w.hops = Router!ShortestPath(parts, start, goal)
  BY <1>1
<1> HIDE DEF w
<1>4. w \in Ways(parts) /\ Leads(parts, start, w) /\ w.length \in Nat
  BY <1>1, <1>2 DEF SearchInv, Found, Ways
<1>5. \A v \in found : v.length \in Nat
  BY <1>1 DEF SearchInv, Found, Ways
<1> DEFINE Known(x) == \E v \in found : v.place = x /\ v.length < w.length
           To(x) == CHOOSE v \in found : v.place = x /\ v.length < w.length
           far == [x \in Spots(parts) |-> IF Known(x) THEN To(x).length ELSE w.length]
<1>6. ASSUME NEW x \in Spots(parts) PROVE far[x] \in Nat /\ far[x] <= w.length
  <2>1. CASE Known(x)
    <3>1. To(x) \in found /\ To(x).length < w.length
      BY <2>1
    <3>2. far[x] = To(x).length
      BY <2>1
    <3> HIDE DEF far, To
    <3> QED
      BY <1>4, <1>5, <3>1, <3>2
  <2>2. CASE ~ Known(x)
    BY <1>4, <2>2
  <2> QED
    BY <2>1, <2>2
<1>7. ASSUME NEW v \in found, v.place \in Spots(parts) PROVE far[v.place] <= v.length
  <2>1. CASE v.length < w.length
    <3> DEFINE x == v.place
    <3>1. Known(x)
      BY <2>1
    <3>2. To(x) \in found /\ To(x).place = x
      BY <3>1
    <3>3. To(x).length = v.length
      BY <1>1, <3>2 DEF SearchInv, Found
    <3>4. far[x] = To(x).length
      BY <1>7, <3>1
    <3> HIDE DEF far, To
    <3> QED
      BY <1>5, <3>3, <3>4
  <2>2. CASE ~ (v.length < w.length)
    <3> HIDE DEF far
    <3> QED
      BY <1>4, <1>5, <1>6, <1>7, <2>2
  <2> QED
    BY <2>1, <2>2
<1>8. ASSUME NEW h \in parts PROVE far[h.to] <= far[h.from] + h.length
  <2>1. h.from \in Spots(parts) /\ h.to \in Spots(parts) /\ h.length \in Nat
    BY DEF Split
  <2>2. CASE Known(h.from)
    <3> DEFINE v == To(h.from)
    <3>1. v \in found /\ v.place = h.from /\ v.length < w.length
      BY <2>2
    <3>2. far[h.from] = v.length
      BY <2>1, <2>2
    <3> HIDE DEF far, v, Known
    <3>3. v.place \in search.visited
      <4> SUFFICES ASSUME v.place \notin search.visited PROVE FALSE
        OBVIOUS
      <4>1. w.length <= v.length
        BY <1>1, <1>2, <3>1 DEF SearchInv, Nearer
      <4> QED
        BY <1>4, <1>5, <3>1, <4>1
    <3>4. PICK u \in found : u.place = h.to /\ u.length <= v.length + h.length
      BY <1>1, <3>1, <3>3 DEF SearchInv, Relaxed
    <3>5. far[h.to] <= u.length
      BY <1>7, <2>1, <3>4
    <3> QED
      BY <1>5, <1>6, <2>1, <3>1, <3>2, <3>4, <3>5
  <2>3. CASE ~ Known(h.from)
    <3>1. far[h.from] = w.length
      BY <2>1, <2>3
    <3> HIDE DEF far, Known
    <3> QED
      BY <1>4, <1>6, <2>1, <3>1
  <2> QED
    BY <2>2, <2>3
<1>9. far[start] = 0
  <2>1. PICK v \in found : v.place = start /\ v.length = 0
    BY <1>1 DEF SearchInv, Found
  <2> HIDE DEF far
  <2>2. far[start] <= 0
    BY <1>7, <2>1
  <2> QED
    BY <1>6, <2>2
<1>10. far[goal] = w.length
  <2>1. ~ Known(goal)
    <3> SUFFICES ASSUME NEW v \in found, v.place = goal, v.length < w.length PROVE FALSE
      OBVIOUS
    <3>1. v.length = w.length
      BY <1>1, <1>2 DEF SearchInv, Found
    <3> QED
      BY <1>4, <3>1
  <2> QED
    BY <2>1
<1>11. far \in [Spots(parts) -> Nat]
  <2>1. far = [x \in Spots(parts) |-> far[x]]
    OBVIOUS
  <2> HIDE DEF far
  <2> QED
    BY <1>6, <2>1
<1> HIDE DEF far
<1>12. Gauges(parts, far)
  BY <1>8, <1>11 DEF Gauges
<1> QED
  BY <1>2, <1>3, <1>4, <1>9, <1>10, <1>12

-----------------------------------------------------------------------------
(* The graph with patrol points in its corridors *)

\* The distance of two numbers.
LEMMA GapType ==
  ASSUME NEW m \in Nat, NEW n \in Nat
  PROVE  /\ Gap(m, n) \in Nat /\ Gap(m, n) = Gap(n, m)
         /\ Gap(m, n) = 0 <=> m = n
         /\ m <= n => Gap(m, n) = n - m
BY DEF Gap

\* What holds of neighbouring stops and is passed on along the corridor, holds of all.
Between(S, d, e) == {f \in S : (d < f /\ f < e) \/ (e < f /\ f < d)}
LEMMA AlongStops ==
  ASSUME NEW S \in SUBSET Nat, NEW R,
         \A d \in S : << d, d >> \in R,
         \A d, e \in S : d # e /\ Between(S, d, e) = {} => << d, e >> \in R,
         \A d, e \in S : \A f \in Between(S, d, e) :
            << d, f >> \in R /\ << f, e >> \in R => << d, e >> \in R
  PROVE  \A d, e \in S : << d, e >> \in R
<1> DEFINE good == {n \in Nat : \A d, e \in S : Gap(d, e) <= n => << d, e >> \in R}
<1>1. Nat \subseteq good
  <2>1. 0 \in good
    <3> SUFFICES ASSUME NEW d \in S, NEW e \in S, Gap(d, e) <= 0 PROVE << d, e >> \in R
      OBVIOUS
    <3>1. d = e
      BY DEF Gap
    <3> QED
      BY <3>1
  <2>2. ASSUME NEW n \in Nat, n \in good PROVE n + 1 \in good
    <3> SUFFICES ASSUME NEW d \in S, NEW e \in S, Gap(d, e) <= n + 1 PROVE << d, e >> \in R
      OBVIOUS
    <3>0. \A f, g \in S : Gap(f, g) <= n => << f, g >> \in R
      BY <2>2
    <3>1. CASE d = e
      BY <3>1
    <3>2. CASE d # e /\ Between(S, d, e) = {}
      BY <3>2
    <3>3. CASE \E f \in S : f \in Between(S, d, e)
      <4>1. PICK f \in S : f \in Between(S, d, e)
        BY <3>3
      <4>2. Gap(d, f) <= n /\ Gap(f, e) <= n
        BY <4>1 DEF Between, Gap
      <4> QED
        BY <3>0, <4>1, <4>2
    <3> QED
      BY <3>1, <3>2, <3>3 DEF Between
  <2> HIDE DEF good
  <2> QED
    BY <2>1, <2>2, AllNumbers
<1> SUFFICES ASSUME NEW d \in S, NEW e \in S PROVE << d, e >> \in R
  OBVIOUS
<1>2. Gap(d, e) \in good /\ Gap(d, e) <= Gap(d, e)
  <2> HIDE DEF good
  <2>1. Gap(d, e) \in Nat
    BY GapType
  <2> QED
    BY <1>1, <2>1
<1> QED
  BY <1>2

\* A stop has a neighbour, if there is another one.
LEMMA NeighbourOf ==
  ASSUME NEW S \in SUBSET Nat, NEW d \in S, \E e \in S : e # d
  PROVE  \E e \in S : e # d /\ Between(S, d, e) = {}
<1> DEFINE I == {Gap(d, e) : e \in S \ {d}}
<1>1. I \in SUBSET Nat /\ I # {}
  <2>1. \A e \in S : Gap(d, e) \in Nat
    BY GapType
  <2> QED
    BY <2>1
<1>2. PICK n \in I : \A m \in I : n <= m
  <2> HIDE DEF I
  <2> QED
    BY <1>1, LeastOf
<1>3. PICK e \in S \ {d} : n = Gap(d, e)
  BY <1>2
<1>4. \A f \in S \ {d} : Gap(d, e) <= Gap(d, f)
  BY <1>2, <1>3
<1>5. ASSUME NEW f \in Between(S, d, e) PROVE FALSE
  <2>1. f \in S \ {d} /\ Gap(d, f) < Gap(d, e)
    BY <1>3 DEF Between, Gap
  <2>2. Gap(d, f) \in Nat /\ Gap(d, e) \in Nat
    BY <2>1, GapType
  <2> QED
    BY <1>4, <2>1, <2>2
<1> QED
  BY <1>3, <1>5

\* The stops of a corridor: its ends and the patrol points inside it; and the part of
\* the corridor from one stop to another.
Stops(places, c) == {0, Corridor[c].length} \cup {p.at : p \in {q \in places : q.on = c}}
Part(c, d, e) == [from |-> Router!PlaceIn(c, d), to |-> Router!PlaceIn(c, e), base |-> c, length |-> Gap(d, e)]

\* The corridors and their ends.
LEMMA CorridorOK ==
  ASSUME NEW c \in Router!Corridors
  PROVE  /\ Corridor[c].length \in Nat \ {0} /\ Corridor[c].a # Corridor[c].b
         /\ Corridor[c].a \in Router!Nodes /\ Corridor[c].b \in Router!Nodes
         /\ c \notin Router!Nodes
BY GraphAssumption DEF Router!Nodes, Router!Corridors

\* The stops of a corridor are in it, its ends among them.
LEMMA StopsOK ==
  ASSUME NEW places \in SUBSET (Places \cup {Router!Unknown}), NEW c \in Router!Corridors
  PROVE  /\ Stops(places, c) \in SUBSET (0 .. Corridor[c].length)
         /\ 0 \in Stops(places, c) /\ Corridor[c].length \in Stops(places, c)
<1>1. Corridor[c].length \in Nat
  BY CorridorOK
<1>2. ASSUME NEW p \in places, p.on = c PROVE p.at \in 0 .. Corridor[c].length
  <2>1. CASE p = Router!Unknown
    BY <1>1, <2>1 DEF Router!Unknown
  <2>2. CASE p \in Places
    <3>1. p.at \in Nat /\ IsPlace(p) /\ p.on \notin Router!Nodes
      BY <1>2, <2>2, CorridorOK DEF Places
    <3> QED
      BY <1>1, <1>2, <3>1 DEF IsPlace
  <2> QED
    BY <2>1, <2>2
<1> QED
  BY <1>1, <1>2 DEF Stops

\* A part leads from a stop of a corridor to a neighbouring one.
LEMMA PartsAre ==
  ASSUME NEW places \in SUBSET (Places \cup {Router!Unknown}), NEW h
  PROVE  h \in Router!Parts(places)
           <=> \E c \in Router!Corridors : \E d, e \in Stops(places, c) :
                  d # e /\ Between(Stops(places, c), d, e) = {} /\ h = Part(c, d, e)
<1> DEFINE stops(c) == {0, Corridor[c].length} \cup {p.at : p \in {q \in places : q.on = c}}
           consecutive(c) == {s \in stops(c) \X stops(c) :
                                s[1] < s[2] /\ ~ \E d \in stops(c) : s[1] < d /\ d < s[2]}
           part(c, d, e) == [from |-> Router!PlaceIn(c, d), to |-> Router!PlaceIn(c, e), base |-> c,
                             length |-> IF d < e THEN e - d ELSE d - e]
           of(c) == {part(c, s[1], s[2]) : s \in consecutive(c)} \cup {part(c, s[2], s[1]) : s \in consecutive(c)}
<1>1. Router!Parts(places) = UNION {of(c) : c \in Router!Corridors}
  BY DEF Router!Parts
<1>2. ASSUME NEW c \in Router!Corridors
      PROVE  h \in of(c) <=> \E d, e \in Stops(places, c) :
                               d # e /\ Between(Stops(places, c), d, e) = {} /\ h = Part(c, d, e)
  <2> DEFINE S == stops(c)
  <2>1. S = Stops(places, c) /\ S \in SUBSET Nat
    BY StopsOK, CorridorOK DEF Stops
  <2>2. \A d, e : part(c, d, e) = Part(c, d, e)
    BY DEF Part, Gap
  <2> HIDE DEF part, stops
  <2>3. h \in of(c) <=> \E s \in consecutive(c) : h = Part(c, s[1], s[2]) \/ h = Part(c, s[2], s[1])
    BY <2>2
  <2>4. ASSUME NEW s \in consecutive(c), h = Part(c, s[1], s[2]) \/ h = Part(c, s[2], s[1])
        PROVE  \E d, e \in S : d # e /\ Between(S, d, e) = {} /\ h = Part(c, d, e)
    <3>1. /\ s[1] \in S /\ s[2] \in S /\ s[1] < s[2]
          /\ Between(S, s[1], s[2]) = {} /\ Between(S, s[2], s[1]) = {}
      BY <2>1 DEF Between
    <3>2. s[1] # s[2]
      BY <2>1, <3>1
    <3> QED
      BY <2>4, <3>1, <3>2
  <2>5. ASSUME NEW d \in S, NEW e \in S, d # e, Between(S, d, e) = {}, h = Part(c, d, e)
        PROVE  \E s \in consecutive(c) : h = Part(c, s[1], s[2]) \/ h = Part(c, s[2], s[1])
    <3>1. CASE d < e
      <4>1. << d, e >> \in consecutive(c)
        BY <2>1, <2>5, <3>1 DEF Between
      <4> QED
        BY <2>5, <4>1
    <3>2. CASE e < d
      <4>1. << e, d >> \in consecutive(c)
        BY <2>1, <2>5, <3>2 DEF Between
      <4> QED
        BY <2>5, <4>1
    <3> QED
      BY <2>1, <2>5, <3>1, <3>2
  <2> HIDE DEF S, consecutive, of
  <2> QED
    BY <2>1, <2>3, <2>4, <2>5
<1> HIDE DEF of
<1> QED
  BY <1>1, <1>2

\* The place at a distance along a corridor.
LEMMA PlaceInOK ==
  ASSUME NEW c \in Router!Corridors, NEW d \in 0 .. Corridor[c].length
  PROVE  /\ OnCorridor(Router!PlaceIn(c, d), c)
         /\ Along(Router!PlaceIn(c, d), c) = d
         /\ d = 0 => Router!PlaceIn(c, d) = Router!AtNode(Corridor[c].a)
         /\ d = Corridor[c].length => Router!PlaceIn(c, d) = Router!AtNode(Corridor[c].b)
         /\ d # 0 /\ d # Corridor[c].length => Router!PlaceIn(c, d) = [on |-> c, at |-> d]
<1>1. /\ Corridor[c].length \in Nat \ {0} /\ Corridor[c].a # Corridor[c].b
      /\ Corridor[c].b \in Router!Nodes /\ c \notin Router!Nodes
  BY CorridorOK
<1>2. /\ d = 0 => Router!PlaceIn(c, d) = Router!AtNode(Corridor[c].a)
      /\ d = Corridor[c].length => Router!PlaceIn(c, d) = Router!AtNode(Corridor[c].b)
      /\ d # 0 /\ d # Corridor[c].length => Router!PlaceIn(c, d) = [on |-> c, at |-> d]
  BY <1>1 DEF Router!PlaceIn
<1>3. OnCorridor(Router!PlaceIn(c, d), c) /\ Along(Router!PlaceIn(c, d), c) = d
  BY <1>1, <1>2 DEF Router!AtNode, OnCorridor, Along
<1> QED
  BY <1>2, <1>3

\* The places of the split graph are the stops of its corridors.
LEMMA SpotsAre ==
  ASSUME NEW places \in SUBSET (Places \cup {Router!Unknown}), NEW x
  PROVE  x \in Spots(Router!Parts(places))
           <=> \E c \in Router!Corridors : \E d \in Stops(places, c) : x = Router!PlaceIn(c, d)
<1>1. ASSUME NEW h \in Router!Parts(places), x = h.from
      PROVE  \E c \in Router!Corridors : \E d \in Stops(places, c) : x = Router!PlaceIn(c, d)
  BY <1>1, PartsAre DEF Part
<1>2. ASSUME NEW c \in Router!Corridors, NEW d \in Stops(places, c), x = Router!PlaceIn(c, d)
      PROVE  \E h \in Router!Parts(places) : x = h.from
  <2>1. Stops(places, c) \in SUBSET Nat /\ \E e \in Stops(places, c) : e # d
    BY StopsOK, CorridorOK
  <2>2. PICK e \in Stops(places, c) : e # d /\ Between(Stops(places, c), d, e) = {}
    BY <2>1, NeighbourOf
  <2>3. Part(c, d, e) \in Router!Parts(places)
    BY <2>2, PartsAre
  <2> QED
    BY <1>2, <2>3 DEF Part
<1> QED
  BY <1>1, <1>2 DEF Spots

\* The parts make a split graph.
LEMMA PartsFit ==
  ASSUME NEW places \in SUBSET (Places \cup {Router!Unknown})
  PROVE  Split(Router!Parts(places))
<1> SUFFICES ASSUME NEW h \in Router!Parts(places)
             PROVE  h \in [from : Spots(Router!Parts(places)), to : Spots(Router!Parts(places)),
                           base : Router!Corridors, length : Nat \ {0}]
  BY DEF Split
<1>0. PICK c \in Router!Corridors : \E d, e \in Stops(places, c) : d # e /\ h = Part(c, d, e)
  BY PartsAre
<1>1. PICK d \in Stops(places, c), e \in Stops(places, c) : d # e /\ h = Part(c, d, e)
  BY <1>0
<1>2. d \in Nat /\ e \in Nat
  BY StopsOK, CorridorOK
<1>3. Gap(d, e) \in Nat \ {0}
  BY <1>1, <1>2, GapType
<1>4. Router!PlaceIn(c, d) \in Spots(Router!Parts(places)) /\ Router!PlaceIn(c, e) \in Spots(Router!Parts(places))
  BY SpotsAre
<1> QED
  BY <1>1, <1>3, <1>4 DEF Part

\* A function of finitely many arguments has finitely many values.
LEMMA ImageFinite ==
  ASSUME NEW S, IsFiniteSet(S), NEW f, DOMAIN f = S
  PROVE  IsFiniteSet({f[x] : x \in S})
<1> DEFINE T == {f[x] : x \in S}
           g == [x \in S |-> f[x]]
<1>1. g \in Surjection(S, T)
  BY DEF Surjection
<1> HIDE DEF T, g
<1>2. IsFiniteSet(T)
  BY <1>1, FS_Surjection
<1> QED
  BY <1>2 DEF T

\* There are finitely many nodes.
LEMMA NodesFinite ==
  IsFiniteSet(Router!Nodes) /\ IsFiniteSet({Router!AtNode(n) : n \in Router!Nodes})
<1> DEFINE f == [c \in Router!Corridors |-> Corridor[c].a]
           g == [c \in Router!Corridors |-> Corridor[c].b]
           h == [n \in Router!Nodes |-> Router!AtNode(n)]
           A == {f[c] : c \in Router!Corridors}
           B == {g[c] : c \in Router!Corridors}
<1>1. DOMAIN f = Router!Corridors /\ DOMAIN g = Router!Corridors
  OBVIOUS
<1>2. Router!Nodes = A \cup B
  BY DEF Router!Nodes
<1>3. IsFiniteSet(A) /\ IsFiniteSet(B)
  <2> HIDE DEF f, g
  <2> QED
    BY <1>1, GraphAssumption, ImageFinite
<1>4. IsFiniteSet(Router!Nodes)
  <2> HIDE DEF A, B
  <2> QED
    BY <1>2, <1>3, FS_Union
<1>5. DOMAIN h = Router!Nodes /\ {h[n] : n \in Router!Nodes} = {Router!AtNode(n) : n \in Router!Nodes}
  OBVIOUS
<1>6. IsFiniteSet({h[n] : n \in Router!Nodes})
  <2> HIDE DEF h
  <2> QED
    BY <1>4, <1>5, ImageFinite
<1> QED
  BY <1>4, <1>5, <1>6

\* Finitely many patrol points split the graph into finitely many parts.
LEMMA SpotsFinite ==
  ASSUME NEW places \in SUBSET (Places \cup {Router!Unknown}), IsFiniteSet(places)
  PROVE  IsFiniteSet(Spots(Router!Parts(places)))
<1> DEFINE all == {Router!AtNode(n) : n \in Router!Nodes} \cup places
<1>1. IsFiniteSet(all)
  BY NodesFinite, FS_Union
<1>2. Spots(Router!Parts(places)) \subseteq all
  <2> SUFFICES ASSUME NEW c \in Router!Corridors, NEW d \in Stops(places, c)
               PROVE  Router!PlaceIn(c, d) \in all
    BY SpotsAre
  <2>1. d \in 0 .. Corridor[c].length /\ Corridor[c].a \in Router!Nodes /\ Corridor[c].b \in Router!Nodes
    BY StopsOK, CorridorOK
  <2>2. CASE d = 0 \/ d = Corridor[c].length
    BY <2>1, <2>2, PlaceInOK
  <2>3. CASE d # 0 /\ d # Corridor[c].length
    <3>1. PICK p \in places : p.on = c /\ p.at = d
      BY <2>3 DEF Stops
    <3>2. p \in [on : Router!Corridors \cup Router!Nodes, at : Nat]
      BY <2>3, <3>1 DEF Places, Router!Unknown
    <3>3. p = [on |-> c, at |-> d]
      BY <3>1, <3>2
    <3> QED
      BY <2>1, <2>3, <3>3, PlaceInOK
  <2> QED
    BY <2>2, <2>3
<1> HIDE DEF all
<1> QED
  BY <1>1, <1>2, FS_Subset

\* Every patrol point and every node is a place of the graph.
LEMMA NodeIsSpot ==
  ASSUME NEW places \in SUBSET (Places \cup {Router!Unknown}), NEW n \in Router!Nodes
  PROVE  \E c \in Router!Corridors : \E d \in {0, Corridor[c].length} : Router!AtNode(n) = Router!PlaceIn(c, d)
<1>1. PICK c \in Router!Corridors : n = Corridor[c].a \/ n = Corridor[c].b
  BY DEF Router!Nodes
<1>2. Corridor[c].length \in Nat /\ 0 \in 0 .. Corridor[c].length /\ Corridor[c].length \in 0 .. Corridor[c].length
  BY CorridorOK
<1>3. Router!PlaceIn(c, 0) = Router!AtNode(Corridor[c].a)
      /\ Router!PlaceIn(c, Corridor[c].length) = Router!AtNode(Corridor[c].b)
  BY <1>2, PlaceInOK
<1> QED
  BY <1>1, <1>3

\* A patrol point is a stop.
LEMMA PlaceIsStop ==
  ASSUME NEW places \in SUBSET (Places \cup {Router!Unknown}), NEW p \in places, p \in Places
  PROVE  \E c \in Router!Corridors : \E d \in Stops(places, c) : p = Router!PlaceIn(c, d)
<1>1. p \in [on : Router!Corridors \cup Router!Nodes, at : Nat] /\ IsPlace(p)
  BY DEF Places
<1>2. p = [on |-> p.on, at |-> p.at]
  BY <1>1
<1>3. CASE p.on \in Router!Nodes
  <2>1. p = Router!AtNode(p.on)
    BY <1>1, <1>2, <1>3 DEF IsPlace, Router!AtNode
  <2>2. PICK c \in Router!Corridors : \E d \in {0, Corridor[c].length} : p = Router!PlaceIn(c, d)
    BY <1>3, <2>1, NodeIsSpot
  <2> QED
    BY <2>2, StopsOK
<1>4. CASE p.on \notin Router!Nodes
  <2>1. p.on \in Router!Corridors /\ p.at \in Stops(places, p.on)
    BY <1>1, <1>4 DEF Stops
  <2>2. p.at \in 0 .. Corridor[p.on].length /\ p.at # 0 /\ p.at # Corridor[p.on].length
    BY <1>1, <1>4, <2>1, CorridorOK DEF IsPlace
  <2>3. p = Router!PlaceIn(p.on, p.at)
    BY <1>2, <2>1, <2>2, PlaceInOK
  <2> QED
    BY <2>1, <2>3
<1> QED
  BY <1>3, <1>4

\* Every place can be reached from every other, the graph being connected.
LEMMA AllReached ==
  ASSUME NEW places \in SUBSET (Places \cup {Router!Unknown}),
         NEW p \in places, p \in Places, NEW q \in places, q \in Places
  PROVE  Reaches(Router!Parts(places), p, q)
<1> DEFINE parts == Router!Parts(places)
<1> SUFFICES ASSUME NEW N \in SUBSET Spots(parts), p \in N,
                    \A h \in parts : h.from \in N => h.to \in N
             PROVE  q \in N
  BY DEF Reaches
<1>1. ASSUME NEW c \in Router!Corridors, NEW d \in Stops(places, c), NEW e \in Stops(places, c),
             Router!PlaceIn(c, d) \in N
      PROVE  Router!PlaceIn(c, e) \in N
  <2> DEFINE S == Stops(places, c)
             R == {x \in S \X S : Router!PlaceIn(c, x[1]) \in N => Router!PlaceIn(c, x[2]) \in N}
  <2>1. S \in SUBSET Nat
    BY StopsOK, CorridorOK
  <2>2. \A f \in S : << f, f >> \in R
    OBVIOUS
  <2>3. ASSUME NEW f \in S, NEW g \in S, f # g, Between(S, f, g) = {} PROVE << f, g >> \in R
    <3>1. Part(c, f, g) \in parts
      BY <2>3, PartsAre
    <3>2. Part(c, f, g).from = Router!PlaceIn(c, f) /\ Part(c, f, g).to = Router!PlaceIn(c, g)
      BY DEF Part
    <3> QED
      BY <3>1, <3>2
  <2>4. ASSUME NEW f \in S, NEW g \in S, NEW m \in Between(S, f, g), << f, m >> \in R, << m, g >> \in R
        PROVE  << f, g >> \in R
    BY <2>4
  <2>5. << d, e >> \in R
    <3> HIDE DEF R, S
    <3>1. \A f, g \in S : << f, g >> \in R
      BY <2>1, <2>2, <2>3, <2>4, AlongStops
    <3> QED
      BY <3>1 DEF S
  <2> QED
    BY <1>1, <2>5
<1> DEFINE M == {n \in Router!Nodes : Router!AtNode(n) \in N}
<1>2. ASSUME NEW c \in Router!Corridors
      PROVE  /\ 0 \in Stops(places, c) /\ Corridor[c].length \in Stops(places, c)
             /\ Router!PlaceIn(c, 0) = Router!AtNode(Corridor[c].a)
             /\ Router!PlaceIn(c, Corridor[c].length) = Router!AtNode(Corridor[c].b)
             /\ Corridor[c].a \in Router!Nodes /\ Corridor[c].b \in Router!Nodes
  <2>1. Corridor[c].length \in Nat /\ 0 \in 0 .. Corridor[c].length /\ Corridor[c].length \in 0 .. Corridor[c].length
    BY CorridorOK
  <2> QED
    BY <2>1, StopsOK, PlaceInOK, CorridorOK
<1>3. LedOn(M)
  <2> SUFFICES ASSUME NEW c \in Router!Corridors PROVE Corridor[c].a \in M <=> Corridor[c].b \in M
    BY DEF LedOn
  <2>1. Router!AtNode(Corridor[c].a) \in N <=> Router!AtNode(Corridor[c].b) \in N
    BY <1>1, <1>2
  <2> QED
    BY <1>2, <2>1
<1>4. M # {}
  <2>1. PICK c \in Router!Corridors : \E d \in Stops(places, c) : p = Router!PlaceIn(c, d)
    BY PlaceIsStop
  <2>2. Router!PlaceIn(c, 0) \in N
    BY <1>1, <1>2, <2>1
  <2> QED
    BY <1>2, <2>2
<1>5. M = Router!Nodes
  <2>1. M \in SUBSET Router!Nodes
    OBVIOUS
  <2> HIDE DEF M
  <2> QED
    BY <1>3, <1>4, <2>1, GraphAssumption
<1>6. PICK c \in Router!Corridors : \E d \in Stops(places, c) : q = Router!PlaceIn(c, d)
  BY PlaceIsStop
<1>7. Router!PlaceIn(c, 0) \in N
  BY <1>2, <1>5
<1> QED
  BY <1>1, <1>2, <1>6, <1>7

\* Along a corridor a gauge grows by no more than what is driven.
LEMMA GaugeAlong ==
  ASSUME NEW places \in SUBSET (Places \cup {Router!Unknown}),
         NEW far, Gauges(Router!Parts(places), far),
         NEW c \in Router!Corridors, NEW d \in Stops(places, c), NEW e \in Stops(places, c)
  PROVE  far[Router!PlaceIn(c, e)] <= far[Router!PlaceIn(c, d)] + Gap(d, e)
<1> DEFINE parts == Router!Parts(places)
           S == Stops(places, c)
           FarOf(f) == far[Router!PlaceIn(c, f)]
           R == {x \in S \X S : FarOf(x[2]) <= FarOf(x[1]) + Gap(x[1], x[2])}
<1>1. S \in SUBSET Nat
  BY StopsOK, CorridorOK
<1>2. \A f \in S : FarOf(f) \in Nat
  BY SpotsAre DEF Gauges
<1>3. \A f \in S : << f, f >> \in R
  <2> SUFFICES ASSUME NEW f \in S PROVE FarOf(f) <= FarOf(f) + Gap(f, f)
    OBVIOUS
  <2>1. Gap(f, f) = 0
    BY <1>1 DEF Gap
  <2> HIDE DEF FarOf
  <2> QED
    BY <1>2, <2>1
<1>4. ASSUME NEW f \in S, NEW g \in S, f # g, Between(S, f, g) = {} PROVE << f, g >> \in R
  <2>1. Part(c, f, g) \in parts
    BY <1>4, PartsAre
  <2>2. /\ Part(c, f, g).from = Router!PlaceIn(c, f) /\ Part(c, f, g).to = Router!PlaceIn(c, g)
        /\ Part(c, f, g).length = Gap(f, g)
    BY DEF Part
  <2>3. FarOf(g) <= FarOf(f) + Gap(f, g)
    BY <2>1, <2>2 DEF Gauges
  <2> QED
    BY <2>3
<1>5. ASSUME NEW f \in S, NEW g \in S, NEW m \in Between(S, f, g), << f, m >> \in R, << m, g >> \in R
      PROVE  << f, g >> \in R
  <2>1. m \in S /\ FarOf(m) <= FarOf(f) + Gap(f, m) /\ FarOf(g) <= FarOf(m) + Gap(m, g)
    BY <1>5 DEF Between
  <2>2. Gap(f, g) = Gap(f, m) + Gap(m, g) /\ Gap(f, m) \in Nat /\ Gap(m, g) \in Nat
    BY <1>1 DEF Between, Gap
  <2>3. FarOf(f) \in Nat /\ FarOf(m) \in Nat /\ FarOf(g) \in Nat
    BY <1>2, <2>1
  <2> HIDE DEF FarOf
  <2>4. FarOf(g) <= FarOf(f) + Gap(f, g)
    BY <2>1, <2>2, <2>3
  <2> QED
    BY <2>4
<1>6. << d, e >> \in R
  <2> HIDE DEF R, S
  <2>1. \A f, g \in S : << f, g >> \in R
    BY <1>1, <1>3, <1>4, <1>5, AlongStops
  <2> QED
    BY <2>1 DEF S
<1> QED
  BY <1>6

\* The lengths of the reference are lengths of ways, which a gauge cannot exceed.
LEMMA GaugeOnWalk ==
  ASSUME NEW places \in SUBSET (Places \cup {Router!Unknown}),
         NEW far, Gauges(Router!Parts(places), far),
         NEW m \in Router!Nodes, NEW w, w[1] \in Router!Nodes, w[2] \in Nat,
         far[Router!AtNode(w[1])] <= far[Router!AtNode(m)] + w[2],
         NEW v \in Longer(w)
  PROVE  /\ v[1] \in Router!Nodes /\ v[2] \in Nat
         /\ far[Router!AtNode(v[1])] <= far[Router!AtNode(m)] + v[2]
<1>1. PICK c \in Router!Corridors : /\ w[1] \in {Corridor[c].a, Corridor[c].b}
                                    /\ v = << OtherEnd(c, w[1]), w[2] + Corridor[c].length >>
  BY DEF Longer
<1>2. /\ Corridor[c].length \in Nat /\ Corridor[c].a \in Router!Nodes /\ Corridor[c].b \in Router!Nodes
      /\ 0 \in Stops(places, c) /\ Corridor[c].length \in Stops(places, c)
      /\ 0 \in 0 .. Corridor[c].length /\ Corridor[c].length \in 0 .. Corridor[c].length
  BY CorridorOK, StopsOK
<1>3. /\ Router!PlaceIn(c, 0) = Router!AtNode(Corridor[c].a)
      /\ Router!PlaceIn(c, Corridor[c].length) = Router!AtNode(Corridor[c].b)
  BY <1>2, PlaceInOK
<1>4. Gap(0, Corridor[c].length) = Corridor[c].length /\ Gap(Corridor[c].length, 0) = Corridor[c].length
  BY <1>2 DEF Gap
<1>5. /\ far[Router!AtNode(Corridor[c].b)] <= far[Router!AtNode(Corridor[c].a)] + Corridor[c].length
      /\ far[Router!AtNode(Corridor[c].a)] <= far[Router!AtNode(Corridor[c].b)] + Corridor[c].length
  BY <1>2, <1>3, <1>4, GaugeAlong
<1>6. \A n \in Router!Nodes : far[Router!AtNode(n)] \in Nat
  <2> SUFFICES ASSUME NEW n \in Router!Nodes PROVE Router!AtNode(n) \in Spots(Router!Parts(places))
    BY DEF Gauges
  <2>1. PICK k \in Router!Corridors : \E d \in {0, Corridor[k].length} : Router!AtNode(n) = Router!PlaceIn(k, d)
    BY NodeIsSpot
  <2> QED
    BY <2>1, StopsOK, SpotsAre
<1>7. /\ v[1] \in Router!Nodes /\ v[2] = w[2] + Corridor[c].length
      /\ far[Router!AtNode(v[1])] <= far[Router!AtNode(w[1])] + Corridor[c].length
  BY <1>1, <1>2, <1>5 DEF OtherEnd
<1> QED
  BY <1>2, <1>6, <1>7

\* The walks of the reference from a node, of at most n corridors.
Walked(m, walks, n) ==
  walks[0] = {<< m, 0 >>} /\ \A i \in 1 .. n : walks[i] = Onward(walks[i - 1])
\* The distances of the reference are the last of such walks.
LEMMA WalksExist ==
  ASSUME NEW m
  PROVE  \E walks : /\ Walked(m, walks, Cardinality(Router!Nodes))
                    /\ Distances(m) = walks[Cardinality(Router!Nodes)]
<1> DEFINE first == {<< m, 0 >>}
           Step(before) == Onward(before)
           n == Cardinality(Router!Nodes)
           Upto(k, f) == f = [i \in 0 .. k |-> IF i = 0 THEN first ELSE Step(f[i - 1])]
           good == {k \in Nat : \E f : Upto(k, f)}
<1>1. Nat \subseteq good
  <2>1. 0 \in good
    <3> HIDE DEF Step, first
    <3>1. Upto(0, [i \in 0 .. 0 |-> first])
      OBVIOUS
    <3> QED
      BY <3>1
  <2>2. ASSUME NEW k \in Nat, k \in good PROVE k + 1 \in good
    <3>1. PICK f : Upto(k, f)
      BY <2>2
    <3> DEFINE g == [i \in 0 .. k + 1 |-> IF i <= k THEN f[i] ELSE Step(f[k])]
    <3> HIDE DEF Step, first
    <3>2. \A i \in 0 .. k : f[i] = IF i = 0 THEN first ELSE Step(f[i - 1])
      BY <3>1
    <3>3. \A i \in 0 .. k + 1 : g[i] = IF i = 0 THEN first ELSE Step(g[i - 1])
      <4> SUFFICES ASSUME NEW i \in 0 .. k + 1
                   PROVE  g[i] = IF i = 0 THEN first ELSE Step(g[i - 1])
        OBVIOUS
      <4>1. CASE i = k + 1
        BY <4>1
      <4>2. CASE i <= k
        BY <3>2, <4>2
      <4> QED
        BY <4>1, <4>2
    <3>4. Upto(k + 1, g)
      <4>1. g = [i \in 0 .. k + 1 |-> g[i]]
        OBVIOUS
      <4> HIDE DEF g
      <4> QED
        BY <4>1, <3>3
    <3> HIDE DEF Upto
    <3> QED
      BY <3>4
  <2> HIDE DEF good
  <2> QED
    BY <2>1, <2>2, AllNumbers
<1>2. n \in Nat
  BY NodesFinite, FS_CardinalityType
<1>3. Distances(m) = (CHOOSE f : Upto(n, f))[n]
  BY DEF Distances
<1>4. PICK f : f = (CHOOSE g : Upto(n, g)) /\ Upto(n, f)
  <2> HIDE DEF Upto, n
  <2>1. n \in good
    BY <1>1, <1>2
  <2> QED
    BY <2>1
<1>5. Walked(m, f, n)
  <2> HIDE DEF Step, first, n
  <2>1. \A i \in 0 .. n : f[i] = IF i = 0 THEN first ELSE Step(f[i - 1])
    BY <1>4
  <2>2. f[0] = first /\ \A i \in 1 .. n : f[i] = Step(f[i - 1])
    BY <1>2, <2>1
  <2> QED
    BY <2>2 DEF Walked, Step, first
<1> HIDE DEF Upto
<1> QED
  BY <1>3, <1>4, <1>5

\* No distance of the reference is shorter than a gauge says.
LEMMA GaugeOnDistances ==
  ASSUME NEW places \in SUBSET (Places \cup {Router!Unknown}),
         NEW far, Gauges(Router!Parts(places), far), NEW d \in NodeDistances
  PROVE  /\ d[1] \in Router!Nodes /\ d[2] \in Router!Nodes /\ d[3] \in Nat
         /\ far[Router!AtNode(d[2])] <= far[Router!AtNode(d[1])] + d[3]
<1>1. PICK m \in Router!Nodes : \E w \in Distances(m) : d = << m, w[1], w[2] >>
  BY DEF NodeDistances
<1>2. PICK walks : /\ Walked(m, walks, Cardinality(Router!Nodes))
                   /\ Distances(m) = walks[Cardinality(Router!Nodes)]
  BY WalksExist
<1> DEFINE n == Cardinality(Router!Nodes)
           Fits(w) == /\ w[1] \in Router!Nodes /\ w[2] \in Nat
                      /\ far[Router!AtNode(w[1])] <= far[Router!AtNode(m)] + w[2]
           good == {i \in Nat : i <= n => \A w \in walks[i] : Fits(w)}
<1>3. n \in Nat
  BY NodesFinite, FS_CardinalityType
<1>4. far[Router!AtNode(m)] \in Nat
  <2>1. PICK k \in Router!Corridors : \E e \in {0, Corridor[k].length} : Router!AtNode(m) = Router!PlaceIn(k, e)
    BY NodeIsSpot
  <2>2. Router!AtNode(m) \in Spots(Router!Parts(places))
    BY <2>1, StopsOK, SpotsAre
  <2> QED
    BY <2>2 DEF Gauges
<1>5. Nat \subseteq good
  <2>1. 0 \in good
    <3>1. walks[0] = {<< m, 0 >>}
      BY <1>2 DEF Walked
    <3>2. Fits(<< m, 0 >>)
      BY <1>4
    <3> HIDE DEF Fits
    <3> QED
      BY <3>1, <3>2
  <2>2. ASSUME NEW i \in Nat, i \in good PROVE i + 1 \in good
    <3> SUFFICES ASSUME i + 1 <= n, NEW v \in walks[i + 1] PROVE Fits(v)
      OBVIOUS
    <3>1. \A w \in walks[i] : Fits(w)
      BY <1>3, <2>2
    <3>2. walks[i + 1] = Onward(walks[i])
      <4>1. i + 1 \in 1 .. n /\ (i + 1) - 1 = i
        BY <1>3
      <4> HIDE DEF n
      <4> QED
        BY <1>2, <4>1 DEF Walked, n
    <3>3. v \in walks[i] \/ \E w \in walks[i] : v \in Longer(w)
      BY <3>2 DEF Onward, Least
    <3>4. ASSUME NEW w \in walks[i], v \in Longer(w) PROVE Fits(v)
      BY <3>1, <3>4, GaugeOnWalk
    <3> HIDE DEF Fits
    <3> QED
      BY <3>1, <3>3, <3>4
  <2> HIDE DEF good
  <2> QED
    BY <2>1, <2>2, AllNumbers
<1>6. n \in good /\ n <= n
  <2> HIDE DEF good, n
  <2> QED
    BY <1>3, <1>5
<1>7. \A w \in Distances(m) : Fits(w)
  BY <1>2, <1>6
<1> QED
  BY <1>1, <1>7

\* No way between two places is shorter than a gauge says.
LEMMA NotUndercut ==
  ASSUME NEW places \in SUBSET (Places \cup {Router!Unknown}),
         NEW far, Gauges(Router!Parts(places), far),
         NEW p \in places, p \in Places, NEW q \in places, q \in Places,
         far[p] = 0
  PROVE  ~ Undercut(far[q], p, q)
<1>0. /\ p \in [on : Router!Corridors \cup Router!Nodes, at : Nat] /\ IsPlace(p)
      /\ q \in [on : Router!Corridors \cup Router!Nodes, at : Nat] /\ IsPlace(q)
  BY DEF Places
<1>1. far[p] \in Nat /\ far[q] \in Nat
  BY PlaceIsStop, SpotsAre DEF Gauges
<1>2. \A n \in Router!Nodes : far[Router!AtNode(n)] \in Nat
  <2> SUFFICES ASSUME NEW n \in Router!Nodes PROVE Router!AtNode(n) \in Spots(Router!Parts(places))
    BY DEF Gauges
  <2>1. PICK k \in Router!Corridors : \E d \in {0, Corridor[k].length} : Router!AtNode(n) = Router!PlaceIn(k, d)
    BY NodeIsSpot
  <2> QED
    BY <2>1, StopsOK, SpotsAre
<1>3. ASSUME NEW s \in places, s \in Places, s.on \notin Router!Nodes
      PROVE  /\ s.on \in Router!Corridors /\ s.at \in Stops(places, s.on)
             /\ s = Router!PlaceIn(s.on, s.at)
  <2>1. s \in [on : Router!Corridors \cup Router!Nodes, at : Nat] /\ IsPlace(s)
    BY <1>3 DEF Places
  <2>2. s.on \in Router!Corridors /\ s = [on |-> s.on, at |-> s.at] /\ s.at \in Stops(places, s.on)
    BY <1>3, <2>1 DEF Stops
  <2>3. s.at \in 0 .. Corridor[s.on].length /\ s.at # 0 /\ s.at # Corridor[s.on].length
    BY <1>3, <2>1, <2>2, CorridorOK DEF IsPlace
  <2> QED
    BY <2>2, <2>3, PlaceInOK
<1>4. ASSUME NEW s \in places, s \in Places, s.on \in Router!Nodes PROVE s = Router!AtNode(s.on) /\ s.at = 0
  <2>1. s \in [on : Router!Corridors \cup Router!Nodes, at : Nat] /\ s.at = 0
    BY <1>4 DEF Places, IsPlace
  <2> QED
    BY <2>1 DEF Router!AtNode
\* Between a place and the exits of its corridor.
<1>5. ASSUME NEW s \in places, s \in Places, NEW x \in Exits(s)
      PROVE  /\ x[1] \in Router!Nodes /\ x[2] \in Nat
             /\ far[s] <= far[Router!AtNode(x[1])] + x[2]
             /\ far[Router!AtNode(x[1])] <= far[s] + x[2]
  <2>1. CASE s.on \in Router!Nodes
    <3>1. x = << s.on, 0 >> /\ s = Router!AtNode(s.on)
      BY <1>4, <1>5, <2>1 DEF Exits
    <3>2. x[1] = s.on /\ x[2] = 0 /\ far[s] \in Nat /\ far[Router!AtNode(x[1])] = far[s]
      BY <1>2, <2>1, <3>1
    <3> QED
      BY <2>1, <3>2
  <2>2. CASE s.on \notin Router!Nodes
    <3> DEFINE c == s.on
               d == s.at
               l == Corridor[c].length
    <3>1. c \in Router!Corridors /\ d \in Stops(places, c) /\ s = Router!PlaceIn(c, d)
      BY <1>3, <1>5, <2>2
    <3>2. /\ l \in Nat /\ d \in 0 .. l /\ 0 \in 0 .. l /\ l \in 0 .. l
          /\ 0 \in Stops(places, c) /\ l \in Stops(places, c)
          /\ Corridor[c].a \in Router!Nodes /\ Corridor[c].b \in Router!Nodes
      BY <3>1, CorridorOK, StopsOK
    <3>3. /\ Router!PlaceIn(c, 0) = Router!AtNode(Corridor[c].a)
          /\ Router!PlaceIn(c, l) = Router!AtNode(Corridor[c].b)
      BY <3>1, <3>2, PlaceInOK
    <3>4. x = << Corridor[c].a, d >> \/ x = << Corridor[c].b, l - d >>
      BY <2>2, <1>5 DEF Exits
    <3>5. Gap(0, d) = d /\ Gap(d, 0) = d /\ Gap(l, d) = l - d /\ Gap(d, l) = l - d
      BY <3>2 DEF Gap
    <3>6. /\ far[s] <= far[Router!AtNode(Corridor[c].a)] + d
          /\ far[Router!AtNode(Corridor[c].a)] <= far[s] + d
          /\ far[s] <= far[Router!AtNode(Corridor[c].b)] + (l - d)
          /\ far[Router!AtNode(Corridor[c].b)] <= far[s] + (l - d)
      <4> HIDE DEF c, d, l
      <4>1. /\ far[Router!PlaceIn(c, d)] <= far[Router!PlaceIn(c, 0)] + Gap(0, d)
            /\ far[Router!PlaceIn(c, 0)] <= far[Router!PlaceIn(c, d)] + Gap(d, 0)
        BY <3>1, <3>2, GaugeAlong
      <4>2. /\ far[Router!PlaceIn(c, d)] <= far[Router!PlaceIn(c, l)] + Gap(l, d)
            /\ far[Router!PlaceIn(c, l)] <= far[Router!PlaceIn(c, d)] + Gap(d, l)
        BY <3>1, <3>2, GaugeAlong
      <4>3. Router!PlaceIn(c, d) = s
        BY <3>1
      <4> QED
        BY <3>3, <3>5, <4>1, <4>2, <4>3
    <3>7. d \in Nat /\ l - d \in Nat
      BY <3>2
    <3> HIDE DEF c, d, l
    <3> QED
      BY <3>2, <3>4, <3>6, <3>7
  <2> QED
    BY <2>1, <2>2
<1>6. p.on = q.on => far[q] <= Gap(p.at, q.at)
  <2> SUFFICES ASSUME p.on = q.on PROVE far[q] <= Gap(p.at, q.at)
    OBVIOUS
  <2>1. CASE p.on \in Router!Nodes
    <3>1. p = q /\ Gap(p.at, q.at) = 0
      BY <1>4, <2>1 DEF Gap
    <3> QED
      BY <3>1
  <2>2. CASE p.on \notin Router!Nodes
    <3>1. far[q] <= far[p] + Gap(p.at, q.at)
      BY <1>3, <2>2, GaugeAlong
    <3>2. Gap(p.at, q.at) \in Nat
      BY <1>0, GapType
    <3> QED
      BY <3>1, <3>2
  <2> QED
    BY <2>1, <2>2
<1>7. ASSUME NEW x \in Exits(p), NEW y \in Exits(q), NEW d \in NodeDistances, d[1] = x[1], d[2] = y[1]
      PROVE  far[q] <= x[2] + d[3] + y[2]
  <2>1. /\ x[1] \in Router!Nodes /\ x[2] \in Nat /\ far[Router!AtNode(x[1])] <= far[p] + x[2]
        /\ y[1] \in Router!Nodes /\ y[2] \in Nat /\ far[q] <= far[Router!AtNode(y[1])] + y[2]
    BY <1>5
  <2>2. d[3] \in Nat /\ far[Router!AtNode(y[1])] <= far[Router!AtNode(x[1])] + d[3]
    BY <1>7, GaugeOnDistances
  <2>3. far[Router!AtNode(x[1])] \in Nat /\ far[Router!AtNode(y[1])] \in Nat
    BY <1>2, <2>1
  <2> QED
    BY <1>1, <2>1, <2>2, <2>3
<1>8. Gap(p.at, q.at) \in Nat
  BY <1>0, GapType
<1>9. ASSUME NEW x \in Exits(p), NEW y \in Exits(q), NEW d \in NodeDistances,
             d[1] = x[1], d[2] = y[1], x[2] + d[3] + y[2] < far[q]
      PROVE  FALSE
  <2>1. x[2] \in Nat /\ y[2] \in Nat /\ d[3] \in Nat
    BY <1>5, GaugeOnDistances
  <2> QED
    BY <1>1, <1>7, <1>9, <2>1
<1>10. ~ (p.on = q.on /\ Gap(p.at, q.at) < far[q])
  BY <1>1, <1>6, <1>8
<1> QED
  BY <1>9, <1>10 DEF Undercut

-----------------------------------------------------------------------------
(* The legs of a mission *)

\* What the hops of a mission are.
Hops == [to : Places, edge : Router!Corridors \cup {Router!None}, gate : BOOLEAN]

\* Hops from stop to stop along corridors, and how far it is to each.
Driven(from, hop) == Gap(Along(from, hop.edge), Along(hop.to, hop.edge))
Follows(from, hop) ==
  OnCorridor(from, hop.edge) /\ OnCorridor(hop.to, hop.edge) /\ Driven(from, hop) \in Nat
Trail(start, hops, miles) ==
  /\ miles \in [0 .. Len(hops) -> Nat]
  /\ miles[0] = 0
  /\ \A i \in 1 .. Len(hops) :
       /\ Follows(Stage(start, hops, i - 1), hops[i])
       /\ miles[i] = miles[i - 1] + Driven(Stage(start, hops, i - 1), hops[i])

\* A shortest leg from a goal to the next.
Leg(p, hops, q) ==
  \E miles : /\ Trail(p, hops, miles)
             /\ Stage(p, hops, Len(hops)) = q
             /\ ~ Undercut(miles[Len(hops)], p, q)

\* A part of the split graph is driven along its corridor.
LEMMA AlongPart ==
  ASSUME NEW places \in SUBSET (Places \cup {Router!Unknown}), NEW from, NEW hop, NEW length,
         Stretch(Router!Parts(places), from, hop, length)
  PROVE  Follows(from, hop) /\ length = Driven(from, hop)
<1>1. PICK h \in Router!Parts(places) : h.from = from /\ h.to = hop.to /\ h.base = hop.edge /\ h.length = length
  BY DEF Stretch
<1>2. PICK c \in Router!Corridors : \E d, e \in Stops(places, c) : h = Part(c, d, e)
  BY PartsAre
<1>3. PICK d \in Stops(places, c) : \E e \in Stops(places, c) : h = Part(c, d, e)
  BY <1>2
<1>4. PICK e \in Stops(places, c) : h = Part(c, d, e)
  BY <1>3
<1>5. d \in 0 .. Corridor[c].length /\ e \in 0 .. Corridor[c].length
  BY StopsOK
<1>6. /\ OnCorridor(Router!PlaceIn(c, d), c) /\ Along(Router!PlaceIn(c, d), c) = d
      /\ OnCorridor(Router!PlaceIn(c, e), c) /\ Along(Router!PlaceIn(c, e), c) = e
  BY <1>5, PlaceInOK
<1>7. /\ from = Router!PlaceIn(c, d) /\ hop.to = Router!PlaceIn(c, e) /\ hop.edge = c
      /\ length = Gap(d, e)
  BY <1>1, <1>4 DEF Part
<1>8. Gap(d, e) \in Nat
  BY <1>5, CorridorOK, GapType
<1> QED
  BY <1>6, <1>7, <1>8 DEF Follows, Driven

\* Every stop on the way is a place.
LEMMA SpotIsPlace ==
  ASSUME NEW places \in SUBSET (Places \cup {Router!Unknown}), NEW x \in Spots(Router!Parts(places))
  PROVE  x \in Places
<1>1. PICK c \in Router!Corridors : \E d \in Stops(places, c) : x = Router!PlaceIn(c, d)
  BY SpotsAre
<1>2. PICK d \in Stops(places, c) : x = Router!PlaceIn(c, d)
  BY <1>1
<1>3. /\ d \in 0 .. Corridor[c].length /\ Corridor[c].length \in Nat
      /\ Corridor[c].a \in Router!Nodes /\ Corridor[c].b \in Router!Nodes /\ c \notin Router!Nodes
  BY StopsOK, CorridorOK
<1>4. \A n \in Router!Nodes : Router!AtNode(n) \in Places
  BY DEF Router!AtNode, Places, IsPlace
<1>5. CASE d = 0 \/ d = Corridor[c].length
  BY <1>2, <1>3, <1>4, <1>5, PlaceInOK
<1>6. CASE d # 0 /\ d # Corridor[c].length
  <2>1. x = [on |-> c, at |-> d]
    BY <1>2, <1>3, <1>6, PlaceInOK
  <2>2. d \in Nat /\ 0 < d /\ d < Corridor[c].length
    BY <1>3, <1>6
  <2> QED
    BY <1>3, <2>1, <2>2 DEF Places, IsPlace
<1> QED
  BY <1>5, <1>6

\* _emit_hop makes a shortest leg.
LEMMA EmitHopIsLeg ==
  ASSUME NEW places \in SUBSET (Places \cup {Router!Unknown}), IsFiniteSet(places),
         NEW p \in places, p \in Places,
         NEW point \in [place : Places, gate : BOOLEAN], point.place \in places
  PROVE  /\ Router!EmitHop(Router!Parts(places), p, point) \in Seq(Hops)
         /\ Leg(p, Router!EmitHop(Router!Parts(places), p, point), point.place)
<1> DEFINE parts == Router!Parts(places)
           q == point.place
           path == Router!ShortestPath(parts, p, q)
           hops == Router!EmitHop(parts, p, point)
           S == [to : Spots(parts), edge : Router!Corridors]
<1>0. q \in Places /\ q \in places /\ point.gate \in BOOLEAN
  OBVIOUS
<1>1. Split(parts) /\ IsFiniteSet(Spots(parts))
  BY PartsFit, SpotsFinite
<1>2. p \in Spots(parts) /\ q \in Spots(parts)
  BY <1>0, PlaceIsStop, SpotsAre
<1>3. Reaches(parts, p, q)
  BY <1>0, AllReached
<1>4. PICK w, far : /\ w \in Ways(parts) /\ Leads(parts, p, w) /\ w.place = q
                    /\ w.hops = path
                    /\ Gauges(parts, far) /\ far[p] = 0 /\ far[q] = w.length
  <2> HIDE DEF parts, q
  <2> QED
    BY <1>1, <1>2, <1>3, PathIsShortest
<1>5. path \in Seq(S)
  BY <1>4 DEF Ways
<1>6. ~ Undercut(w.length, p, q)
  BY <1>0, <1>4, NotUndercut
<1>7. /\ hops = [i \in 1 .. Len(path) |->
                   [to |-> path[i].to, edge |-> path[i].edge, gate |-> i = Len(path) /\ point.gate]]
  <2>1. DOMAIN path = 1 .. Len(path)
    <3> HIDE DEF path, S
    <3> QED
      BY <1>5
  <2> QED
    BY <2>1 DEF Router!EmitHop, Router!HopsAlong
<1>8. Len(path) \in Nat /\ \A i \in 1 .. Len(path) : path[i] \in S
  <2> HIDE DEF path, S
  <2> QED
    BY <1>5
<1>9. /\ hops \in Seq(Hops) /\ Len(hops) = Len(path)
      /\ \A i \in 1 .. Len(path) : hops[i].to = path[i].to /\ hops[i].edge = path[i].edge
  <2>1. ASSUME NEW i \in 1 .. Len(path) 
        PROVE  [to |-> path[i].to, edge |-> path[i].edge, gate |-> i = Len(path) /\ point.gate] \in Hops
    <3>1. path[i] \in S
      BY <1>8
    <3>2. path[i].to \in Places
      BY <3>1, SpotIsPlace
    <3>3. path[i].edge \in Router!Corridors
      BY <3>1
    <3>4. (i = Len(path) /\ point.gate) \in BOOLEAN
      OBVIOUS
    <3> HIDE DEF path
    <3> QED
      BY <3>2, <3>3, <3>4 DEF Hops
  <2>2. hops \in [1 .. Len(path) -> Hops]
    <3> HIDE DEF hops, path
    <3> QED
      BY <1>7, <2>1
  <2>3. \A i \in 1 .. Len(path) : hops[i].to = path[i].to /\ hops[i].edge = path[i].edge
    <3> HIDE DEF hops, path
    <3> QED
      BY <1>7
  <2>4. hops \in Seq(Hops) /\ Len(hops) = Len(path)
    <3> HIDE DEF hops, path
    <3> QED
      BY <1>8, <2>2
  <2> QED
    BY <2>3, <2>4
<1>10. PICK miles : Measures(parts, p, path, miles) /\ miles[Len(path)] = w.length
  BY <1>4 DEF Leads
<1>11. ASSUME NEW i \in 0 .. Len(path) PROVE Stage(p, hops, i) = Stage(p, path, i)
  <2> HIDE DEF hops, path
  <2> QED
    BY <1>8, <1>9 DEF Stage
<1>12. Trail(p, hops, miles)
  <2>1. miles \in [0 .. Len(hops) -> Nat] /\ miles[0] = 0
    BY <1>9, <1>10 DEF Measures
  <2>2. ASSUME NEW i \in 1 .. Len(hops)
        PROVE  /\ Follows(Stage(p, hops, i - 1), hops[i])
               /\ miles[i] = miles[i - 1] + Driven(Stage(p, hops, i - 1), hops[i])
    <3>1. PICK d \in Nat : miles[i] = miles[i - 1] + d /\ Stretch(parts, Stage(p, path, i - 1), path[i], d)
      BY <1>9, <1>10 DEF Measures
    <3>2. hops[i].to = path[i].to /\ hops[i].edge = path[i].edge
      BY <1>9
    <3>3. Stage(p, hops, i - 1) = Stage(p, path, i - 1)
      <4>1. i - 1 \in 0 .. Len(path)
        BY <1>8, <1>9
      <4> QED
        BY <1>11, <4>1
    <3> DEFINE from == Stage(p, path, i - 1)
               hop == path[i]
    <3>4. Stretch(Router!Parts(places), from, hop, d)
      BY <3>1
    <3> HIDE DEF hops, path, from, hop
    <3>5. Follows(from, hop) /\ d = Driven(from, hop)
      BY <3>4, AlongPart
    <3>6. from = Stage(p, hops, i - 1) /\ hop.to = hops[i].to /\ hop.edge = hops[i].edge
      BY <3>2, <3>3 DEF from, hop
    <3>7. miles[i] = miles[i - 1] + d
      BY <3>1
    <3> QED
      BY <3>5, <3>6, <3>7 DEF Follows, Driven
  <2> HIDE DEF hops
  <2> QED
    BY <2>1, <2>2 DEF Trail
<1>13. Stage(p, hops, Len(hops)) = q
  <2>1. Stage(p, path, Len(path)) = q
    <3> HIDE DEF path, q
    <3> QED
      BY <1>4 DEF Leads
  <2>2. Len(path) \in 0 .. Len(path)
    <3> HIDE DEF path
    <3> QED
      BY <1>8
  <2> QED
    BY <1>9, <1>11, <2>1, <2>2
<1>14. ~ Undercut(miles[Len(hops)], p, q)
  BY <1>6, <1>9, <1>10
<1> HIDE DEF hops
<1>15. Leg(p, hops, q)
  BY <1>12, <1>13, <1>14 DEF Leg
<1> QED
  BY <1>9, <1>15 DEF hops

\* Hops that pass the first n goals, each leg by a way that is not undercut.
Rides(goals, n, hops) ==
  \E miles, at :
    /\ Trail(goals[1], hops, miles)
    /\ at \in [1 .. n -> 0 .. Len(hops)]
    /\ at[1] = 0 /\ at[n] = Len(hops)
    /\ \A i \in 1 .. n : Stage(goals[1], hops, at[i]) = goals[i]
    /\ \A i \in 1 .. n - 1 : /\ at[i] <= at[i + 1]
                             /\ ~ Undercut(miles[at[i + 1]] - miles[at[i]], goals[i], goals[i + 1])

\* Hops that pass n goals and a leg to the next pass n + 1.
LEMMA OneMoreLeg ==
  ASSUME NEW goals, NEW n \in Nat \ {0}, NEW hops \in Seq(Hops), Rides(goals, n, hops),
         NEW leg \in Seq(Hops), Leg(goals[n], leg, goals[n + 1])
  PROVE  Rides(goals, n + 1, hops \o leg)
<1> DEFINE m == Len(hops)
           k == Len(leg)
           all == hops \o leg
           p == goals[1]
<1>1. /\ m \in Nat /\ k \in Nat /\ all \in Seq(Hops) /\ Len(all) = m + k
      /\ \A i \in 1 .. m : all[i] = hops[i]
      /\ \A i \in 1 .. k : all[m + i] = leg[i]
  OBVIOUS
<1>2. PICK miles, at :
        /\ Trail(p, hops, miles)
        /\ at \in [1 .. n -> 0 .. m]
        /\ at[1] = 0 /\ at[n] = m
        /\ \A i \in 1 .. n : Stage(p, hops, at[i]) = goals[i]
        /\ \A i \in 1 .. n - 1 : /\ at[i] <= at[i + 1]
                                 /\ ~ Undercut(miles[at[i + 1]] - miles[at[i]], goals[i], goals[i + 1])
  BY DEF Rides
<1>3. PICK more : /\ Trail(goals[n], leg, more)
                  /\ Stage(goals[n], leg, k) = goals[n + 1]
                  /\ ~ Undercut(more[k], goals[n], goals[n + 1])
  BY DEF Leg
<1> HIDE DEF m, k, all, p
<1>4. /\ miles \in [0 .. m -> Nat] /\ miles[0] = 0
      /\ \A i \in 1 .. m : /\ Follows(Stage(p, hops, i - 1), hops[i])
                           /\ miles[i] = miles[i - 1] + Driven(Stage(p, hops, i - 1), hops[i])
  BY <1>2 DEF Trail, m
<1>5. /\ more \in [0 .. k -> Nat] /\ more[0] = 0
      /\ \A i \in 1 .. k : /\ Follows(Stage(goals[n], leg, i - 1), leg[i])
                           /\ more[i] = more[i - 1] + Driven(Stage(goals[n], leg, i - 1), leg[i])
  BY <1>3 DEF Trail, k
<1>6. goals[n] = Stage(p, hops, m)
  BY <1>2
<1>7. ASSUME NEW i \in 0 .. m PROVE Stage(p, all, i) = Stage(p, hops, i)
  <2>1. CASE i = 0
    BY <2>1 DEF Stage
  <2>2. CASE i # 0
    <3>1. i \in 1 .. m
      BY <1>1, <2>2
    <3>2. all[i] = hops[i]
      BY <1>1, <3>1
    <3> QED
      BY <2>2, <3>2 DEF Stage
  <2> QED
    BY <2>1, <2>2
<1>8. ASSUME NEW i \in 0 .. k PROVE Stage(p, all, m + i) = Stage(goals[n], leg, i)
  <2>1. CASE i = 0
    <3>1. m + i = m /\ m \in 0 .. m /\ Stage(goals[n], leg, i) = goals[n]
      BY <1>1, <2>1 DEF Stage
    <3> QED
      BY <1>6, <1>7, <3>1
  <2>2. CASE i # 0
    <3>1. i \in 1 .. k /\ m + i # 0
      BY <1>1, <2>2
    <3>2. all[m + i] = leg[i]
      BY <1>1, <3>1
    <3> QED
      BY <2>2, <3>1, <3>2 DEF Stage
  <2> QED
    BY <2>1, <2>2
<1> DEFINE total == [i \in 0 .. m + k |-> IF i <= m THEN miles[i] ELSE miles[m] + more[i - m]]
           cut == [i \in 1 .. n + 1 |-> IF i <= n THEN at[i] ELSE m + k]
<1>9. ASSUME NEW i \in 0 .. m PROVE total[i] = miles[i] /\ miles[i] \in Nat
  BY <1>1, <1>4
<1>10. ASSUME NEW i \in 0 .. k PROVE total[m + i] = miles[m] + more[i] /\ more[i] \in Nat
  <2>1. CASE i = 0
    <3>1. m + i = m /\ m \in 0 .. m /\ miles[m] \in Nat /\ more[i] = 0
      BY <1>1, <1>4, <1>5, <2>1
    <3> HIDE DEF total
    <3> QED
      BY <1>9, <3>1
  <2>2. CASE i # 0
    <3>1. m + i \in 0 .. m + k /\ ~ (m + i <= m) /\ (m + i) - m = i /\ more[i] \in Nat
      BY <1>1, <1>5, <2>2
    <3> QED
      BY <3>1
  <2> QED
    BY <2>1, <2>2
<1>11. Trail(p, all, total)
  <2> DEFINE Good(i) == /\ Follows(Stage(p, all, i - 1), all[i])
                        /\ total[i] = total[i - 1] + Driven(Stage(p, all, i - 1), all[i])
  <2>0. ASSUME NEW i \in 0 .. m + k PROVE i \in 0 .. m \/ (i - m \in 1 .. k /\ i = m + (i - m))
    BY <1>1
  <2>1. total \in [0 .. m + k -> Nat] /\ total[0] = 0
    <3>1. miles[m] \in Nat /\ m \in 0 .. m /\ 0 \in 0 .. m
      BY <1>1, <1>4
    <3>2. ASSUME NEW i \in 0 .. m + k PROVE total[i] \in Nat
      <4> HIDE DEF total
      <4>1. CASE i \in 0 .. m
        BY <1>9, <4>1
      <4>2. CASE i - m \in 1 .. k /\ i = m + (i - m)
        <5>1. i - m \in 0 .. k
          BY <1>1, <4>2
        <5>2. total[m + (i - m)] = miles[m] + more[i - m] /\ more[i - m] \in Nat
          BY <1>10, <5>1
        <5> QED
          BY <3>1, <4>2, <5>2
      <4> QED
        BY <2>0, <4>1, <4>2
    <3>3. total = [i \in 0 .. m + k |-> total[i]]
      OBVIOUS
    <3>4. total[0] = 0
      BY <1>4, <1>9, <3>1
    <3> HIDE DEF total
    <3> QED
      BY <3>2, <3>3, <3>4
  <2>2. ASSUME NEW i \in 1 .. m PROVE Good(i)
    <3>1. i \in 0 .. m /\ i - 1 \in 0 .. m
      BY <1>1
    <3>2. /\ total[i] = miles[i] /\ total[i - 1] = miles[i - 1] /\ all[i] = hops[i]
          /\ Stage(p, all, i - 1) = Stage(p, hops, i - 1)
      BY <1>1, <1>7, <1>9, <3>1
    <3> HIDE DEF total
    <3> QED
      BY <1>4, <3>2
  <2>3. ASSUME NEW i \in 1 .. k PROVE Good(m + i)
    <3>1. i \in 0 .. k /\ i - 1 \in 0 .. k /\ (m + i) - 1 = m + (i - 1)
      BY <1>1
    <3>2. /\ total[m + i] = miles[m] + more[i] /\ total[m + (i - 1)] = miles[m] + more[i - 1]
          /\ more[i] \in Nat /\ more[i - 1] \in Nat /\ all[m + i] = leg[i]
          /\ Stage(p, all, m + (i - 1)) = Stage(goals[n], leg, i - 1)
      <4> HIDE DEF total
      <4> QED
        BY <1>1, <1>8, <1>10, <3>1
    <3> DEFINE d == Driven(Stage(goals[n], leg, i - 1), leg[i])
    <3>3. /\ Follows(Stage(goals[n], leg, i - 1), leg[i]) /\ d \in Nat
          /\ more[i] = more[i - 1] + d
      BY <1>5 DEF Follows
    <3>4. Follows(Stage(p, all, (m + i) - 1), all[m + i]) /\ d = Driven(Stage(p, all, (m + i) - 1), all[m + i])
      BY <3>1, <3>2, <3>3
    <3>5. miles[m] \in Nat
      BY <1>1, <1>4
    <3> HIDE DEF total, d
    <3>6. total[m + i] = total[(m + i) - 1] + d
      BY <3>1, <3>2, <3>3, <3>5
    <3> QED
      BY <3>4, <3>6
  <2>4. ASSUME NEW i \in 1 .. m + k PROVE Good(i)
    <3> HIDE DEF Good
    <3>1. i \in 1 .. m \/ (i - m \in 1 .. k /\ i = m + (i - m))
      BY <1>1
    <3> QED
      BY <2>2, <2>3, <3>1
  <2> HIDE DEF total
  <2> QED
    BY <1>1, <2>1, <2>4 DEF Trail
<1>12. /\ cut \in [1 .. n + 1 -> 0 .. m + k] /\ cut[1] = 0 /\ cut[n + 1] = m + k
       /\ \A i \in 1 .. n : cut[i] = at[i]
  <2>1. \A i \in 1 .. n : at[i] \in 0 .. m
    BY <1>2
  <2>2. \A i \in 1 .. n + 1 : (IF i <= n THEN at[i] ELSE m + k) \in 0 .. m + k
    BY <1>1, <2>1
  <2>3. 1 \in 1 .. n + 1 /\ n + 1 \in 1 .. n + 1 /\ 1 <= n /\ ~ (n + 1 <= n)
    OBVIOUS
  <2> QED
    BY <1>2, <2>2, <2>3
<1> HIDE DEF total, cut
<1>13. ASSUME NEW i \in 1 .. n + 1 PROVE Stage(p, all, cut[i]) = goals[i]
  <2>1. CASE i = n + 1
    <3>1. k \in 0 .. k
      BY <1>1
    <3> QED
      BY <1>3, <1>8, <1>12, <2>1, <3>1
  <2>2. CASE i \in 1 .. n
    <3>1. cut[i] = at[i] /\ at[i] \in 0 .. m /\ Stage(p, hops, at[i]) = goals[i]
      BY <1>2, <1>12, <2>2
    <3> QED
      BY <1>7, <3>1
  <2> QED
    BY <2>1, <2>2
<1>14. ASSUME NEW i \in 1 .. (n + 1) - 1
       PROVE  /\ cut[i] <= cut[i + 1]
              /\ ~ Undercut(total[cut[i + 1]] - total[cut[i]], goals[i], goals[i + 1])
  <2>1. CASE i = n
    <3>1. /\ cut[i] = m /\ cut[i + 1] = m + k /\ m \in 0 .. m /\ k \in 0 .. k
      BY <1>1, <1>2, <1>12, <2>1
    <3>2. total[m] = miles[m] /\ total[m + k] = miles[m] + more[k] /\ miles[m] \in Nat /\ more[k] \in Nat
      BY <1>9, <1>10, <3>1
    <3>3. total[cut[i + 1]] - total[cut[i]] = more[k]
      BY <3>1, <3>2
    <3>4. ~ Undercut(total[cut[i + 1]] - total[cut[i]], goals[i], goals[i + 1])
      BY <1>3, <2>1, <3>3
    <3> QED
      BY <1>1, <3>1, <3>4
  <2>2. CASE i \in 1 .. n - 1
    <3>1. i \in 1 .. n /\ i + 1 \in 1 .. n
      BY <2>2
    <3>2. cut[i] = at[i] /\ cut[i + 1] = at[i + 1] /\ at[i] \in 0 .. m /\ at[i + 1] \in 0 .. m
      BY <1>2, <1>12, <3>1
    <3>3. total[cut[i]] = miles[at[i]] /\ total[cut[i + 1]] = miles[at[i + 1]]
      BY <1>9, <3>2
    <3> QED
      BY <1>2, <2>2, <3>2, <3>3
  <2> QED
    BY <2>1, <2>2
<1>15. Trail(goals[1], all, total) /\ Len(all) = m + k
  BY <1>1, <1>11 DEF p
<1>16. \A i \in 1 .. n + 1 : Stage(goals[1], all, cut[i]) = goals[i]
  BY <1>13 DEF p
<1>17. Rides(goals, n + 1, all)
  BY <1>12, <1>14, <1>15, <1>16 DEF Rides
<1> QED
  BY <1>17 DEF all

\* It does not matter in which order sequences are joined.
LEMMA HopsOneByOne ==
  \A a, b, c \in Seq(Hops) : (a \o b) \o c = a \o (b \o c)
OBVIOUS

\* Legs one after the other pass their goals.
LEMMA JoinedRides ==
  ASSUME NEW goals, NEW n \in Nat \ {0}, NEW first \in Seq(Hops), Rides(goals, n, first),
         NEW legs \in Seq(Seq(Hops)),
         \A i \in 1 .. Len(legs) : Leg(goals[n + i - 1], legs[i], goals[n + i])
  PROVE  /\ Router!Joined(legs) \in Seq(Hops)
         /\ Rides(goals, n + Len(legs), first \o Router!Joined(legs))
<1>1. Len(legs) \in Nat /\ \A i \in 1 .. Len(legs) : legs[i] \in Seq(Hops)
  OBVIOUS
<1>2. PICK f : /\ f[0] = << >> /\ \A i \in 1 .. Len(legs) : f[i] = f[i - 1] \o legs[i]
               /\ Router!Joined(legs) = f[Len(legs)]
  BY <1>1, JoinedExists
<1> DEFINE good == {i \in Nat : i <= Len(legs) => f[i] \in Seq(Hops) /\ Rides(goals, n + i, first \o f[i])}
<1>3. Nat \subseteq good
  <2>1. 0 \in good
    <3>1. f[0] \in Seq(Hops) /\ first \o f[0] = first /\ n + 0 = n
      BY <1>2
    <3> QED
      BY <3>1
  <2>2. ASSUME NEW i \in Nat, i \in good PROVE i + 1 \in good
    <3> SUFFICES ASSUME i + 1 <= Len(legs)
                 PROVE  f[i + 1] \in Seq(Hops) /\ Rides(goals, n + (i + 1), first \o f[i + 1])
      OBVIOUS
    <3>1. f[i] \in Seq(Hops) /\ Rides(goals, n + i, first \o f[i])
      BY <1>1, <2>2
    <3>2. i + 1 \in 1 .. Len(legs) /\ (i + 1) - 1 = i /\ n + (i + 1) - 1 = n + i
      BY <1>1
    <3>3. /\ f[i + 1] = f[i] \o legs[i + 1] /\ legs[i + 1] \in Seq(Hops)
          /\ Leg(goals[n + i], legs[i + 1], goals[n + (i + 1)])
      BY <1>1, <1>2, <3>2
    <3>4. (n + i) + 1 = n + (i + 1) /\ n + i \in Nat \ {0}
      OBVIOUS
    <3>5. first \o f[i] \in Seq(Hops)
      BY <3>1
    <3>6. Rides(goals, (n + i) + 1, (first \o f[i]) \o legs[i + 1])
      BY <3>1, <3>3, <3>4, <3>5, OneMoreLeg
    <3>7. (first \o f[i]) \o legs[i + 1] = first \o f[i + 1] /\ f[i + 1] \in Seq(Hops)
      <4>1. (first \o f[i]) \o legs[i + 1] = first \o (f[i] \o legs[i + 1])
        BY <3>1, <3>3, HopsOneByOne
      <4>2. f[i] \o legs[i + 1] \in Seq(Hops)
        BY <3>1, <3>3
      <4> QED
        BY <3>3, <4>1, <4>2
    <3> QED
      BY <3>4, <3>6, <3>7
  <2> HIDE DEF good
  <2> QED
    BY <2>1, <2>2, AllNumbers
<1>4. Len(legs) \in good /\ Len(legs) <= Len(legs)
  <2> HIDE DEF good
  <2> QED
    BY <1>1, <1>3
<1> QED
  BY <1>2, <1>4

\* How far it is to each stop.
LEMMA MileageIs ==
  ASSUME NEW n \in Nat, NEW stops, DOMAIN stops = 1 .. n + 1, NEW hops, Len(hops) = n, NEW miles,
         miles[0] = 0,
         \A i \in 1 .. n : miles[i] = miles[i - 1] + Gap(Along(stops[i], hops[i].edge), Along(stops[i + 1], hops[i].edge))
  PROVE  \A i \in 1 .. n + 1 : Mileage(stops, hops)[i] = miles[i - 1]
<1> DEFINE Step(f, i) == f[i - 1] + Gap(Along(stops[i - 1], hops[i - 1].edge), Along(stops[i], hops[i - 1].edge))
           Upto(f) == f = [i \in DOMAIN stops |->
                             IF i = 1 THEN 0
                             ELSE f[i - 1] + Gap(Along(stops[i - 1], hops[i - 1].edge), Along(stops[i], hops[i - 1].edge))]
           known == [i \in 1 .. n + 1 |-> miles[i - 1]]
<1>1. Upto(known)
  <2>1. ASSUME NEW i \in 1 .. n + 1
        PROVE  known[i] = IF i = 1 THEN 0 ELSE Step(known, i)
    <3>1. CASE i = 1
      BY <3>1
    <3>2. CASE i # 1
      <4>1. i - 1 \in 1 .. n /\ i - 1 \in 1 .. n + 1 /\ (i - 1) + 1 = i
        BY <3>2
      <4>2. known[i] = miles[i - 1] /\ known[i - 1] = miles[(i - 1) - 1]
        BY <4>1
      <4>3. miles[i - 1] = miles[(i - 1) - 1] + Gap(Along(stops[i - 1], hops[i - 1].edge), Along(stops[i], hops[i - 1].edge))
        BY <4>1
      <4> HIDE DEF known
      <4> QED
        BY <3>2, <4>2, <4>3
    <3> QED
      BY <3>1, <3>2
  <2>2. known = [i \in 1 .. n + 1 |-> known[i]]
    OBVIOUS
  <2> HIDE DEF known
  <2> QED
    BY <2>1, <2>2
<1>2. PICK f : f = (CHOOSE g : Upto(g)) /\ Upto(f)
  <2> HIDE DEF Upto
  <2> QED
    BY <1>1
<1>3. Mileage(stops, hops) = f
  BY <1>2 DEF Mileage
<1>4. \A i \in 1 .. n + 1 : f[i] = IF i = 1 THEN 0 ELSE Step(f, i)
  BY <1>2
<1> DEFINE good == {i \in Nat : i <= n => f[i + 1] = miles[i]}
<1>5. Nat \subseteq good
  <2> HIDE DEF Upto
  <2>1. 0 \in good
    <3>1. f[1] = 0
      BY <1>4
    <3> QED
      BY <3>1
  <2>2. ASSUME NEW i \in Nat, i \in good PROVE i + 1 \in good
    <3> SUFFICES ASSUME i + 1 <= n PROVE f[(i + 1) + 1] = miles[i + 1]
      OBVIOUS
    <3>1. f[i + 1] = miles[i]
      BY <2>2
    <3>2. /\ (i + 1) + 1 \in 1 .. n + 1 /\ (i + 1) + 1 # 1 /\ ((i + 1) + 1) - 1 = i + 1
          /\ i + 1 \in 1 .. n /\ (i + 1) - 1 = i
      OBVIOUS
    <3>3. f[(i + 1) + 1] = Step(f, (i + 1) + 1)
      BY <1>4, <3>2
    <3>4. f[(i + 1) + 1] = f[i + 1] + Gap(Along(stops[i + 1], hops[i + 1].edge), Along(stops[(i + 1) + 1], hops[i + 1].edge))
      BY <3>2, <3>3
    <3>5. miles[i + 1] = miles[i] + Gap(Along(stops[i + 1], hops[i + 1].edge), Along(stops[(i + 1) + 1], hops[i + 1].edge))
      BY <3>2
    <3> QED
      BY <3>1, <3>4, <3>5
  <2> HIDE DEF good
  <2> QED
    BY <2>1, <2>2, AllNumbers
<1> SUFFICES ASSUME NEW i \in 1 .. n + 1 PROVE Mileage(stops, hops)[i] = miles[i - 1]
  OBVIOUS
<1>6. i - 1 \in good /\ i - 1 <= n /\ (i - 1) + 1 = i
  <2> HIDE DEF good
  <2> QED
    BY <1>5
<1> QED
  BY <1>3, <1>6

\* Hops that pass all goals are a shortest way through them.
LEMMA RidesShortestWay ==
  ASSUME NEW goals, NEW n \in Nat \ {0}, DOMAIN goals = 1 .. n, Len(goals) = n,
         NEW hops \in Seq(Hops), Rides(goals, n, hops),
         NEW stops, DOMAIN stops = 1 .. Len(hops) + 1, Len(stops) = Len(hops) + 1,
         \A i \in 0 .. Len(hops) : stops[i + 1] = Stage(goals[1], hops, i)
  PROVE  ShortestWay(goals, stops, hops)
<1> DEFINE m == Len(hops)
<1>1. PICK miles, at :
        /\ Trail(goals[1], hops, miles)
        /\ at \in [1 .. n -> 0 .. m]
        /\ at[1] = 0 /\ at[n] = m
        /\ \A i \in 1 .. n : Stage(goals[1], hops, at[i]) = goals[i]
        /\ \A i \in 1 .. n - 1 : /\ at[i] <= at[i + 1]
                                 /\ ~ Undercut(miles[at[i + 1]] - miles[at[i]], goals[i], goals[i + 1])
  BY DEF Rides
<1>2. m \in Nat /\ DOMAIN hops = 1 .. m
  OBVIOUS
<1> HIDE DEF m
<1>3. /\ miles[0] = 0
      /\ \A i \in 1 .. m : /\ Follows(Stage(goals[1], hops, i - 1), hops[i])
                           /\ miles[i] = miles[i - 1] + Driven(Stage(goals[1], hops, i - 1), hops[i])
  BY <1>1 DEF Trail, m
<1>4. ASSUME NEW i \in 1 .. m
      PROVE  stops[i] = Stage(goals[1], hops, i - 1) /\ stops[i + 1] = hops[i].to
  <2>1. i - 1 \in 0 .. m /\ i \in 0 .. m /\ (i - 1) + 1 = i /\ i # 0
    BY <1>2
  <2> QED
    BY <2>1 DEF Stage, m
<1>5. FollowsCorridors(stops, hops)
  BY <1>2, <1>3, <1>4 DEF FollowsCorridors, Follows
<1>6. \A i \in 1 .. m + 1 : Mileage(stops, hops)[i] = miles[i - 1]
  <2>1. \A i \in 1 .. m : miles[i] = miles[i - 1] + Gap(Along(stops[i], hops[i].edge), Along(stops[i + 1], hops[i].edge))
    BY <1>3, <1>4 DEF Driven
  <2> QED
    BY <1>2, <1>3, <2>1, MileageIs DEF m
<1> DEFINE cut == [i \in 1 .. n |-> at[i] + 1]
<1>7. ASSUME NEW i \in 1 .. n
      PROVE  /\ cut[i] = at[i] + 1 /\ cut[i] \in 1 .. m + 1 /\ at[i] \in 0 .. m
             /\ stops[cut[i]] = goals[i] /\ Mileage(stops, hops)[cut[i]] = miles[at[i]]
  <2>1. at[i] \in 0 .. m /\ cut[i] = at[i] + 1
    BY <1>1
  <2>2. cut[i] \in 1 .. m + 1 /\ cut[i] - 1 = at[i]
    BY <1>2, <2>1
  <2> HIDE DEF cut
  <2>3. stops[cut[i]] = goals[i]
    BY <1>1, <2>1 DEF m
  <2> QED
    BY <1>6, <2>1, <2>2, <2>3
<1>8. cut \in [1 .. n -> 1 .. m + 1]
  <2>1. cut = [i \in 1 .. n |-> cut[i]]
    OBVIOUS
  <2> HIDE DEF cut
  <2> QED
    BY <1>7, <2>1
<1> HIDE DEF cut
<1>9. Passes(goals, stops, cut)
  <2>1. 1 \in 1 .. n /\ n \in 1 .. n
    OBVIOUS
  <2>2. cut[1] = 1 /\ cut[n] = m + 1
    BY <1>1, <1>2, <1>7, <2>1
  <2>3. ASSUME NEW i \in 1 .. n - 1 PROVE cut[i] <= cut[i + 1]
    <3>1. i \in 1 .. n /\ i + 1 \in 1 .. n
      OBVIOUS
    <3>2. /\ cut[i] = at[i] + 1 /\ cut[i + 1] = at[i + 1] + 1 
          /\ at[i] \in 0 .. m /\ at[i + 1] \in 0 .. m /\ at[i] <= at[i + 1]
      BY <1>1, <1>7, <3>1
    <3> QED
      BY <1>2, <3>2
  <2> QED
    BY <1>7, <2>2, <2>3 DEF Passes, m
<1>10. ASSUME NEW i \in 1 .. n - 1
       PROVE  ~ Undercut(Mileage(stops, hops)[cut[i + 1]] - Mileage(stops, hops)[cut[i]], goals[i], goals[i + 1])
  <2>1. i \in 1 .. n /\ i + 1 \in 1 .. n
    OBVIOUS
  <2>2. Mileage(stops, hops)[cut[i]] = miles[at[i]] /\ Mileage(stops, hops)[cut[i + 1]] = miles[at[i + 1]]
    BY <1>7, <2>1
  <2> QED
    BY <1>1, <2>2
<1> QED
  BY <1>5, <1>8, <1>9, <1>10 DEF ShortestWay, m

\* No hop passes the first goal.
LEMMA RidesNowhere ==
  ASSUME NEW goals PROVE Rides(goals, 1, << >>)
<1> DEFINE miles == [i \in 0 .. 0 |-> 0]
           at == [i \in 1 .. 1 |-> 0]
<1>1. Trail(goals[1], << >>, miles)
  <2>1. miles \in [0 .. Len(<< >>) -> Nat] /\ miles[0] = 0
    OBVIOUS
  <2>2. \A i \in 1 .. Len(<< >>) : FALSE
    OBVIOUS
  <2> HIDE DEF miles
  <2> QED
    BY <2>1, <2>2 DEF Trail
<1>2. /\ at \in [1 .. 1 -> 0 .. Len(<< >>)]
      /\ at[1] = 0 /\ at[1] = Len(<< >>)
  OBVIOUS
<1>3. \A i \in 1 .. 1 : Stage(goals[1], << >>, at[i]) = goals[i]
  BY DEF Stage
<1>4. \A i \in 1 .. 1 - 1 : FALSE
  OBVIOUS
<1> HIDE DEF miles, at
<1> QED
  BY <1>1, <1>2, <1>3, <1>4 DEF Rides

\* _route_zone leads by shortest ways.
LEMMA RouteZoneIsShortest ==
  ASSUME NEW zone \in Zones, NEW start \in Places \cup {Router!Unknown}
  PROVE  /\ Router!RouteZone(zone, start) \in Seq(Hops)
         /\ Shortest(zone, start, Router!RouteZone(zone, start))
<1> DEFINE P == [place : Places, gate : BOOLEAN]
           points == zone.points
           n == Len(points)
           places == {points[i].place : i \in DOMAIN points} \cup {start}
           parts == Router!Parts(places)
           goals == [i \in 1 .. n |-> points[i].place]
           legs == [i \in 1 .. n - 1 |-> Router!EmitHop(parts, points[i].place, points[i + 1])]
           joined == Router!Joined(legs)
           direct == << [to |-> points[1].place, edge |-> Router!None, gate |-> points[1].gate] >>
           hops == Router!RouteZone(zone, start)
<1>1. points \in Seq(P) /\ points # << >>
  BY DEF Zones
<1>2. n \in Nat \ {0} /\ DOMAIN points = 1 .. n /\ \A i \in 1 .. n : points[i] \in P
  <2> HIDE DEF P, points
  <2> QED
    BY <1>1
<1> HIDE DEF n, points
<1>3. \A i \in 1 .. n : points[i].place \in Places /\ points[i].place \in places /\ points[i].gate \in BOOLEAN
  BY <1>2
<1>4. places \in SUBSET (Places \cup {Router!Unknown}) /\ IsFiniteSet(places)
  <2>1. IsFiniteSet({goals[i] : i \in 1 .. n})
    <3>1. IsFiniteSet(1 .. n)
      BY <1>2, FS_Interval
    <3>2. DOMAIN goals = 1 .. n
      OBVIOUS
    <3> HIDE DEF goals
    <3> QED
      BY <3>1, <3>2, ImageFinite
  <2>2. places = {goals[i] : i \in 1 .. n} \cup {start}
    BY <1>2
  <2> HIDE DEF goals
  <2>3. IsFiniteSet({goals[i] : i \in 1 .. n} \cup {start})
    BY <2>1, FS_AddElement
  <2>4. places \in SUBSET (Places \cup {Router!Unknown})
    BY <1>2, <1>3
  <2> HIDE DEF places
  <2> QED
    BY <2>2, <2>3, <2>4
<1>5. goals \in [1 .. n -> Places] /\ DOMAIN goals = 1 .. n /\ Len(goals) = n
  <2>1. goals \in [1 .. n -> Places]
    BY <1>3
  <2> HIDE DEF goals
  <2> QED
    BY <1>2, <2>1
<1>6. ASSUME NEW i \in 1 .. n - 1
      PROVE  legs[i] \in Seq(Hops) /\ Leg(goals[i], legs[i], goals[i + 1])
  <2>1. i \in 1 .. n /\ i + 1 \in 1 .. n
    BY <1>2
  <2> DEFINE p == points[i].place
             q == points[i + 1]
  <2>2. p \in places /\ p \in Places /\ q \in P /\ q.place \in places
    BY <1>2, <1>3, <2>1
  <2>3. legs[i] = Router!EmitHop(parts, p, q) /\ goals[i] = p /\ goals[i + 1] = q.place
    BY <2>1
  <2> HIDE DEF p, q, places, legs, goals
  <2> QED
    BY <1>4, <2>2, <2>3, EmitHopIsLeg
<1>7. legs \in Seq(Seq(Hops)) /\ Len(legs) = n - 1
  <2>1. legs = [i \in 1 .. n - 1 |-> legs[i]]
    OBVIOUS
  <2> HIDE DEF legs
  <2>2. \A i \in 1 .. n - 1 : legs[i] \in Seq(Hops)
    BY <1>6
  <2>3. legs \in [1 .. n - 1 -> Seq(Hops)] /\ n - 1 \in Nat
    BY <1>2, <2>1, <2>2
  <2> QED
    BY <2>3
<1>8. hops = (IF start \in {Router!Unknown, goals[1]} THEN direct ELSE Router!EmitHop(parts, start, points[1])) \o joined
  <2>1. goals[1] = points[1].place
    BY <1>2
  <2> QED
    BY <2>1 DEF Router!RouteZone, Router!RouteThrough, points, n
<1>9. [i \in DOMAIN zone.points |-> zone.points[i].place] = goals
  BY <1>2 DEF points
<1>10. points[1].place = goals[1] /\ points[1] \in P
  BY <1>2
<1> HIDE DEF goals, legs, places, hops
<1> DEFINE tos == [i \in DOMAIN hops |-> hops[i].to]
<1>11. CASE start \in {Router!Unknown, goals[1]}
  <2> DEFINE k == 1
             none == << >>
  <2>1. Rides(goals, k, none) /\ none \in Seq(Hops) /\ k \in Nat \ {0}
    BY RidesNowhere
  <2>2. \A i \in 1 .. Len(legs) : Leg(goals[k + i - 1], legs[i], goals[k + i])
    <3> SUFFICES ASSUME NEW i \in 1 .. Len(legs) PROVE Leg(goals[k + i - 1], legs[i], goals[k + i])
      OBVIOUS
    <3>1. k + i - 1 = i /\ k + i = i + 1 /\ i \in 1 .. n - 1
      BY <1>2, <1>7
    <3> QED
      BY <1>6, <3>1
  <2> HIDE DEF k, none
  <2>3. joined \in Seq(Hops) /\ Rides(goals, k + Len(legs), none \o joined)
    BY <1>7, <2>1, <2>2, JoinedRides
  <2> HIDE DEF joined
  <2>4. Rides(goals, n, joined)
    <3>1. k + Len(legs) = n
      BY <1>2, <1>7 DEF k
    <3>2. none \o joined = joined
      BY <2>3 DEF none
    <3> QED
      BY <2>3, <3>1, <3>2
  <2> DEFINE h == [to |-> points[1].place, edge |-> Router!None, gate |-> points[1].gate]
  <2>5. h \in Hops /\ h.to = goals[1]
    BY <1>2, <1>3, <1>10 DEF Hops
  <2>6. hops = << h >> \o joined
    BY <1>8, <1>11
  <2> HIDE DEF h, direct
  <2>7. /\ hops \in Seq(Hops) /\ Tail(hops) = joined /\ Len(hops) = Len(joined) + 1
        /\ DOMAIN hops = 1 .. Len(joined) + 1 /\ Len(joined) \in Nat
        /\ hops[1] = h /\ \A i \in 1 .. Len(joined) : hops[i + 1] = joined[i]
    <3> HIDE DEF Hops
    <3> QED
      BY <2>3, <2>5, <2>6
  <2>8. DOMAIN tos = 1 .. Len(joined) + 1 /\ Len(tos) = Len(joined) + 1
    BY <2>7
  <2>9. \A i \in 0 .. Len(joined) : tos[i + 1] = Stage(goals[1], joined, i)
    <3> SUFFICES ASSUME NEW i \in 0 .. Len(joined) PROVE tos[i + 1] = Stage(goals[1], joined, i)
      OBVIOUS
    <3>1. i + 1 \in 1 .. Len(joined) + 1
      BY <2>7
    <3>2. tos[i + 1] = hops[i + 1].to
      BY <2>7, <3>1
    <3>3. i = 0 \/ i \in 1 .. Len(joined)
      BY <2>7
    <3> QED
      BY <2>5, <2>7, <3>2, <3>3 DEF Stage
  <2> HIDE DEF tos
  <2>10. ShortestWay(goals, tos, joined)
    BY <1>2, <1>5, <2>3, <2>4, <2>8, <2>9, RidesShortestWay
  <2>11. Shortest(zone, start, hops)
    BY <1>9, <1>11, <2>7, <2>10 DEF Shortest, tos
  <2> QED
    BY <2>7, <2>11 DEF hops
<1>12. CASE start \notin {Router!Unknown, goals[1]}
  <2> DEFINE first == Router!EmitHop(parts, start, points[1])
             all == << start >> \o goals
  <2>0. start \in places /\ start \in Places /\ points[1] \in P /\ points[1].place \in places
    BY <1>2, <1>3, <1>12 DEF places
  <2>1. first \in Seq(Hops) /\ Leg(start, first, goals[1])
    BY <1>4, <1>10, <2>0, EmitHopIsLeg
  <2>2. /\ DOMAIN all = 1 .. n + 1 /\ Len(all) = n + 1 /\ all[1] = start
        /\ \A i \in 1 .. n : all[i + 1] = goals[i]
    <3>1. goals \in Seq(Places) /\ << start >> \in Seq(Places)
      BY <1>2, <1>5, <2>0
    <3> HIDE DEF Places
    <3> QED
      BY <1>2, <1>5, <3>1
  <2> HIDE DEF first, all
  <2> DEFINE k == 1
             none == << >>
  <2>3. Rides(all, k + 1, first)
    <3>1. Rides(all, k, none) /\ none \in Seq(Hops) /\ k \in Nat \ {0}
      BY RidesNowhere
    <3>2. Leg(all[k], first, all[k + 1])
      BY <1>2, <2>1, <2>2
    <3> HIDE DEF k
    <3>3. none \o first = first
      BY <2>1
    <3> HIDE DEF none
    <3>4. Rides(all, k + 1, none \o first)
      BY <2>1, <3>1, <3>2, OneMoreLeg
    <3> QED
      BY <3>3, <3>4
  <2>4. \A i \in 1 .. Len(legs) : Leg(all[(k + 1) + i - 1], legs[i], all[(k + 1) + i])
    <3> SUFFICES ASSUME NEW i \in 1 .. Len(legs) PROVE Leg(all[(k + 1) + i - 1], legs[i], all[(k + 1) + i])
      OBVIOUS
    <3>1. (k + 1) + i - 1 = i + 1 /\ (k + 1) + i = (i + 1) + 1 /\ i \in 1 .. n - 1 /\ i \in 1 .. n /\ i + 1 \in 1 .. n
      BY <1>2, <1>7
    <3>2. all[(k + 1) + i - 1] = goals[i] /\ all[(k + 1) + i] = goals[i + 1]
      BY <2>2, <3>1
    <3> QED
      BY <1>6, <3>1, <3>2
  <2>5. joined \in Seq(Hops) /\ Rides(all, (k + 1) + Len(legs), first \o joined)
    <3>1. k + 1 \in Nat \ {0}
      OBVIOUS
    <3> HIDE DEF k
    <3> QED
      BY <1>7, <2>1, <2>3, <2>4, <3>1, JoinedRides
  <2> HIDE DEF joined
  <2>6. hops = first \o joined
    BY <1>8, <1>12 DEF first
  <2>7. hops \in Seq(Hops) /\ Len(hops) \in Nat /\ DOMAIN hops = 1 .. Len(hops)
    <3> HIDE DEF Hops
    <3> QED
      BY <2>1, <2>5, <2>6
  <2>8. Rides(all, n + 1, hops)
    <3>1. (k + 1) + Len(legs) = n + 1
      BY <1>2, <1>7
    <3> QED
      BY <2>5, <2>6, <3>1
  <2> DEFINE stops == << start >> \o tos
  <2>9. /\ DOMAIN stops = 1 .. Len(hops) + 1 /\ Len(stops) = Len(hops) + 1 /\ stops[1] = start
        /\ \A i \in 1 .. Len(hops) : stops[i + 1] = hops[i].to
    <3>1. \A i \in 1 .. Len(hops) : hops[i].to \in Places
      <4> SUFFICES ASSUME NEW i \in 1 .. Len(hops) PROVE hops[i].to \in Places
        OBVIOUS
      <4>1. hops[i] \in Hops
        BY <2>7
      <4> QED
        BY <4>1 DEF Hops
    <3>2. tos = [i \in 1 .. Len(hops) |-> hops[i].to]
      BY <2>7
    <3>3. tos \in [1 .. Len(hops) -> Places] /\ \A i \in 1 .. Len(hops) : tos[i] = hops[i].to
      BY <3>1, <3>2
    <3> HIDE DEF tos, Places
    <3>4. tos \in Seq(Places) /\ Len(tos) = Len(hops) /\ << start >> \in Seq(Places)
      BY <2>0, <2>7, <3>3
    <3> QED
      BY <2>7, <3>3, <3>4
  <2> HIDE DEF stops
  <2>10. \A i \in 0 .. Len(hops) : stops[i + 1] = Stage(all[1], hops, i)
    <3> SUFFICES ASSUME NEW i \in 0 .. Len(hops) PROVE stops[i + 1] = Stage(all[1], hops, i)
      OBVIOUS
    <3>1. i = 0 \/ i \in 1 .. Len(hops)
      BY <2>7
    <3> QED
      BY <2>2, <2>9, <3>1 DEF Stage
  <2>11. ShortestWay(all, stops, hops)
    <3>1. n + 1 \in Nat \ {0}
      BY <1>2
    <3> QED
      BY <2>2, <2>7, <2>8, <2>9, <2>10, <3>1, RidesShortestWay
  <2>12. Shortest(zone, start, hops)
    BY <1>9, <1>12, <2>11 DEF Shortest, stops, all
  <2> QED
    BY <2>7, <2>12 DEF hops
<1> QED
  BY <1>11, <1>12

\* shortest_path finds a way to every place that is reached, and no way there is
\* shorter: for every graph and all lengths.
THEOREM ShortestPathIsShortest ==
  ASSUME NEW parts, Split(parts), IsFiniteSet(Spots(parts)),
         NEW start \in Spots(parts), NEW goal \in Spots(parts), Reaches(parts, start, goal)
  PROVE  \E w \in Ways(parts) :
            /\ Leads(parts, start, w) /\ w.place = goal
            /\ w.hops = Router!ShortestPath(parts, start, goal)
            /\ \A v \in Ways(parts) : Leads(parts, start, v) /\ v.place = goal => w.length <= v.length
<1>1. PICK w, far : /\ w \in Ways(parts) /\ Leads(parts, start, w) /\ w.place = goal
                    /\ w.hops = Router!ShortestPath(parts, start, goal)
                    /\ Gauges(parts, far) /\ far[start] = 0 /\ far[goal] = w.length
  BY PathIsShortest
<1>2. ASSUME NEW v \in Ways(parts), Leads(parts, start, v), v.place = goal PROVE w.length <= v.length
  <2> DEFINE n == Len(v.hops)
             S == [to : Spots(parts), edge : Router!Corridors]
  <2>1. PICK miles : Measures(parts, start, v.hops, miles) /\ miles[n] = v.length
    BY <1>2 DEF Leads
  <2>2. v.hops \in Seq(S)
    BY DEF Ways
  <2>3. n \in Nat /\ \A i \in 1 .. n : v.hops[i] \in S
    <3> HIDE DEF S
    <3> QED
      BY <2>2
  <2>4. /\ miles \in [0 .. n -> Nat] /\ miles[0] = 0
        /\ \A i \in 1 .. n :
             \E d \in Nat : miles[i] = miles[i - 1] + d /\ Stretch(parts, Stage(start, v.hops, i - 1), v.hops[i], d)
    BY <2>1 DEF Measures
  <2> HIDE DEF n
  <2> DEFINE good == {i \in Nat : i <= n => far[Stage(start, v.hops, i)] <= miles[i]}
  <2>5. Nat \subseteq good
    <3>1. 0 \in good
      BY <1>1, <2>4 DEF Stage
    <3>2. ASSUME NEW i \in Nat, i \in good PROVE i + 1 \in good
      <4> SUFFICES ASSUME i + 1 <= n PROVE far[Stage(start, v.hops, i + 1)] <= miles[i + 1]
        OBVIOUS
      <4>1. i + 1 \in 1 .. n /\ (i + 1) - 1 = i /\ i \in 0 .. n /\ i + 1 \in 0 .. n
        BY <2>3
      <4>2. PICK d \in Nat : miles[i + 1] = miles[i] + d /\ Stretch(parts, Stage(start, v.hops, i), v.hops[i + 1], d)
        BY <2>4, <4>1
      <4>3. PICK h \in parts : h.from = Stage(start, v.hops, i) /\ h.to = v.hops[i + 1].to /\ h.length = d
        BY <4>2 DEF Stretch
      <4>4. far[h.to] <= far[h.from] + d /\ far[h.to] \in Nat /\ far[h.from] \in Nat
        BY <1>1, <4>3 DEF Gauges, Split
      <4>5. far[h.from] <= miles[i] /\ miles[i] \in Nat
        BY <2>3, <2>4, <3>2, <4>1, <4>3
      <4>6. Stage(start, v.hops, i + 1) = h.to
        BY <4>3 DEF Stage
      <4> HIDE DEF good
      <4> QED
        BY <4>2, <4>4, <4>5, <4>6
    <3> HIDE DEF good
    <3> QED
      BY <3>1, <3>2, AllNumbers
  <2>6. n \in good /\ n <= n
    <3> HIDE DEF good
    <3> QED
      BY <2>3, <2>5
  <2>7. Stage(start, v.hops, n) = goal
    BY <1>2 DEF Leads, n
  <2> QED
    BY <1>1, <2>1, <2>6, <2>7 DEF n
<1> QED
  BY <1>1, <1>2

-----------------------------------------------------------------------------
(* The missions of a list *)

\* The zone of a robot is one of the list.
LEMMA ZoneIsListed ==
  ASSUME NEW zones \in Seq(Zones), NEW r \in Router!RobotsOf(zones)
  PROVE  Router!ZoneOf(zones, r) \in Zones /\ r \in Robots
<1> DEFINE I == {i \in DOMAIN zones : zones[i].robot = r}
           after == {Len(zones) - i : i \in I}
<1>1. DOMAIN zones = 1 .. Len(zones) /\ Len(zones) \in Nat /\ \A i \in DOMAIN zones : zones[i] \in Zones
  OBVIOUS
<1>2. I # {} /\ I \subseteq 1 .. Len(zones)
  BY <1>1 DEF Router!RobotsOf
<1>3. after \in SUBSET Nat /\ after # {}
  BY <1>1, <1>2
<1>4. PICK n \in after : \A m \in after : n <= m
  <2> HIDE DEF after
  <2> QED
    BY <1>3, LeastOf
<1>5. PICK last \in I : n = Len(zones) - last
  BY <1>4
<1>6. ASSUME NEW j \in I PROVE j <= last
  <2>1. Len(zones) - j \in after /\ j \in 1 .. Len(zones) /\ last \in 1 .. Len(zones)
    BY <1>2
  <2>2. n <= Len(zones) - j
    BY <1>4, <2>1
  <2> QED
    BY <1>1, <1>5, <2>1, <2>2
<1>7. Router!ZoneOf(zones, r) \in {zones[i] : i \in I}
  <2> DEFINE Latest(i) == zones[i].robot = r /\ \A j \in DOMAIN zones : zones[j].robot = r => j <= i
  <2>1. last \in DOMAIN zones /\ Latest(last)
    BY <1>5, <1>6
  <2>2. Router!ZoneOf(zones, r) = zones[CHOOSE i \in DOMAIN zones : Latest(i)]
    BY DEF Router!ZoneOf
  <2>3. (CHOOSE i \in DOMAIN zones : Latest(i)) \in I
    <3>1. \A i \in DOMAIN zones : Latest(i) => i \in I
      OBVIOUS
    <3> HIDE DEF Latest, I
    <3> QED
      BY <2>1, <3>1
  <2> HIDE DEF Latest, I
  <2> QED
    BY <2>2, <2>3
<1>8. PICK i \in I : Router!ZoneOf(zones, r) = zones[i]
  BY <1>7
<1>9. zones[i] \in Zones /\ zones[i].robot = r
  BY <1>1, <1>8
<1> QED
  BY <1>8, <1>9 DEF Zones

\* Every list gives every robot hops, and they lead by shortest ways.
LEMMA HopsAreShortest ==
  ASSUME NEW list \in ZoneLists, NEW r \in Router!RobotsOf(list.zones)
  PROVE  /\ Router!HopsOf(list.zones, list.pose)[r] \in Seq(Hops)
         /\ ShortestFor(list, r)
<1>1. list.zones \in Seq(Zones) /\ list.pose \in [Robots -> Places \cup {Router!Unknown}]
  BY ListsAssumption
<1> DEFINE zone == Router!ZoneOf(list.zones, r)
           start == list.pose[r]
<1>2. zone \in Zones /\ start \in Places \cup {Router!Unknown}
  BY <1>1, ZoneIsListed
<1>3. Router!HopsOf(list.zones, list.pose)[r] = Router!RouteZone(zone, start)
  BY DEF Router!HopsOf
<1> HIDE DEF zone, start
<1>4. Router!RouteZone(zone, start) \in Seq(Hops) /\ Shortest(zone, start, Router!RouteZone(zone, start))
  BY <1>2, RouteZoneIsShortest
<1> QED
  BY <1>3, <1>4 DEF ShortestFor, zone, start

\* The missions the Fleet Node publishes lead every robot through the points of its zone
\* in order, each leg by a way that no way undercuts (route_graph.py:157), whatever the
\* graph, the lengths of its corridors, the zones and where the robots are.
THEOREM LedByShortestWays ==
  ASSUME ZonePlans \subseteq RoutedPlans
  PROVE  Spec => []MissionsAreShortest
<1> DEFINE Planned == (\A r \in Robots : missions[r] = NoRoute) \/ missions \in ZonePlans
<1>1. Init => Planned
  BY DEF Init, FleetInit
<1>2. Planned /\ [Next]_vars => Planned'
  <2> SUFFICES ASSUME Planned, [Next]_vars PROVE Planned'
    OBVIOUS
  <2>1. UNCHANGED missions \/ missions' \in ZonePlans
    <3>1. CASE OperatorStep
      BY <3>1 DEF OperatorStep, StartPatrol, Operator, OnMapPoints, StopAllRobots, ReleaseAllRobots,
                  OnDockReturn, OnAnomalyTrigger, RelayAnomalySignal, PublishDirect, fleetVars
    <3>2. ASSUME NEW r \in Robots, FleetStep(r) PROVE UNCHANGED missions
      BY <3>2 DEF FleetStep, OnRequest, OnRelease, OnAnomalyDone
    <3>3. ASSUME NEW r \in Robots, Callback(r) PROVE UNCHANGED missions
      BY <3>3 DEF Callback, fleetVars
    <3>4. ASSUME NEW r \in Robots, ThreadStep(r) PROVE UNCHANGED missions
      BY <3>4 DEF ThreadStep, fleetVars
    <3>5. CASE UNCHANGED vars
      BY <3>5 DEF vars, fleetVars
    <3> QED
      BY <3>1, <3>2, <3>3, <3>4, <3>5 DEF Next
  <2> QED
    BY <2>1
<1>3. Planned => MissionsAreShortest
  <2> SUFFICES ASSUME missions \in ZonePlans PROVE missions \in ShortestPlans
    BY DEF MissionsAreShortest
  <2>1. PICK list \in ZoneLists : missions = PlanOf(list)
    BY DEF RoutedPlans
  <2>2. \A r \in Router!RobotsOf(list.zones) : ShortestFor(list, r)
    BY HopsAreShortest
  <2>3. missions \in PlansByDistance
    BY <2>1, <2>2 DEF PlansByDistance
  <2> QED
    BY <2>3, ShortestAssumption
<1> HIDE DEF Planned
<1> QED
  BY <1>1, <1>2, <1>3, PTL DEF Spec

-----------------------------------------------------------------------------
(* What two robots share has one id *)

\* The hops of every robot are among those that are merged.
LEMMA AllHopsHold ==
  ASSUME NEW Z, NEW zones \in Seq(Z), NEW H, NEW hops,
         \A r \in Router!RobotsOf(zones) : hops[r] \in Seq(H)
  PROVE  /\ Router!AllHops(zones, hops) \in Seq(H)
         /\ \A r \in Router!RobotsOf(zones) :
              Router!ToSet(hops[r]) \subseteq Router!ToSet(Router!AllHops(zones, hops))
<1> DEFINE first(i) == \A j \in 1 .. i - 1 : zones[j].robot # zones[i].robot
           parts == [i \in DOMAIN zones |-> IF first(i) THEN hops[zones[i].robot] ELSE << >>]
<1>1. Router!AllHops(zones, hops) = Router!Joined(parts)
  BY DEF Router!AllHops
<1>2. DOMAIN zones = 1 .. Len(zones) /\ Len(zones) \in Nat
  OBVIOUS
<1>3. \A i \in DOMAIN zones : zones[i].robot \in Router!RobotsOf(zones)
  BY DEF Router!RobotsOf
<1>4. \A i \in 1 .. Len(zones) : parts[i] \in Seq(H)
  <2> SUFFICES ASSUME NEW i \in 1 .. Len(zones) PROVE parts[i] \in Seq(H)
    OBVIOUS
  <2>1. hops[zones[i].robot] \in Seq(H) /\ << >> \in Seq(H)
    BY <1>2, <1>3
  <2> HIDE DEF first
  <2> QED
    BY <1>2, <2>1
<1>5. parts \in Seq(Seq(H)) /\ DOMAIN parts = 1 .. Len(zones)
  <2>1. parts \in [1 .. Len(zones) -> Seq(H)]
    <3>1. parts = [i \in 1 .. Len(zones) |-> parts[i]]
      BY <1>2
    <3> HIDE DEF parts
    <3> QED
      BY <1>4, <3>1
  <2> HIDE DEF parts
  <2> QED
    BY <1>2, <2>1
<1>6. ASSUME NEW r \in Router!RobotsOf(zones)
      PROVE  \E i \in DOMAIN zones : parts[i] = hops[r]
  <2> DEFINE I == {i \in 1 .. Len(zones) : zones[i].robot = r}
  <2>1. I \in SUBSET Nat /\ I # {}
    BY <1>2 DEF Router!RobotsOf
  <2>2. PICK n \in I : \A m \in I : n <= m
    <3> HIDE DEF I
    <3> QED
      BY <2>1, LeastOf
  <2>3. first(n)
    <3> SUFFICES ASSUME NEW j \in 1 .. n - 1, zones[j].robot = zones[n].robot PROVE FALSE
      OBVIOUS
    <3>1. j \in I
      BY <1>2, <2>2
    <3> QED
      BY <1>2, <2>2, <3>1
  <2>4. n \in DOMAIN zones /\ zones[n].robot = r
    BY <1>2, <2>2
  <2> HIDE DEF first, I
  <2>5. parts[n] = hops[r]
    BY <2>3, <2>4
  <2> QED
    BY <2>4, <2>5
<1> HIDE DEF parts
<1>7. /\ Router!Joined(parts) \in Seq(H)
      /\ \A i \in DOMAIN parts : Router!ToSet(parts[i]) \subseteq Router!ToSet(Router!Joined(parts))
  BY <1>5, JoinedHolds
<1> QED
  BY <1>1, <1>2, <1>5, <1>6, <1>7

\* What hops of two robots use is shared.
LEMMA UsedByTwo ==
  ASSUME NEW hops, IsFiniteSet(DOMAIN hops),
         NEW r \in DOMAIN hops, NEW s \in DOMAIN hops, r # s,
         NEW g \in Router!ToSet(hops[r]), NEW h \in Router!ToSet(hops[s]),
         NEW x \in Router!Resources, x \in Router!Uses(g), x \in Router!Uses(h)
  PROVE  x \in Router!Shared(hops)
<1> DEFINE users == Router!Users(hops, x)
<1>1. {r, s} \subseteq users
  BY DEF Router!Users
<1>2. IsFiniteSet(users)
  <2>1. users \subseteq DOMAIN hops
    BY DEF Router!Users
  <2> HIDE DEF users
  <2> QED
    BY <2>1, FS_Subset
<1>3. Cardinality({r, s}) = 2
  <2>1. s \notin {r} /\ {r, s} = {r} \cup {s}
    OBVIOUS
  <2>2. IsFiniteSet({r}) /\ Cardinality({r}) = 1
    BY FS_Singleton
  <2>3. Cardinality({r} \cup {s}) = 1 + 1
    BY <2>1, <2>2, FS_AddElement
  <2> QED
    BY <2>1, <2>3
<1> HIDE DEF users
<1>4. Cardinality({r, s}) <= Cardinality(users) /\ Cardinality(users) \in Nat
  BY <1>1, <1>2, FS_Subset, FS_CardinalityType
<1>5. Cardinality(users) >= 2
  BY <1>3, <1>4
<1>6. Router!Cardinality(Router!Users(hops, x)) >= 2
  BY <1>5, SameCardinality DEF users
<1> QED
  BY <1>6 DEF Router!Shared

\* A hop asks for the id of what it shares, be it the corridor or the junction.
LEMMA AsksForShared ==
  ASSUME NEW H, NEW all \in Seq(H), NEW shared,
         NEW canonical, canonical = Router!MergeShared(all, shared),
         NEW h \in Router!ToSet(all)
  PROVE  /\ canonical \in [shared -> shared]
         /\ Router!X(h) \in shared => Router!Tagged(h, canonical).point = canonical[Router!X(h)]
         /\ Router!J(h) \in shared => Router!Tagged(h, canonical).point = canonical[Router!J(h)]
<1> DEFINE both == {f \in Router!ToSet(all) : {Router!X(f), Router!J(f)} \subseteq shared}
<1>1. canonical = Router!MergedBy(all, both, shared)
  BY DEF Router!MergeShared
<1>2. \A f \in both : Router!X(f) \in shared /\ Router!J(f) \in shared
  OBVIOUS
<1>3. h \in both <=> Router!X(h) \in shared /\ Router!J(h) \in shared
  OBVIOUS
<1> HIDE DEF both
<1>4. /\ canonical \in [shared -> shared]
      /\ \A i \in DOMAIN all : all[i] \in both => canonical[Router!X(all[i])] = canonical[Router!J(all[i])]
  BY <1>1, <1>2, MergedTogether
<1>5. h \in both => canonical[Router!X(h)] = canonical[Router!J(h)]
  <2>1. PICK i \in DOMAIN all : all[i] = h
    BY DEF Router!ToSet
  <2> QED
    BY <1>4, <2>1
<1>6. DOMAIN canonical = shared
  BY <1>4
<1>7. Router!Tagged(h, canonical).point =
        CASE Router!X(h) \in shared -> canonical[Router!X(h)]
          [] Router!X(h) \notin shared /\ Router!J(h) \in shared -> canonical[Router!J(h)]
          [] OTHER -> NoPoint
  BY <1>6 DEF Router!Tagged
<1> QED
  BY <1>3, <1>4, <1>5, <1>7

\* Hops of two robots that must not be driven at once ask for one id.
LEMMA MeetingHopsShare ==
  ASSUME NEW list \in ZoneLists, NEW hops, hops = Router!HopsOf(list.zones, list.pose),
         NEW r \in Router!RobotsOf(list.zones), NEW s \in Router!RobotsOf(list.zones), r # s,
         NEW g \in Router!ToSet(hops[r]), NEW h \in Router!ToSet(hops[s]), Meet(g, h),
         NEW canonical, canonical = Router!Canonical(list.zones, hops)
  PROVE  /\ Router!Tagged(g, canonical).point = Router!Tagged(h, canonical).point
         /\ Router!Tagged(g, canonical).point # NoPoint
<1> DEFINE shared == Router!Shared(hops)
           all == Router!AllHops(list.zones, hops)
<1>1. /\ list.zones \in Seq(Zones)
      /\ \A q \in Router!RobotsOf(list.zones) : hops[q] \in Seq(Hops)
  BY ListsAssumption, HopsAreShortest
<1>2. DOMAIN hops = Router!RobotsOf(list.zones)
  BY DEF Router!HopsOf
<1>3. IsFiniteSet(DOMAIN hops)
  <2>1. DOMAIN list.zones = 1 .. Len(list.zones) /\ Len(list.zones) \in Nat
    BY <1>1
  <2>2. IsFiniteSet(1 .. Len(list.zones))
    BY <2>1, FS_Interval
  <2> DEFINE named == [i \in 1 .. Len(list.zones) |-> list.zones[i].robot]
  <2>3. DOMAIN hops = {named[i] : i \in 1 .. Len(list.zones)}
    BY <1>2, <2>1 DEF Router!RobotsOf
  <2>4. named \in Surjection(1 .. Len(list.zones), DOMAIN hops)
    <3>1. named \in [1 .. Len(list.zones) -> DOMAIN hops]
      BY <2>3
    <3> HIDE DEF named
    <3> QED
      BY <2>3, <3>1 DEF Surjection
  <2> QED
    BY <2>2, <2>4, FS_Surjection
<1>4. /\ all \in Seq(Hops)
      /\ g \in Router!ToSet(all) /\ h \in Router!ToSet(all)
  BY <1>1, AllHopsHold
<1>5. canonical = Router!MergeShared(all, shared)
  BY DEF Router!Canonical
<1>6. /\ g.edge # Router!None => g.edge \in Router!Corridors
      /\ h.edge # Router!None => h.edge \in Router!Corridors
  <2>1. g \in Hops /\ h \in Hops
    BY <1>1 DEF Router!ToSet
  <2> QED
    BY <2>1 DEF Hops
<1>7. shared \subseteq Router!Resources
  BY DEF Router!Shared
<1>8. g.edge # Router!None /\ h.edge # Router!None
  BY DEF Meet
<1>9. \E x \in shared : \/ (x = Router!X(g) /\ x = Router!X(h))
                         \/ (x = Router!J(g) /\ x = Router!J(h))
  <2>1. CASE g.edge = h.edge
    <3>1. Router!X(g) = Router!X(h) /\ Router!X(g) \in Router!Resources
      BY <1>6, <1>8, <2>1 DEF Router!X, Router!Resources
    <3>2. Router!X(g) \in Router!Uses(g) /\ Router!X(g) \in Router!Uses(h)
      BY <1>8, <3>1 DEF Router!Uses
    <3> DEFINE x == Router!X(g)
    <3>3. x \in shared
      <4>1. x \in Router!Resources /\ x \in Router!Uses(g) /\ x \in Router!Uses(h)
        BY <3>1, <3>2
      <4> HIDE DEF x, shared
      <4>2. x \in Router!Shared(hops)
        BY <1>2, <1>3, <4>1, UsedByTwo
      <4> QED
        BY <4>2 DEF shared
    <3> QED
      BY <3>1, <3>3
  <2>2. CASE g.to = h.to /\ Router!ArrivesAtJunction(g)
    <3>1. Router!J(g) = Router!J(h) /\ Router!J(g) \in Router!Resources
      BY <2>2 DEF Router!J, Router!Resources, Router!ArrivesAtJunction, Router!Junctions
    <3>2. Router!J(g) \in Router!Uses(g) /\ Router!J(g) \in Router!Uses(h)
      BY <1>8, <2>2, <3>1 DEF Router!Uses, Router!ArrivesAtJunction
    <3>3. Router!J(g) \in shared
      BY <1>2, <1>3, <3>1, <3>2, UsedByTwo
    <3> QED
      BY <3>1, <3>3
  <2> QED
    BY <2>1, <2>2 DEF Meet
<1> HIDE DEF shared, all
<1>10. /\ canonical \in [shared -> shared]
       /\ Router!X(g) \in shared => Router!Tagged(g, canonical).point = canonical[Router!X(g)]
       /\ Router!J(g) \in shared => Router!Tagged(g, canonical).point = canonical[Router!J(g)]
  BY <1>4, <1>5, AsksForShared
<1>11. /\ Router!X(h) \in shared => Router!Tagged(h, canonical).point = canonical[Router!X(h)]
       /\ Router!J(h) \in shared => Router!Tagged(h, canonical).point = canonical[Router!J(h)]
  BY <1>4, <1>5, AsksForShared
<1>12. PICK x \in shared : \/ (x = Router!X(g) /\ x = Router!X(h))
                            \/ (x = Router!J(g) /\ x = Router!J(h))
  BY <1>9
<1>13. /\ Router!Tagged(g, canonical).point = canonical[x]
       /\ Router!Tagged(h, canonical).point = canonical[x]
  BY <1>10, <1>11, <1>12
<1>14. canonical[x] # NoPoint
  BY <1>7, <1>10, GraphAssumption
<1> QED
  BY <1>13, <1>14

-----------------------------------------------------------------------------
(* One robot in a corridor *)

\* The routes a robot may be on.
PlannedFor(r) == {NoRoute} \cup {plan[r] : plan \in ZonePlans}
OnPlan(r) ==
  /\ missions[r] \in PlannedFor(r)
  /\ mission[r] \in PlannedFor(r)
  /\ stack[r] # << >> => Top(r).route \in PlannedFor(r)
OnPlans == \A r \in Robots : OnPlan(r)

\* A thread at most gives up the mission of its own robot.
LEMMA MissionOfOthers ==
  ASSUME TypeInv, NEW r \in Robots, ThreadStep(r)
  PROVE  UNCHANGED mission \/ mission' = [mission EXCEPT ![r] = NoRoute]
BY DEF ThreadStep, StartMission, EnsureUndocked, UndockEnds,
       MissionComplete, NextPatrol, Approach, Republish, CrossingGranted,
       CrossingTimeout, Drive, Hold, CollisionRisk, Divert, StopEarly,
       NavFailed, Arrive, EndHold, InspectGate, BeginMission, UndockFailed,
       Unresolved, DetourFailed, ReturnTo, MissionEnds,
       HoldAtAnomaly, DecideDock, DecideResume, DockEnds, controlVars

\* A patrolling robot takes its route from the mission, and loses it at the end.
LEMMA RouteOfThread ==
  ASSUME TypeInv, NEW r \in Robots, PatrolOK(r), ThreadStep(r)
  PROVE  \/ stack'[r] = << >>
         \/ stack'[r] # << >> /\ Top(r)'.route = mission[r]
         \/ stack[r] # << >> /\ stack'[r] # << >> /\ Top(r)'.route = Top(r).route
<1> USE DEF At, topics, commandTopics, orders, physical
<1>a. ASSUME pc[r] \notin Idle
      PROVE  /\ stack[r] # << >> /\ Top(r) \in Frame
             /\ Top(r).kind = "mission" /\ Callers(r) = << >>
  BY <1>a, InLoop DEF TypeInv, PatrolOK, MissionOnly
<1>b. ASSUME UNCHANGED stack
      PROVE  \/ stack'[r] = << >>
             \/ stack[r] # << >> /\ stack'[r] # << >> /\ Top(r)'.route = Top(r).route
  BY <1>b DEF Top
<1>c. ASSUME SetStack(r, << >>) PROVE stack'[r] = << >>
  BY <1>c DEF SetStack, TypeInv, FlowOK
<1>d. ASSUME BeginMission(r), pc[r] \in Idle PROVE stack'[r] # << >> /\ Top(r)'.route = mission[r]
  <2> DEFINE frame == [kind |-> "mission", route |-> mission[r], i |-> 1]
  <2>0. mission[r] \in Route /\ stack[r] \in Seq(Frame)
    BY DEF TypeInv, FlowOK, DataType
  <2>1. frame \in Frame /\ frame.route = mission[r]
    BY <2>0 DEF Frame
  <2>2. stack'[r] = << frame >> \o stack[r]
    BY <1>d DEF BeginMission, Call, SetStack, TypeInv, FlowOK
  <2> HIDE DEF frame
  <2> QED
    BY <2>0, <2>1, <2>2, Pushed DEF Top
<1>e. ASSUME Advance(r), pc[r] \notin Idle
      PROVE  stack[r] # << >> /\ stack'[r] # << >> /\ Top(r)'.route = Top(r).route
  <2> DEFINE frame == [Top(r) EXCEPT !.i = @ + 1]
  <2>1. frame \in Frame /\ frame.route = Top(r).route
    BY <1>a, <1>e DEF Frame
  <2>2. stack'[r] = << frame >> \o Callers(r)
    BY <1>e DEF Advance, SetStack, TypeInv, FlowOK
  <2> HIDE DEF frame
  <2> QED
    BY <1>a, <1>e, <2>1, <2>2, Pushed DEF Top
<1>f. ASSUME Unresolved(r), pc[r] \notin Idle PROVE stack'[r] = << >>
  BY <1>a, <1>c, <1>f DEF Unresolved, MissionEnds
<1>1. CASE StartMission(r) \/ EnsureUndocked(r) \/ UndockEnds(r)
  BY <1>1, <1>b, <1>c, <1>d DEF StartMission, EnsureUndocked, UndockEnds, UndockFailed, MissionEnds, Idle
<1>2. CASE MissionComplete(r)
  BY <1>2, <1>c DEF MissionComplete, MissionEnds
<1>3. CASE \/ NextPatrol(r) \/ Approach(r) \/ Republish(r) \/ CrossingGranted(r)
           \/ Drive(r) \/ Hold(r) \/ EndHold(r)
  BY <1>3, <1>b DEF NextPatrol, Approach, Republish, CrossingGranted, Drive, Hold, EndHold, controlVars
<1>4. CASE CrossingTimeout(r) \/ CollisionRisk(r) \/ NavFailed(r)
  BY <1>4, <1>a, <1>b, <1>f DEF CrossingTimeout, CollisionRisk, NavFailed, Idle
<1>5. CASE Arrive(r) \/ InspectGate(r)
  BY <1>5, <1>a, <1>b, <1>e, <1>f DEF Arrive, InspectGate, Idle
<1>6. CASE \/ Divert(r) \/ StopEarly(r) \/ HoldAtAnomaly(r)
           \/ DecideDock(r) \/ DecideResume(r) \/ DockEnds(r)
  BY <1>6, <1>a DEF Divert, StopEarly, HoldAtAnomaly, DecideDock, DecideResume, DockEnds,
                    PatrolOK, NoOrders, MissionOnly, Idle
<1> QED
  BY <1>1, <1>2, <1>3, <1>4, <1>5, <1>6 DEF ThreadStep

\* Every step keeps the robots on the routes of the plans.
LEMMA OnPlansNext ==
  ASSUME TypeInv, PatrolInv, OnPlans, [Next]_vars
  PROVE  OnPlans'
<1> SUFFICES ASSUME NEW s \in Robots PROVE OnPlan(s)'
  BY DEF OnPlans
<1>0. OnPlan(s) /\ PlannedFor(s)' = PlannedFor(s) /\ NoRoute \in PlannedFor(s)
  BY DEF OnPlans, PlannedFor
<1>a. ASSUME missions'[s] \in PlannedFor(s), mission'[s] \in PlannedFor(s),
             stack'[s] = stack[s]
      PROVE  OnPlan(s)'
  BY <1>0, <1>a DEF OnPlan, Top
<1>1. CASE OperatorStep
  <2>1. UNCHANGED controlVars /\ (UNCHANGED missions \/ missions' \in ZonePlans)
    BY <1>1 DEF OperatorStep, StartPatrol, Operator, OnMapPoints, StopAllRobots, ReleaseAllRobots,
                OnDockReturn, OnAnomalyTrigger, RelayAnomalySignal, PublishDirect, fleetVars
  <2> QED
    BY <1>0, <1>a, <2>1 DEF OnPlan, PlannedFor, controlVars
<1>2. ASSUME NEW r \in Robots, FleetStep(r) PROVE OnPlan(s)'
  <2>1. UNCHANGED << controlVars, missions >>
    BY <1>2 DEF FleetStep, OnRequest, OnRelease, OnAnomalyDone
  <2> QED
    BY <1>0, <1>a, <2>1 DEF OnPlan, controlVars
<1>3. ASSUME NEW r \in Robots, Callback(r) PROVE OnPlan(s)'
  <2>1. UNCHANGED << missions, stack >>
    BY <1>3 DEF Callback, OnGrant, OnMission, OnAnomaly, OnDock, OnAnomalyResume, OnAnomalyCaptured,
                OnEmergencyStop, OnPause, OnRepatrol, Receive, fleetVars
  <2>2. UNCHANGED mission \/ mission' = [mission EXCEPT ![r] = missions[r]]
    BY <1>3 DEF Callback, OnGrant, OnMission, OnAnomaly, OnDock, OnAnomalyResume, OnAnomalyCaptured,
                OnEmergencyStop, OnPause, OnRepatrol, Receive
  <2>3. mission'[s] \in PlannedFor(s)
    BY <1>0, <2>2 DEF OnPlan, TypeInv, DataType
  <2> QED
    BY <1>0, <1>a, <2>1, <2>3 DEF OnPlan
<1>4. ASSUME NEW r \in Robots, ThreadStep(r) PROVE OnPlan(s)'
  <2>1. UNCHANGED missions
    BY <1>4 DEF ThreadStep, fleetVars
  <2>2. mission'[s] \in PlannedFor(s)
    BY <1>0, <1>4, MissionOfOthers DEF OnPlan, TypeInv, DataType
  <2>3. CASE s # r
    <3>1. stack'[s] = stack[s]
      BY <1>4, <2>3, ThreadElsewhere
    <3> QED
      BY <1>0, <1>a, <2>1, <2>2, <3>1 DEF OnPlan
  <2>4. CASE s = r
    <3>1. PatrolOK(s)
      BY DEF PatrolInv, PatrolOK
    <3>2. stack'[s] # << >> => Top(s)'.route \in PlannedFor(s)
      BY <1>0, <1>4, <2>4, <3>1, RouteOfThread DEF OnPlan
    <3> QED
      BY <1>0, <2>1, <2>2, <3>2 DEF OnPlan
  <2> QED
    BY <2>3, <2>4
<1>5. CASE UNCHANGED vars
  BY <1>0, <1>5, <1>a DEF vars, fleetVars, controlVars, OnPlan
<1> QED
  BY <1>1, <1>2, <1>3, <1>4, <1>5 DEF Next

\* The dashboard sends one list of zones, again and again, with one for every robot.
OneListForAll == \E list : ZoneLists = {list} /\ Router!RobotsOf(list.zones) = Robots

\* The hop a patrolling robot drives is the one its waypoint was made of.
LEMMA HopOfPatrol ==
  ASSUME NEW list, ZoneLists = {list}, Router!RobotsOf(list.zones) = Robots, ZonePlans = RoutedPlans,
         TypeInv, PatrolInv, OnPlans, NEW r \in Robots, pc[r] = "moving",
         NEW hops, hops = Router!HopsOf(list.zones, list.pose),
         NEW canonical, canonical = Router!Canonical(list.zones, hops)
  PROVE  /\ Hop(r) \in Router!ToSet(hops[r])
         /\ Target(r).point = Router!Tagged(Hop(r), canonical).point
<1>1. /\ Top(r) \in Frame /\ Top(r).kind = "mission" /\ stack[r] # << >>
      /\ Top(r).i <= Len(Top(r).route)
  BY InLoop DEF TypeInv, Idle, PatrolInv, MissionOnly
<1>2. DOMAIN hops = Robots
  BY DEF Router!HopsOf
<1> DEFINE made == Router!BuildMissions(list.zones, list.pose)
<1>3. made = [q \in Robots |-> [i \in DOMAIN hops[q] |-> Router!Tagged(hops[q][i], canonical)]]
  BY <1>2 DEF Router!BuildMissions, Router!MissionsOf, Router!TagAll
<1>4. PlanOf(list)[r] = made[r]
  <2>1. PlanOf(list) = Plan(made)
    BY DEF PlanOf
  <2>2. DOMAIN made = Robots
    BY <1>3
  <2> HIDE DEF made
  <2> QED
    BY <2>1, <2>2 DEF Plan
<1>5. Top(r).route = made[r]
  <2>1. Top(r).route \in {NoRoute, PlanOf(list)[r]}
    BY <1>1 DEF OnPlans, OnPlan, PlannedFor, RoutedPlans
  <2>2. Top(r).route # NoRoute
    BY <1>1 DEF NoRoute, Frame
  <2> QED
    BY <1>4, <2>1, <2>2
<1> DEFINE trip == Trip(r, TRUE, PlanOf(list)[r], hops[r])
<1>6. trip \in TripsOf(r, "mission") /\ \A t \in TripsOf(r, "mission") : t = trip
  <2>1. ASSUME NEW t PROVE t \in TripsOf(r, "mission") <=> t = trip
    BY TripsAssumption DEF TripsOf, RoutedTrips, Trip
  <2> HIDE DEF trip
  <2> QED
    BY <2>1
<1>7. Hop(r) = hops[r][Top(r).i]
  <2>1. trip.route = Top(r).route /\ trip.hops = hops[r]
    BY <1>4, <1>5 DEF Trip
  <2> HIDE DEF trip, made
  <2>2. (CHOOSE t \in TripsOf(r, Top(r).kind) : t.route = Top(r).route) = trip
    BY <1>1, <1>6, <2>1
  <2> QED
    BY <2>1, <2>2 DEF Hop
<1>8. Top(r).i \in DOMAIN hops[r]
  <2>1. Top(r).route \in Seq(Waypoint) /\ Top(r).i \in 1 .. Len(Top(r).route)
    BY <1>1 DEF Frame, Route
  <2>2. DOMAIN Top(r).route = 1 .. Len(Top(r).route)
    BY <2>1
  <2>3. DOMAIN made[r] = DOMAIN hops[r]
    BY <1>3
  <2> QED
    BY <1>5, <2>1, <2>2, <2>3
<1>9. Target(r) = Router!Tagged(hops[r][Top(r).i], canonical)
  BY <1>3, <1>5, <1>8 DEF Target
<1> QED
  BY <1>7, <1>8, <1>9 DEF Router!ToSet

\* No two robots drive through one corridor, or to one junction, whatever the graph, the
\* zones and the number of robots: the ids the router gives for them are merged so that
\* both hops ask for one id, and the occupancy protocol grants it to one of the two
\* (zone_router.py:33).  With one list of zones, which has one for every robot: the ids
\* of two lists may differ.
THEOREM OneInCorridor ==
  ASSUME PromptNetwork, NoDetourRoutes, OneListForAll, ZonePlans = RoutedPlans
  PROVE  Spec => []OneRobotPerCorridor
<1>1. Init => OnPlans
  <2> SUFFICES ASSUME Init, NEW r \in Robots PROVE OnPlan(r)
    BY DEF OnPlans
  <2>1. missions[r] = NoRoute /\ mission[r] = NoRoute /\ stack[r] = << >>
    BY DEF Init, FleetInit, ControlInit
  <2> QED
    BY <2>1 DEF OnPlan, PlannedFor
<1>2. TypeInv /\ CrossingInv /\ PatrolInv /\ OnPlans /\ NoTwoDriving => OneRobotPerCorridor
  <2> SUFFICES ASSUME TypeInv, PatrolInv, OnPlans, NoTwoDriving,
                      NEW r \in Robots, NEW s \in Robots, r # s,
                      pc[r] = "moving", pc[s] = "moving", Meet(Hop(r), Hop(s))
               PROVE  FALSE
    BY DEF OneRobotPerCorridor
  <2>1. PICK list : ZoneLists = {list} /\ Router!RobotsOf(list.zones) = Robots
    BY DEF OneListForAll
  <2> DEFINE hops == Router!HopsOf(list.zones, list.pose)
             canonical == Router!Canonical(list.zones, hops)
  <2>2. list \in ZoneLists
    BY <2>1
  <2>3. hops = Router!HopsOf(list.zones, list.pose) /\ canonical = Router!Canonical(list.zones, hops)
    OBVIOUS
  <2> HIDE DEF hops, canonical
  <2>4. /\ Hop(r) \in Router!ToSet(hops[r])
        /\ Target(r).point = Router!Tagged(Hop(r), canonical).point
    BY <2>1, <2>3, HopOfPatrol
  <2>5. /\ Hop(s) \in Router!ToSet(hops[s])
        /\ Target(s).point = Router!Tagged(Hop(s), canonical).point
    BY <2>1, <2>3, HopOfPatrol
  <2>6. /\ Router!Tagged(Hop(r), canonical).point = Router!Tagged(Hop(s), canonical).point
        /\ Router!Tagged(Hop(r), canonical).point # NoPoint
    BY <2>1, <2>2, <2>3, <2>4, <2>5, MeetingHopsShare
  <2> QED
    BY <2>4, <2>5, <2>6 DEF NoTwoDriving, Driving
<1>3. TypeInv /\ PatrolInv /\ OnPlans /\ [Next]_vars => OnPlans'
  BY OnPlansNext
<1> QED
  BY <1>1, <1>2, <1>3, NoTwoDrive, PatrolInvariance, PTL DEF Spec
=============================================================================
