------------------------------- MODULE Topics -------------------------------
(***************************************************************************)
(* The ROS 2 topics between the Fleet Node and the Control Nodes, and the  *)
(* values they carry.  Every topic is FIFO for one publisher; nothing      *)
(* orders two different topics, so a request may overtake a release.       *)
(***************************************************************************)
EXTENDS Naturals, Sequences

CONSTANTS
  Robots,        \* robot namespaces (robot3, robot8)
  Points,        \* point_ids of the shared aisles and junctions
  NoPoint,       \* point_id None: the hop is not shared
  NoRobot        \* _occupied.get(point) is None

ASSUME NoneAssumption == NoPoint \notin Points /\ NoRobot \notin Robots

\* A waypoint keeps the two tags the control flow looks at.  A route is a
\* sequence of them; << >> stands for "no route" (None, or flag not raised).
Waypoint == [point : Points \cup {NoPoint}, gate : BOOLEAN]
Route    == Seq(Waypoint)
NoRoute  == << >>

VARIABLES
  requests,      \* /fleet/occupancy_request, point_ids in flight per robot
  releases,      \* /fleet/occupancy_release, the same
  grants,        \* /fleet/occupancy_grant with granted = true, per robot
  commands,      \* /fleet/<ns>/{anomaly,...,dock}, per robot and kind
  dones          \* /fleet/anomaly_done messages in flight, per robot

crossingTopics == << requests, releases, grants >>
commandTopics  == << commands, dones >>
topics         == << requests, releases, grants, commands, dones >>

\* The queue of each kind of command.  A resume, captured or repatrol message
\* has no payload: that it arrived on the robot's own topic is the signal.
Inbox == [anomaly : Seq(Route), dock : Seq(Route),
          emergency_stop : Seq(BOOLEAN), pause : Seq(BOOLEAN),
          anomaly_resume : Seq({TRUE}), anomaly_captured : Seq({TRUE}),
          repatrol : Seq({TRUE})]
EmptyInbox == [anomaly |-> << >>, dock |-> << >>, emergency_stop |-> << >>,
               pause |-> << >>, anomaly_resume |-> << >>,
               anomaly_captured |-> << >>, repatrol |-> << >>]
CommandKind == {"anomaly", "dock", "emergency_stop", "pause",
                "anomaly_resume", "anomaly_captured", "repatrol"}

TopicsInit ==
  /\ requests = [r \in Robots |-> << >>]
  /\ releases = [r \in Robots |-> << >>]
  /\ grants   = [r \in Robots |-> << >>]
  /\ commands = [r \in Robots |-> EmptyInbox]
  /\ dones    = [r \in Robots |-> 0]

Put(topic, r, m) == [topic EXCEPT ![r] = Append(@, m)]
Take(topic, r)   == [topic EXCEPT ![r] = Tail(@)]

Publish(r, kind, m) == commands' = [commands EXCEPT ![r][kind] = Append(@, m)]

Elements(topic) == {topic[i] : i \in 1..Len(topic)}

\* Every request of r is answered, and r has handled the answers.
Answered(r) == requests[r] = << >> /\ grants[r] = << >>

TopicsType ==
  /\ requests \in [Robots -> Seq(Points)]
  /\ releases \in [Robots -> Seq(Points)]
  /\ grants \in [Robots -> Seq(Points)]
  /\ commands \in [Robots -> Inbox]
  /\ dones \in [Robots -> Nat]
=============================================================================
