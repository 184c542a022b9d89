---------------------------- MODULE Monitor_proofs ----------------------------
(***************************************************************************)
(* Theorems about the backend's WebSocket hub and its producers, for every *)
(* number of clients and every size of the two queues: types, who is in    *)
(* the table of clients, and when a dashboard may show an old row.         *)
(***************************************************************************)
EXTENDS Monitor, TLAPS

-----------------------------------------------------------------------------
(* Types *)

Telemetry == [type : Droppable, v : 0 .. MaxRow]
Event     == [type : {"SYSTEM_ALERT", "LOG"}, v : 0 .. MaxAlerts]
Words     == {"SYSTEM_ALERT", "MISSION_STATUS", "ROBOT_STATUS"}

\* No status is newer than the newest that was announced.
Known(m) == m.type = "ROBOT_STATUS" => m.v <= told
Fresh    == {m \in Telemetry : Known(m)}
Cast     == [msg : {m \in Messages : Known(m)}, to : SUBSET Clients, by : Nat]
Speaker  == [by : 1 .. row, list : Seq(Words) \ {<< >>}]

ClientsType ==
  /\ handler \in [Clients -> {"new", "listening", "ended"}]
  /\ alive \in [Clients -> BOOLEAN]
  /\ clients \subseteq Clients
  /\ topics \in [Clients -> SUBSET Topics]
  /\ view \in [Clients -> 0 .. row]
QueueType ==
  /\ telemetryQ \in Seq(Fresh) /\ Len(telemetryQ) <= QueueSize
  /\ eventQ \in Seq(Event) /\ Len(eventQ) <= EventQueueSize
CastType ==
  /\ casts \subseteq Cast
  /\ \A k \in casts : k.to # {}
CountType ==
  /\ row \in 0 .. MaxRow
  /\ alerts \in 0 .. MaxAlerts
  /\ told \in 0 .. row
  /\ passed \in BOOLEAN
  /\ missed \subseteq Clients
  /\ speaking \subseteq Speaker

TypeInv == ClientsType /\ QueueType /\ CastType /\ CountType

-----------------------------------------------------------------------------
(* The queues *)

LEMMA Wider ==
  ASSUME NEW S, NEW T, S \subseteq T, NEW q \in Seq(S)
  PROVE  q \in Seq(T)
<1>1. /\ Len(q) \in Nat
      /\ DOMAIN q = 1 .. Len(q)
      /\ \A i \in 1 .. Len(q) : q[i] \in T
  OBVIOUS
<1>2. q = [i \in 1 .. Len(q) |-> q[i]]
  OBVIOUS
<1> QED
  BY <1>1, <1>2

LEMMA Tailed ==
  ASSUME NEW S, NEW q \in Seq(S), q # << >>
  PROVE  /\ Head(q) = q[1] /\ Head(q) \in S
         /\ Tail(q) \in Seq(S)
         /\ Len(q) \in Nat \ {0}
         /\ Len(Tail(q)) = Len(q) - 1
         /\ \A i \in 1 .. Len(Tail(q)) : Tail(q)[i] = q[i + 1]
OBVIOUS

LEMMA Appended ==
  ASSUME NEW S, NEW q \in Seq(S), NEW m \in S
  PROVE  /\ Append(q, m) \in Seq(S)
         /\ Len(q) \in Nat
         /\ Len(Append(q, m)) = Len(q) + 1
         /\ Append(q, m)[Len(q) + 1] = m
         /\ \A i \in 1 .. Len(q) : Append(q, m)[i] = q[i]
OBVIOUS

\* A queue stays within its size, whether it forgets the oldest or refuses the
\* newest.
LEMMA NewestKept ==
  ASSUME NEW S, NEW q \in Seq(S), NEW m \in S, Len(q) <= QueueSize
  PROVE  /\ KeepNewest(q, m) \in Seq(S)
         /\ Len(KeepNewest(q, m)) <= QueueSize
<1>1. CASE Len(q) = QueueSize
  <2>1. q # << >>
    BY <1>1, QueueAssumption
  <2>2. Tail(q) \in Seq(S) /\ Len(Tail(q)) = QueueSize - 1
    BY <1>1, <2>1, Tailed
  <2>3. KeepNewest(q, m) = Append(Tail(q), m)
    BY <1>1 DEF KeepNewest
  <2> QED
    BY <2>2, <2>3, Appended, QueueAssumption
<1>2. CASE Len(q) # QueueSize
  <2>1. KeepNewest(q, m) = Append(q, m)
    BY <1>2 DEF KeepNewest
  <2> QED
    BY <1>2, <2>1, Appended, QueueAssumption
<1> QED
  BY <1>1, <1>2

LEMMA AllKept ==
  ASSUME NEW S, NEW q \in Seq(S), NEW m \in S, Len(q) <= EventQueueSize
  PROVE  /\ KeepAll(q, m) \in Seq(S)
         /\ Len(KeepAll(q, m)) <= EventQueueSize
<1>1. CASE Len(q) < EventQueueSize
  BY <1>1, Appended, QueueAssumption DEF KeepAll
<1>2. CASE ~ (Len(q) < EventQueueSize)
  BY <1>2 DEF KeepAll
<1> QED
  BY <1>1, <1>2

-----------------------------------------------------------------------------
(* Every step keeps the types *)

\* The sets of messages only grow with what is announced.
LEMMA ToldGrows ==
  ASSUME told \in Nat, told' \in Nat, told <= told'
  PROVE  Fresh \subseteq Fresh' /\ Cast \subseteq Cast'
<1>1. \A m : Known(m) /\ (m \in Messages \/ m \in Telemetry) => Known(m)'
  BY DEF Known, Messages, Telemetry
<1>2. Fresh \subseteq Fresh'
  BY <1>1 DEF Fresh
<1>3. {m \in Messages : Known(m)} \subseteq {m \in Messages : Known(m)}'
  BY <1>1
<1> QED
  BY <1>2, <1>3 DEF Cast

\* What a step that announces nothing leaves of the types.
LEMMA SameTold ==
  ASSUME UNCHANGED told
  PROVE  Fresh' = Fresh /\ Cast' = Cast
BY DEF Fresh, Cast, Known

LEMMA SpeakersStay ==
  ASSUME row \in Nat, row' \in Nat, row <= row'
  PROVE  Speaker \subseteq Speaker'
BY DEF Speaker

LEMMA TargetsType ==
  ASSUME ClientsType, NEW m
  PROVE  Targets(m) \subseteq Clients
BY DEF ClientsType, Targets

LEMMA BroadcastType ==
  ASSUME ClientsType, NEW C, casts \subseteq C, \A k \in casts : k.to # {},
         NEW m, NEW by, Broadcast(m, by),
         [msg |-> m, to |-> Targets(m), by |-> by] \in C
  PROVE  casts' \subseteq C /\ \A k \in casts' : k.to # {}
BY DEF Broadcast

\* A message a robot or a detector causes is queued.
LEMMA TelemetryQueued ==
  ASSUME TypeInv, row' \in Nat, row <= row', told' \in Nat, told <= told',
         NEW m \in Fresh', m.type \in Droppable, Publish(m)
  PROVE  QueueType' /\ CastType' /\ ClientsType'
<1>0. row \in Nat /\ told \in Nat
  BY BoundAssumption DEF TypeInv, CountType
<1>1. Fresh \subseteq Fresh' /\ Cast \subseteq Cast'
  BY <1>0, ToldGrows
<1>2. telemetryQ \in Seq(Fresh') /\ Len(telemetryQ) <= QueueSize
  BY <1>1, Wider DEF TypeInv, QueueType
<1>3. /\ telemetryQ' = KeepNewest(telemetryQ, m)
      /\ UNCHANGED << eventQ, handler, alive, clients, topics, casts, view >>
  BY DEF Publish
<1>4. telemetryQ' \in Seq(Fresh') /\ Len(telemetryQ') <= QueueSize
  BY <1>2, <1>3, NewestKept
<1>5. QueueType'
  BY <1>3, <1>4 DEF TypeInv, QueueType, Event
<1>6. CastType'
  BY <1>1, <1>3 DEF TypeInv, CastType
<1>7. ClientsType'
  BY <1>0, <1>3 DEF TypeInv, ClientsType
<1> QED
  BY <1>5, <1>6, <1>7

LEMMA EventQueued ==
  ASSUME TypeInv, UNCHANGED << row, told >>, NEW m \in Event,
         m.type \notin Droppable, Publish(m)
  PROVE  QueueType' /\ CastType' /\ ClientsType'
<1>1. /\ eventQ' = KeepAll(eventQ, m)
      /\ UNCHANGED << telemetryQ, handler, alive, clients, topics, casts, view >>
  BY DEF Publish
<1>2. eventQ' \in Seq(Event) /\ Len(eventQ') <= EventQueueSize
  BY <1>1, AllKept DEF TypeInv, QueueType
<1> QED
  BY <1>1, <1>2, SameTold DEF TypeInv, QueueType, CastType, ClientsType, Event

\* A broadcast past the queues.
LEMMA AnnounceType ==
  ASSUME TypeInv, row' \in 0 .. MaxRow, row <= row',
         NEW type \in Words, NEW v \in 0 .. row', NEW by \in Nat,
         Announce(type, v, by)
  PROVE  /\ QueueType' /\ CastType' /\ ClientsType'
         /\ told' \in 0 .. row' /\ passed' \in BOOLEAN /\ missed' \subseteq Clients
<1> DEFINE m == Message(type, v)
<1>0. row \in Nat /\ told \in 0 .. row /\ MaxRow \in Nat /\ MaxAlerts \in Nat
      /\ passed \in BOOLEAN /\ missed \subseteq Clients
  BY BoundAssumption DEF TypeInv, CountType
<1>m. /\ m.type = type
      /\ m.v = IF type = "ROBOT_STATUS" THEN v ELSE 0
      /\ m = [type |-> m.type, v |-> m.v]
  BY DEF Message
<1>1. /\ Broadcast(m, by)
      /\ UNCHANGED << telemetryQ, eventQ, handler, alive, clients, topics, view >>
      /\ type = "ROBOT_STATUS" =>
           /\ passed' = (StatusUnderWay \/ Statuses(telemetryQ) # {} \/ v < told)
           /\ told' = IF v < told THEN told ELSE v
           /\ missed' = Clients \ Targets(m)
      /\ type # "ROBOT_STATUS" => UNCHANGED << told, passed, missed >>
  BY DEF Announce, PublishAsync, announced
<1> HIDE DEF m
<1>2. told' \in 0 .. row' /\ told <= told' /\ (type = "ROBOT_STATUS" => v <= told')
  BY <1>0, <1>1
<1>p. passed' \in BOOLEAN
  <2>1. CASE type = "ROBOT_STATUS"
    BY <1>1, <2>1, Zenon
  <2>2. CASE type # "ROBOT_STATUS"
    BY <1>0, <1>1, <2>2, Zenon
  <2> QED
    BY <2>1, <2>2
<1>3. Fresh \subseteq Fresh' /\ Cast \subseteq Cast'
  BY <1>0, <1>2, ToldGrows
<1>4. [msg |-> m, to |-> Targets(m), by |-> by] \in Cast'
  <2>1. m \in Messages /\ (m.type = "ROBOT_STATUS" => m.v <= told')
    BY <1>0, <1>m, <1>2 DEF Messages, Types, Words
  <2>2. Targets(m) \in SUBSET Clients
    BY TargetsType DEF TypeInv
  <2> QED
    BY <2>1, <2>2 DEF Cast, Known
<1>5. CastType'
  <2>1. casts' \subseteq Cast' /\ \A x \in casts' : x.to # {}
    BY <1>1, <1>3, <1>4, BroadcastType DEF TypeInv, CastType
  <2> QED
    BY <2>1 DEF CastType
<1>6. QueueType'
  BY <1>1, <1>3, Wider DEF TypeInv, QueueType, Event
<1>7. ClientsType'
  BY <1>0, <1>1 DEF TypeInv, ClientsType
<1> QED
  BY <1>0, <1>1, <1>2, <1>p, <1>5, <1>6, <1>7

\* What is left to say keeps its type.
LEMMA ListsType ==
  /\ \A list \in Announcements : list # << >> =>
       Head(list) \in Words /\ Tail(list) \in Seq(Words)
  /\ \A list \in Seq(Words) \ {<< >>} :
       Head(list) \in Words /\ Tail(list) \in Seq(Words)
BY DEF Announcements, Words

LEMMA RemainType ==
  ASSUME NEW n, NEW by \in 1 .. n, NEW list \in Seq(Words)
  PROVE  Remain(by, list) \subseteq [by : 1 .. n, list : Seq(Words) \ {<< >>}]
<1>1. CASE list = << >>
  BY <1>1 DEF Remain
<1>2. CASE list # << >>
  <2>1. Remain(by, list) = {[by |-> by, list |-> list]}
    BY <1>2 DEF Remain
  <2>2. list \in Seq(Words) \ {<< >>}
    BY <1>2
  <2> QED
    BY <2>1, <2>2
<1> QED
  BY <1>1, <1>2

LEMMA ProduceType ==
  ASSUME TypeInv, Produce
  PROVE  TypeInv'
<1>0. /\ row \in Nat /\ row <= MaxRow /\ alerts \in Nat /\ alerts <= MaxAlerts
      /\ told \in Nat /\ told <= row
  BY BoundAssumption DEF TypeInv, CountType
<1>1. CASE RobotStatus
  <2>1. /\ row' = row + 1 /\ row' \in 0 .. MaxRow /\ told' = row + 1
        /\ CountType'
    <3>1. row' = row + 1 /\ row' \in 0 .. MaxRow /\ told' = row + 1
      BY <1>0, <1>1, BoundAssumption DEF RobotStatus
    <3>2. Speaker \subseteq Speaker'
      BY <1>0, <3>1, SpeakersStay
    <3>3. UNCHANGED << alerts, speaking, passed, missed >>
      BY <1>1 DEF RobotStatus
    <3> QED
      BY <1>0, <3>1, <3>2, <3>3 DEF TypeInv, CountType
  <2>2. Status(row + 1) \in Fresh' /\ Status(row + 1).type \in Droppable
    BY <1>0, <2>1 DEF Status, Fresh, Telemetry, Known, Droppable
  <2>3. Publish(Status(row + 1))
    BY <1>1 DEF RobotStatus
  <2> QED
    BY <1>0, <2>1, <2>2, <2>3, TelemetryQueued DEF TypeInv
<1>2. CASE SafetyEvent
  <2>1. CountType' /\ UNCHANGED << row, told >>
    BY <1>0, <1>2, BoundAssumption
    DEF SafetyEvent, TypeInv, CountType, announced, Speaker
  <2>2. Alert(alerts + 1) \in Event /\ Alert(alerts + 1).type \notin Droppable
    BY <1>0, <1>2, BoundAssumption DEF SafetyEvent, Alert, Event, Droppable
  <2>3. Publish(Alert(alerts + 1))
    BY <1>2 DEF SafetyEvent
  <2> QED
    BY <2>1, <2>2, <2>3, EventQueued DEF TypeInv
<1>3. CASE CommandAck
  <2>1. CountType' /\ UNCHANGED << row, told >> /\ Publish(Log)
    BY <1>3 DEF CommandAck, TypeInv, CountType, announced, Speaker
  <2>2. Log \in Event /\ Log.type \notin Droppable
    BY BoundAssumption DEF Log, Event, Droppable
  <2> QED
    BY <2>1, <2>2, EventQueued DEF TypeInv
<1>4. CASE DetectionFrame
  <2>1. row' = row /\ told' = told /\ Publish(Detection)
    BY <1>4 DEF DetectionFrame
  <2>2. CountType'
    <3>1. /\ UNCHANGED << row, alerts, speaking, told, missed >>
          /\ passed' = (passed \/ (/\ Statuses(telemetryQ) # {}
                                   /\ Statuses(telemetryQ') = {}))
      BY <1>4 DEF DetectionFrame
    <3>2. passed' \in BOOLEAN
      BY <3>1, Zenon DEF TypeInv, CountType
    <3> QED
      BY <3>1, <3>2 DEF TypeInv, CountType, Speaker
  <2>3. Detection \in Fresh' /\ Detection.type \in Droppable
    BY <1>0, BoundAssumption
    DEF Detection, Fresh, Telemetry, Known, Droppable
  <2> QED
    BY <1>0, <2>1, <2>2, <2>3, TelemetryQueued DEF TypeInv
<1>5. CASE HandlerChangesRobot
  <2>1. PICK list \in Announcements :
          IF list = << >>
             THEN UNCHANGED << hubVars, speaking, announced >>
             ELSE /\ Announce(Head(list), row + 1, row + 1)
                  /\ speaking' = speaking \cup Remain(row + 1, Tail(list))
    BY <1>5 DEF HandlerChangesRobot
  <2>2. row' = row + 1 /\ row' \in 0 .. MaxRow /\ UNCHANGED alerts
    BY <1>0, <1>5, BoundAssumption DEF HandlerChangesRobot
  <2>3. Speaker \subseteq Speaker'
    BY <1>0, <2>2, SpeakersStay
  <2>4. CASE list = << >>
    <3>1. UNCHANGED << hubVars, speaking, told, passed, missed >>
      BY <2>1, <2>4 DEF announced
    <3>2. CountType'
      BY <1>0, <2>2, <2>3, <3>1 DEF TypeInv, CountType
    <3> QED
      BY <1>0, <2>2, <3>1, <3>2, SameTold
      DEF TypeInv, ClientsType, QueueType, CastType, Event, hubVars
  <2>5. CASE list # << >>
    <3>1. Head(list) \in Words /\ Tail(list) \in Seq(Words)
      BY <2>5, ListsType
    <3>2. /\ QueueType' /\ CastType' /\ ClientsType'
          /\ told' \in 0 .. row' /\ passed' \in BOOLEAN
          /\ missed' \subseteq Clients
      BY <1>0, <2>1, <2>2, <2>5, <3>1, AnnounceType
    <3>3. Remain(row + 1, Tail(list)) \subseteq Speaker'
      <4>1. row + 1 \in 1 .. row'
        BY <1>0, <2>2
      <4> QED
        BY <3>1, <4>1, RemainType DEF Speaker
    <3>4. speaking' \subseteq Speaker'
      BY <2>1, <2>3, <2>5, <3>3 DEF TypeInv, CountType
    <3> QED
      BY <2>2, <3>2, <3>4 DEF TypeInv, CountType
  <2> QED
    BY <2>4, <2>5
<1>6. CASE HandlerGoesOn
  <2>1. PICK s \in speaking :
          /\ \E v \in {s.by, row} : Announce(Head(s.list), v, s.by)
          /\ speaking' = (speaking \ {s}) \cup Remain(s.by, Tail(s.list))
    BY <1>6 DEF HandlerGoesOn
  <2>2. UNCHANGED << row, alerts >>
    BY <1>6 DEF HandlerGoesOn
  <2>3. PICK v \in {s.by, row} : Announce(Head(s.list), v, s.by)
    BY <2>1
  <2>4. s \in Speaker
    BY DEF TypeInv, CountType
  <2>5. s.by \in Nat /\ s.by \in 1 .. row /\ s.list \in Seq(Words) \ {<< >>}
    BY <1>0, <2>4 DEF Speaker
  <2>6. Head(s.list) \in Words /\ Tail(s.list) \in Seq(Words)
    BY <2>5, ListsType
  <2>7. row' \in 0 .. MaxRow /\ row <= row' /\ v \in 0 .. row'
    BY <1>0, <2>2, <2>5, BoundAssumption
  <2>8. /\ QueueType' /\ CastType' /\ ClientsType'
        /\ told' \in 0 .. row' /\ passed' \in BOOLEAN
        /\ missed' \subseteq Clients
    BY <2>3, <2>5, <2>6, <2>7, AnnounceType
  <2>9. Remain(s.by, Tail(s.list)) \subseteq Speaker
    BY <2>5, <2>6, RemainType DEF Speaker
  <2>10. speaking' \subseteq Speaker'
    BY <2>1, <2>2, <2>9 DEF TypeInv, CountType, Speaker
  <2> QED
    BY <2>2, <2>7, <2>8, <2>10 DEF TypeInv, CountType
<1> QED
  BY <1>1, <1>2, <1>3, <1>4, <1>5, <1>6 DEF Produce

LEMMA ConsumeType ==
  ASSUME TypeInv, Consume
  PROVE  TypeInv'
<1>1. ConsumerTake /\ UNCHANGED << row, alerts, speaking, told >>
  BY DEF Consume
<1>c. CountType'
  <2>1. /\ passed' = (StatusUnderWay \/ Head(telemetryQ).v # told) \/ passed' = passed
        /\ missed' = Clients \ Targets(Head(telemetryQ)) \/ missed' = missed
    BY DEF Consume
  <2>2. passed' \in BOOLEAN
    BY <2>1, Zenon DEF TypeInv, CountType
  <2> QED
    BY <1>1, <2>1, <2>2 DEF TypeInv, CountType, Speaker
<1>2. ClientsType'
  BY <1>1 DEF ConsumerTake, TypeInv, ClientsType
<1>3. ASSUME NEW m \in Messages, Known(m), Broadcast(m, Consumer)
      PROVE  CastType'
  <2>1. [msg |-> m, to |-> Targets(m), by |-> Consumer] \in Cast
    BY <1>3, TargetsType DEF Cast, TypeInv, Consumer
  <2>2. casts' \subseteq Cast /\ \A k \in casts' : k.to # {}
    BY <1>3, <2>1, BroadcastType DEF TypeInv, CastType
  <2> QED
    BY <1>1, <2>2, SameTold DEF CastType
<1>4. CASE /\ eventQ # << >>
           /\ eventQ' = Tail(eventQ)
           /\ Broadcast(Head(eventQ), Consumer)
           /\ UNCHANGED telemetryQ
  <2>1. /\ Head(eventQ) \in Event
        /\ Tail(eventQ) \in Seq(Event)
        /\ Len(Tail(eventQ)) <= EventQueueSize
    BY <1>4, Tailed, QueueAssumption DEF TypeInv, QueueType
  <2>2. Head(eventQ) \in Messages /\ Known(Head(eventQ))
    BY <2>1, BoundAssumption DEF Event, Messages, Types, Known
  <2>3. QueueType'
    BY <1>1, <1>4, <2>1, SameTold DEF TypeInv, QueueType, Event
  <2> QED
    BY <1>c, <1>2, <1>3, <1>4, <2>2, <2>3 DEF TypeInv
<1>5. CASE /\ telemetryQ # << >>
           /\ telemetryQ' = Tail(telemetryQ)
           /\ Broadcast(Head(telemetryQ), Consumer)
           /\ UNCHANGED eventQ
  <2>1. /\ Head(telemetryQ) \in Fresh
        /\ Tail(telemetryQ) \in Seq(Fresh)
        /\ Len(Tail(telemetryQ)) <= QueueSize
    BY <1>5, Tailed, QueueAssumption DEF TypeInv, QueueType
  <2>2. Head(telemetryQ) \in Messages /\ Known(Head(telemetryQ))
    BY <2>1, BoundAssumption DEF Fresh, Telemetry, Droppable, Messages, Types
  <2>3. QueueType'
    BY <1>1, <1>5, <2>1, SameTold DEF TypeInv, QueueType, Event
  <2> QED
    BY <1>c, <1>2, <1>3, <1>5, <2>2, <2>3 DEF TypeInv
<1> QED
  BY <1>1, <1>4, <1>5 DEF ConsumerTake

\* A send takes one target from one broadcast.
LEMMA DeliverType ==
  ASSUME TypeInv, UNCHANGED Rest, NEW c \in Clients, NEW k \in casts,
         Deliver(k, c)
  PROVE  TypeInv'
<1> DEFINE rest == [k EXCEPT !.to = @ \ {c}]
<1>1. k \in Cast /\ UNCHANGED << row, told >>
  BY DEF TypeInv, CastType, Rest, announced
<1>2. rest \in Cast /\ rest.to = k.to \ {c}
  BY <1>1 DEF Cast
<1>3. CastType'
  <2>1. casts' = (casts \ {k}) \cup (IF rest.to = {} THEN {} ELSE {rest})
    BY DEF Deliver
  <2> HIDE DEF rest
  <2> QED
    BY <1>1, <1>2, <2>1, SameTold DEF TypeInv, CastType
<1>4. QueueType'
  BY <1>1, SameTold DEF TypeInv, QueueType, Deliver, Event
<1>5. CountType'
  BY DEF TypeInv, CountType, Rest, announced, Speaker
<1>6. ClientsType'
  <2>1. k.msg.type = "ROBOT_STATUS" => k.msg.v \in 0 .. row
    BY <1>1, BoundAssumption DEF Cast, Messages, Known, TypeInv, CountType
  <2>2. UNCHANGED view \/ (\E v \in 0 .. row : view' = [view EXCEPT ![c] = v])
    BY <2>1 DEF Deliver
  <2> QED
    BY <1>1, <2>2 DEF TypeInv, ClientsType, Deliver
<1> QED
  BY <1>3, <1>4, <1>5, <1>6 DEF TypeInv

LEMMA ClientType ==
  ASSUME TypeInv, NEW c \in Clients, Client(c)
  PROVE  TypeInv'
<1>1. /\ UNCHANGED << telemetryQ, eventQ, casts, row, alerts, speaking, told, passed >>
      /\ missed' \subseteq missed
  BY DEF Client, Connect, SendSnapshot, Subscribe, SocketDies, HandlerEnds
<1>2. QueueType' /\ CastType' /\ CountType'
  BY <1>1, SameTold DEF TypeInv, QueueType, CastType, CountType, Event, Speaker
<1>3. row \in 0 .. row
  BY BoundAssumption DEF TypeInv, CountType
<1>4. ClientsType'
  BY <1>1, <1>3
  DEF TypeInv, ClientsType, Client, Connect, SendSnapshot, Show, Subscribe,
      SocketDies, HandlerEnds
<1> QED
  BY <1>2, <1>4 DEF TypeInv

LEMMA InitType == Init => TypeInv
<1> SUFFICES ASSUME Init PROVE TypeInv
  OBVIOUS
<1>1. CountType
  <2>1. 0 \in 0 .. MaxRow /\ 0 \in 0 .. MaxAlerts /\ 0 \in 0 .. 0
    BY BoundAssumption
  <2>2. /\ row = 0 /\ alerts = 0 /\ told = 0 /\ passed = FALSE
        /\ missed = {} /\ speaking = {}
    BY DEF Init
  <2>3. passed \in BOOLEAN /\ missed \subseteq Clients /\ speaking \subseteq Speaker
    BY <2>2, Zenon
  <2>4. row \in 0 .. MaxRow /\ alerts \in 0 .. MaxAlerts /\ told \in 0 .. row
    BY <2>1, <2>2, Zenon
  <2> QED
    BY <2>3, <2>4 DEF CountType
<1>2. 0 \in 0 .. row
  BY DEF Init
<1> USE BoundAssumption, QueueAssumption DEF Init, HubInit
<1>3. ClientsType /\ CountType
  <2>2. view \in [Clients -> 0 .. row]
    BY <1>2
  <2>3. /\ handler \in [Clients -> {"new", "listening", "ended"}]
        /\ alive \in [Clients -> BOOLEAN]
        /\ topics \in [Clients -> SUBSET Topics]
    OBVIOUS
  <2> QED
    BY <1>1, <2>2, <2>3 DEF ClientsType
<1>4. /\ << >> \in Seq(Fresh) /\ << >> \in Seq(Event)
      /\ Len(<< >>) = 0
  OBVIOUS
<1>5. QueueType
  BY <1>4 DEF QueueType
<1>6. CastType
  BY DEF CastType
<1> QED
  BY <1>3, <1>5, <1>6 DEF TypeInv

LEMMA NextType == TypeInv /\ [Next]_vars => TypeInv'
<1> SUFFICES ASSUME TypeInv, [Next]_vars PROVE TypeInv'
  OBVIOUS
<1>1. CASE UNCHANGED vars
  BY <1>1, SameTold
  DEF vars, hubVars, announced, TypeInv, ClientsType, QueueType, CastType,
      CountType, Event, Speaker
<1>2. ASSUME NEW c \in Clients, Send(c) PROVE TypeInv'
  BY <1>2, DeliverType DEF Send
<1> QED
  BY <1>1, <1>2, ProduceType, ConsumeType, ClientType DEF Next

LEMMA TypeInvariance == Spec => []TypeInv
BY InitType, NextType, PTL DEF Spec

\* Every variable of the hub keeps its type and neither queue ever exceeds its
\* size, for every number of clients (connection_manager.py:126).
THEOREM HubTypeCorrect == Spec => []MonitorTypeOK
<1>1. TypeInv => MonitorTypeOK
  BY BoundAssumption
  DEF TypeInv, ClientsType, QueueType, CastType, CountType, Cast, MonitorTypeOK
<1> QED
  BY <1>1, TypeInvariance, PTL

-----------------------------------------------------------------------------
(* The table of clients *)

LEMMA TableNext ==
  ASSUME TypeInv, NoClientLeft, [Next]_vars
  PROVE  NoClientLeft'
<1>1. CASE UNCHANGED << handler, clients >>
  BY <1>1 DEF NoClientLeft
<1>2. CASE Produce \/ Consume \/ UNCHANGED vars
  <2>1. UNCHANGED << handler, clients >>
    BY <1>2
    DEF Produce, RobotStatus, SafetyEvent, CommandAck, DetectionFrame,
        HandlerChangesRobot, HandlerGoesOn, Announce, Publish, PublishAsync,
        Consume, ConsumerTake, vars, hubVars
  <2> QED
    BY <1>1, <2>1
<1>3. ASSUME NEW c \in Clients, Send(c) PROVE NoClientLeft'
  <2>1. UNCHANGED handler /\ clients' \subseteq clients
    BY <1>3 DEF Send, Deliver
  <2> QED
    BY <2>1 DEF NoClientLeft
<1>4. ASSUME NEW c \in Clients, Client(c) PROVE NoClientLeft'
  BY <1>4
  DEF NoClientLeft, TypeInv, ClientsType, Client, Connect, SendSnapshot, Show,
      Subscribe, SocketDies, HandlerEnds
<1> QED
  BY <1>2, <1>3, <1>4 DEF Next

\* A client is in the table of the broadcasts only while its coroutine listens,
\* however sends that fail, late subscriptions and disconnects interleave.
THEOREM TableIsListening == Spec => []NoClientLeft
<1>1. Init => NoClientLeft
  BY DEF Init, HubInit, NoClientLeft
<1>2. TypeInv /\ NoClientLeft /\ [Next]_vars => NoClientLeft'
  BY TableNext
<1> QED
  BY <1>1, <1>2, TypeInvariance, PTL DEF Spec

-----------------------------------------------------------------------------
(* The last status of a queue *)

\* The last status of a queue is of version v.
LastStatusIs(q, v) ==
  \E i \in Statuses(q) : q[i].v = v /\ \A j \in Statuses(q) : j <= i

\* A status that is appended is the last one; another message changes nothing.
LEMMA LastAppended ==
  ASSUME NEW S, NEW q \in Seq(S), NEW m \in S
  PROVE  /\ m.type = "ROBOT_STATUS" => LastStatusIs(Append(q, m), m.v)
         /\ m.type # "ROBOT_STATUS" =>
              /\ Statuses(Append(q, m)) = Statuses(q)
              /\ \A v : LastStatusIs(q, v) => LastStatusIs(Append(q, m), v)
<1> DEFINE p == Append(q, m)
<1>1. /\ p \in Seq(S)
      /\ Len(q) \in Nat
      /\ DOMAIN q = 1 .. Len(q)
      /\ DOMAIN p = 1 .. (Len(q) + 1)
      /\ p[Len(q) + 1] = m
      /\ \A i \in 1 .. Len(q) : p[i] = q[i]
  BY Appended
<1> HIDE DEF p
<1>2. Statuses(p) = Statuses(q) \cup
        (IF m.type = "ROBOT_STATUS" THEN {Len(q) + 1} ELSE {})
  BY <1>1 DEF Statuses
<1>3. ASSUME m.type = "ROBOT_STATUS" PROVE LastStatusIs(p, m.v)
  <2>1. Len(q) + 1 \in Statuses(p) /\ \A j \in Statuses(p) : j <= Len(q) + 1
    BY <1>1, <1>3 DEF Statuses
  <2> QED
    BY <1>1, <2>1 DEF LastStatusIs
<1>4. ASSUME m.type # "ROBOT_STATUS"
      PROVE  /\ Statuses(p) = Statuses(q)
             /\ \A v : LastStatusIs(q, v) => LastStatusIs(p, v)
  <2>1. Statuses(p) = Statuses(q)
    BY <1>2, <1>4
  <2>2. \A i \in Statuses(q) : p[i] = q[i]
    BY <1>1 DEF Statuses
  <2> QED
    BY <2>1, <2>2 DEF LastStatusIs
<1> QED
  BY <1>3, <1>4 DEF p

\* What is left when the oldest message of a queue is taken.
LEMMA LastTailed ==
  ASSUME NEW S, NEW q \in Seq(S), q # << >>
  PROVE  /\ Statuses(q) = {} => Statuses(Tail(q)) = {}
         /\ Statuses(q) # {} /\ Statuses(Tail(q)) = {} =>
              /\ Head(q).type = "ROBOT_STATUS"
              /\ \A v : LastStatusIs(q, v) => Head(q).v = v
         /\ Statuses(Tail(q)) # {} =>
              \A v : LastStatusIs(q, v) => LastStatusIs(Tail(q), v)
         /\ Statuses(q) = {} => Head(q).type # "ROBOT_STATUS"
<1> DEFINE t == Tail(q)
<1>1. /\ Len(q) \in Nat \ {0}
      /\ t \in Seq(S)
      /\ DOMAIN q = 1 .. Len(q)
      /\ DOMAIN t = 1 .. (Len(q) - 1)
      /\ Head(q) = q[1]
      /\ \A i \in 1 .. (Len(q) - 1) : t[i] = q[i + 1]
  BY Tailed
<1> HIDE DEF t
<1>2. \A i \in Statuses(t) : i + 1 \in Statuses(q) /\ t[i] = q[i + 1] /\ i \in Nat \ {0}
  BY <1>1 DEF Statuses
<1>3. \A i \in Statuses(q) : i = 1 \/ i - 1 \in Statuses(t)
  BY <1>1 DEF Statuses
<1>4. Statuses(q) \subseteq Nat /\ (1 \in Statuses(q) <=> q[1].type = "ROBOT_STATUS")
  BY <1>1 DEF Statuses
<1>5. Statuses(q) = {} => Statuses(t) = {}
  BY <1>2
<1>6. ASSUME Statuses(q) # {}, Statuses(t) = {}
      PROVE  /\ Head(q).type = "ROBOT_STATUS"
             /\ \A v : LastStatusIs(q, v) => Head(q).v = v
  <2>1. Statuses(q) = {1}
    BY <1>3, <1>6
  <2> QED
    BY <1>1, <1>4, <2>1 DEF LastStatusIs
<1>7. ASSUME Statuses(t) # {}, NEW v, LastStatusIs(q, v)
      PROVE  LastStatusIs(t, v)
  <2>1. PICK i \in Statuses(q) : q[i].v = v /\ \A j \in Statuses(q) : j <= i
    BY <1>7 DEF LastStatusIs
  <2>2. PICK n \in Statuses(t) : TRUE
    BY <1>7
  <2>3. i # 1
    BY <1>2, <2>1, <2>2
  <2>4. i - 1 \in Statuses(t) /\ t[i - 1] = q[i]
    BY <1>2, <1>3, <1>4, <2>3
  <2>5. \A j \in Statuses(t) : j <= i - 1
    BY <1>2, <1>4, <2>1
  <2> QED
    BY <2>1, <2>4, <2>5 DEF LastStatusIs
<1>8. Statuses(q) = {} => Head(q).type # "ROBOT_STATUS"
  BY <1>1, <1>4
<1> QED
  BY <1>5, <1>6, <1>7, <1>8 DEF t

\* A full queue that forgets its oldest message keeps the last status, unless
\* it was the only one.
LEMMA LastKept ==
  ASSUME NEW S, NEW q \in Seq(S), NEW m \in S
  PROVE  /\ m.type = "ROBOT_STATUS" => LastStatusIs(KeepNewest(q, m), m.v)
         /\ m.type # "ROBOT_STATUS" =>
              /\ Statuses(q) = {} => Statuses(KeepNewest(q, m)) = {}
              /\ Statuses(KeepNewest(q, m)) # {} =>
                   \A v : LastStatusIs(q, v) => LastStatusIs(KeepNewest(q, m), v)
<1>1. CASE KeepNewest(q, m) = Append(q, m)
  BY <1>1, LastAppended
<1>2. CASE q # << >> /\ KeepNewest(q, m) = Append(Tail(q), m)
  <2>1. Tail(q) \in Seq(S)
    BY <1>2, Tailed
  <2>2. m.type = "ROBOT_STATUS" => LastStatusIs(KeepNewest(q, m), m.v)
    BY <1>2, <2>1, LastAppended
  <2>3. ASSUME m.type # "ROBOT_STATUS"
        PROVE  /\ Statuses(KeepNewest(q, m)) = Statuses(Tail(q))
               /\ \A v : LastStatusIs(Tail(q), v) => LastStatusIs(KeepNewest(q, m), v)
    BY <1>2, <2>1, <2>3, LastAppended
  <2> QED
    BY <1>2, <2>2, <2>3, LastTailed
<1>3. Len(q) = QueueSize => q # << >>
  BY QueueAssumption
<1> QED
  BY <1>1, <1>2, <1>3 DEF KeepNewest

LEMMA SomeLast ==
  ASSUME NEW q, NEW v, LastStatusIs(q, v)
  PROVE  Statuses(q) # {}
BY DEF LastStatusIs

-----------------------------------------------------------------------------
(* What was announced is on its way *)

\* Every status of a queue is older than version v.
OlderOnly(q, v) == \A i \in Statuses(q) : q[i].v < v

\* Taking the oldest message of a queue, or queueing one that is no status,
\* brings no newer status.
LEMMA OlderTailed ==
  ASSUME NEW S, NEW q \in Seq(S), q # << >>, NEW v, OlderOnly(q, v)
  PROVE  /\ OlderOnly(Tail(q), v)
         /\ Head(q).type = "ROBOT_STATUS" => Head(q).v < v
<1>1. /\ Len(q) \in Nat \ {0}
      /\ DOMAIN q = 1 .. Len(q)
      /\ DOMAIN Tail(q) = 1 .. (Len(q) - 1)
      /\ Head(q) = q[1]
      /\ \A i \in 1 .. (Len(q) - 1) : Tail(q)[i] = q[i + 1]
  BY Tailed
<1> QED
  BY <1>1 DEF OlderOnly, Statuses

LEMMA OlderKept ==
  ASSUME NEW S, NEW q \in Seq(S), NEW m \in S, m.type # "ROBOT_STATUS",
         NEW v, OlderOnly(q, v)
  PROVE  OlderOnly(KeepNewest(q, m), v)
<1>1. ASSUME NEW p \in Seq(S), OlderOnly(p, v) PROVE OlderOnly(Append(p, m), v)
  <2>1. Statuses(Append(p, m)) = Statuses(p)
    BY LastAppended
  <2>2. \A i \in Statuses(p) : Append(p, m)[i] = p[i]
    <3>1. DOMAIN p = 1 .. Len(p) /\ Len(p) \in Nat
      OBVIOUS
    <3> QED
      BY <3>1, Appended DEF Statuses
  <2> QED
    BY <1>1, <2>1, <2>2 DEF OlderOnly
<1>2. CASE Len(q) = QueueSize
  <2>1. q # << >>
    BY <1>2, QueueAssumption
  <2>2. Tail(q) \in Seq(S) /\ OlderOnly(Tail(q), v)
    BY <2>1, Tailed, OlderTailed
  <2> QED
    BY <1>1, <1>2, <2>2 DEF KeepNewest
<1>3. CASE Len(q) # QueueSize
  BY <1>1, <1>3 DEF KeepNewest
<1> QED
  BY <1>2, <1>3

\* The newest state announced is on its way: it is the last status of the queue,
\* or older ones wait there for their turn; or it is what every status being sent
\* says, and who hears of it shows it already or is about to be sent it.
Hears(c)    == c \in clients /\ alive[c] /\ c \notin missed
OnItsWay(c) == \E k \in casts : k.msg.type = "ROBOT_STATUS" /\ c \in k.to
AllCurrent ==
  /\ \A k \in casts : k.msg.type = "ROBOT_STATUS" => k.msg.v = told
  /\ \A c \in Clients : Hears(c) => told <= view[c] \/ OnItsWay(c)
WillArrive ==
  IF Statuses(telemetryQ) # {}
     THEN \/ LastStatusIs(telemetryQ, told)
          \/ passed /\ OlderOnly(telemetryQ, told)
     ELSE passed \/ AllCurrent

\* While the queue holds a status, it is the last that counts.
LEMMA QueueArrives ==
  ASSUME LastStatusIs(telemetryQ', told')
  PROVE  WillArrive'
BY SomeLast DEF WillArrive

LEMMA CurrentArrives ==
  ASSUME AllCurrent', Statuses(telemetryQ') = {}
  PROVE  WillArrive'
BY DEF WillArrive

\* A step that leaves queue, broadcasts and announcements alone, and lets a
\* client only in with the row on its screen.
LEMMA ClientsCurrent ==
  ASSUME AllCurrent, UNCHANGED << casts, told >>,
         \A c \in Clients : Hears(c)' =>
           told <= view'[c] \/ (Hears(c) /\ view'[c] = view[c])
  PROVE  AllCurrent'
BY DEF AllCurrent, OnItsWay

\* A broadcast of the newest state, with no other under way, reaches everybody
\* it is meant for.
LEMMA StatusCast ==
  ASSUME NEW m, m.type = "ROBOT_STATUS", m.v = told', NEW by,
         Broadcast(m, by), ~ StatusUnderWay, missed' = Clients \ Targets(m)
  PROVE  AllCurrent'
<1>1. casts' = casts \cup (IF Targets(m) = {} THEN {}
                           ELSE {[msg |-> m, to |-> Targets(m), by |-> by]})
  BY DEF Broadcast
<1>2. \A k \in casts' : k.msg.type = "ROBOT_STATUS" => k.msg.v = told'
  BY <1>1 DEF StatusUnderWay
<1>3. ASSUME NEW c \in Clients, Hears(c)' PROVE OnItsWay(c)'
  <2>1. c \in Targets(m)
    BY <1>3 DEF Hears
  <2>2. [msg |-> m, to |-> Targets(m), by |-> by] \in casts'
    BY <1>1, <2>1
  <2> QED
    BY <2>1, <2>2 DEF OnItsWay
<1> QED
  BY <1>2, <1>3 DEF AllCurrent

\* A broadcast of another message says nothing about the robot.
LEMMA OtherCast ==
  ASSUME NEW m, m.type # "ROBOT_STATUS", NEW by, Broadcast(m, by),
         UNCHANGED << clients, alive, view, told, missed >>, AllCurrent
  PROVE  AllCurrent'
<1>1. casts' = casts \cup (IF Targets(m) = {} THEN {}
                           ELSE {[msg |-> m, to |-> Targets(m), by |-> by]})
  BY DEF Broadcast
<1>2. \A k \in casts' : k.msg.type = "ROBOT_STATUS" => k \in casts
  BY <1>1
<1>3. casts \subseteq casts'
  BY <1>1
<1> QED
  BY <1>2, <1>3 DEF AllCurrent, Hears, OnItsWay

\* A broadcast past the queues.
LEMMA AnnounceArrives ==
  ASSUME TypeInv, WillArrive, NEW type, NEW v \in Nat, NEW by,
         Announce(type, v, by)
  PROVE  WillArrive'
<1> DEFINE m == Message(type, v)
<1>0. told \in Nat /\ \A i \in Statuses(telemetryQ) : telemetryQ[i].v \in Nat
  <2>1. telemetryQ \in Seq(Fresh)
    BY DEF TypeInv, QueueType
  <2>2. \A i \in DOMAIN telemetryQ : telemetryQ[i] \in Fresh
    BY <2>1
  <2>3. \A x \in Fresh : x.v \in Nat
    BY BoundAssumption DEF Fresh, Telemetry
  <2>4. told \in Nat
    BY BoundAssumption DEF TypeInv, CountType
  <2> QED
    BY <2>2, <2>3, <2>4 DEF Statuses
<1>1. /\ Broadcast(m, by)
      /\ UNCHANGED << telemetryQ, eventQ, alive, clients, topics, view >>
      /\ type = "ROBOT_STATUS" =>
           /\ passed' = (StatusUnderWay \/ Statuses(telemetryQ) # {} \/ v < told)
           /\ told' = IF v < told THEN told ELSE v
           /\ missed' = Clients \ Targets(m)
      /\ type # "ROBOT_STATUS" => UNCHANGED << told, passed, missed >>
      /\ m.type = type /\ (type = "ROBOT_STATUS" => m.v = v)
  BY DEF Announce, PublishAsync, announced, Message
<1> HIDE DEF m
<1>2. CASE type # "ROBOT_STATUS"
  <2>1. AllCurrent => AllCurrent'
    BY <1>1, <1>2, OtherCast
  <2> QED
    BY <1>1, <1>2, <2>1 DEF WillArrive
<1>3. CASE type = "ROBOT_STATUS" /\ Statuses(telemetryQ) # {}
  <2>1. passed' /\ telemetryQ' = telemetryQ
    BY <1>1, <1>3
  <2>2. CASE told' = told
    BY <1>3, <2>1, <2>2 DEF WillArrive
  <2>3. CASE told' # told
    <3>1. told < told'
      BY <1>0, <1>1, <1>3, <2>3
    <3>2. \A i \in Statuses(telemetryQ) : telemetryQ[i].v <= told
      <4>1. telemetryQ \in Seq(Fresh)
        BY DEF TypeInv, QueueType
      <4> QED
        BY <4>1 DEF Fresh, Known, Statuses
    <3>3. told' \in Nat
      BY <1>0, <1>1, <1>3
    <3>4. OlderOnly(telemetryQ, told')
      BY <1>0, <3>1, <3>2, <3>3 DEF OlderOnly
    <3> QED
      BY <1>3, <2>1, <3>4 DEF WillArrive, OlderOnly, Statuses
  <2> QED
    BY <2>2, <2>3
<1>4. CASE type = "ROBOT_STATUS" /\ Statuses(telemetryQ) = {}
  <2>1. CASE passed'
    BY <1>1, <1>4, <2>1 DEF WillArrive, Statuses
  <2>2. CASE ~ passed'
    <3>1. ~ StatusUnderWay /\ ~ (v < told)
      BY <1>1, <1>4, <2>2
    <3>2. told' = v
      BY <1>1, <1>4, <3>1
    <3>3. AllCurrent'
      BY <1>1, <1>4, <3>1, <3>2, StatusCast
    <3>4. Statuses(telemetryQ') = {}
      BY <1>1, <1>4
    <3> QED
      BY <3>3, <3>4, CurrentArrives
  <2> QED
    BY <2>1, <2>2
<1> QED
  BY <1>2, <1>3, <1>4

LEMMA ProduceArrives ==
  ASSUME TypeInv, WillArrive, Produce
  PROVE  WillArrive'
<1>0. row \in Nat /\ told \in Nat /\ telemetryQ \in Seq(Fresh)
  BY BoundAssumption DEF TypeInv, CountType, QueueType
<1>1. CASE RobotStatus
  <2> DEFINE S == Fresh \cup {Status(row + 1)}
  <2>1. telemetryQ \in Seq(S)
    BY <1>0, Wider
  <2>2. /\ told' = row + 1
        /\ telemetryQ' = KeepNewest(telemetryQ, Status(row + 1))
    BY <1>1 DEF RobotStatus, Publish, Status, Droppable
  <2>3. LastStatusIs(telemetryQ', Status(row + 1).v)
    BY <2>1, <2>2, LastKept DEF Status
  <2>4. Status(row + 1).v = told'
    BY <2>2 DEF Status
  <2> QED
    BY <2>3, <2>4, QueueArrives
<1>2. CASE SafetyEvent \/ CommandAck
  <2>1. UNCHANGED << telemetryQ, casts, told, passed, missed, clients, alive, view >>
    BY <1>2
    DEF SafetyEvent, CommandAck, Publish, Alert, Log, Droppable, announced
  <2> QED
    BY <2>1
    DEF WillArrive, AllCurrent, Hears, OnItsWay, LastStatusIs, OlderOnly, Statuses
<1>3. CASE DetectionFrame
  <2>1. /\ telemetryQ' = KeepNewest(telemetryQ, Detection)
        /\ UNCHANGED << casts, told, missed, clients, alive, view >>
        /\ passed' = (passed \/ (/\ Statuses(telemetryQ) # {}
                                 /\ Statuses(telemetryQ') = {}))
    BY <1>3 DEF DetectionFrame, Publish, Detection, Droppable
  <2>2. Detection \in Fresh /\ Detection.type # "ROBOT_STATUS"
    BY <1>0, BoundAssumption DEF Detection, Fresh, Telemetry, Known, Droppable
  <2>3. /\ Statuses(telemetryQ) = {} => Statuses(telemetryQ') = {}
        /\ Statuses(telemetryQ') # {} /\ LastStatusIs(telemetryQ, told)
             => LastStatusIs(telemetryQ', told)
    BY <1>0, <2>1, <2>2, LastKept
  <2>4. OlderOnly(telemetryQ, told) => OlderOnly(telemetryQ', told)
    BY <1>0, <2>1, <2>2, OlderKept
  <2>5. AllCurrent => AllCurrent'
    BY <2>1 DEF AllCurrent, Hears, OnItsWay
  <2>6. /\ LastStatusIs(telemetryQ', told) <=> LastStatusIs(telemetryQ', told')
        /\ OlderOnly(telemetryQ', told) <=> OlderOnly(telemetryQ', told')
    BY <2>1
  <2> QED
    BY <2>1, <2>3, <2>4, <2>5, <2>6 DEF WillArrive
<1>4. CASE HandlerChangesRobot
  <2>1. PICK list \in Announcements :
          IF list = << >>
             THEN UNCHANGED << hubVars, speaking, announced >>
             ELSE /\ Announce(Head(list), row + 1, row + 1)
                  /\ speaking' = speaking \cup Remain(row + 1, Tail(list))
    BY <1>4 DEF HandlerChangesRobot
  <2>2. CASE list = << >>
    BY <2>1, <2>2
    DEF hubVars, announced, WillArrive, AllCurrent, Hears, OnItsWay,
        LastStatusIs, OlderOnly, Statuses
  <2>3. CASE list # << >>
    BY <1>0, <2>1, <2>3, AnnounceArrives
  <2> QED
    BY <2>2, <2>3
<1>5. CASE HandlerGoesOn
  <2>1. PICK s \in speaking : \E v \in {s.by, row} : Announce(Head(s.list), v, s.by)
    BY <1>5 DEF HandlerGoesOn
  <2>2. s.by \in Nat
    BY <1>0 DEF TypeInv, CountType, Speaker
  <2> QED
    BY <1>0, <2>1, <2>2, AnnounceArrives
<1> QED
  BY <1>1, <1>2, <1>3, <1>4, <1>5 DEF Produce

LEMMA ConsumeArrives ==
  ASSUME TypeInv, WillArrive, Consume
  PROVE  WillArrive'
<1>1. UNCHANGED << clients, alive, topics, view, told >>
  BY DEF Consume, ConsumerTake
<1>2. CASE /\ eventQ # << >>
           /\ Broadcast(Head(eventQ), Consumer)
           /\ UNCHANGED telemetryQ
  <2>1. Head(eventQ).type # "ROBOT_STATUS"
    <3>1. Head(eventQ) \in Event
      BY <1>2, Tailed DEF TypeInv, QueueType
    <3> QED
      BY <3>1 DEF Event
  <2>2. UNCHANGED << passed, missed >>
    BY <1>2 DEF Consume
  <2>3. AllCurrent => AllCurrent'
    BY <1>1, <1>2, <2>1, <2>2, OtherCast
  <2> QED
    BY <1>1, <1>2, <2>2, <2>3 DEF WillArrive, LastStatusIs, OlderOnly, Statuses
<1>3. CASE /\ eventQ = << >> /\ telemetryQ # << >>
           /\ telemetryQ' = Tail(telemetryQ)
           /\ Broadcast(Head(telemetryQ), Consumer)
  <2> DEFINE m == Head(telemetryQ)
  <2>0. telemetryQ \in Seq(Fresh)
    BY DEF TypeInv, QueueType
  <2>1. /\ Statuses(telemetryQ) = {} => /\ Statuses(telemetryQ') = {}
                                        /\ m.type # "ROBOT_STATUS"
        /\ Statuses(telemetryQ) # {} /\ Statuses(telemetryQ') = {} =>
             /\ m.type = "ROBOT_STATUS"
             /\ LastStatusIs(telemetryQ, told) => m.v = told
        /\ Statuses(telemetryQ') # {} =>
             (LastStatusIs(telemetryQ, told) => LastStatusIs(telemetryQ', told'))
    BY <1>1, <1>3, <2>0, LastTailed
  <2>2. OlderOnly(telemetryQ, told) =>
          /\ OlderOnly(telemetryQ', told')
          /\ m.type = "ROBOT_STATUS" => m.v < told
    BY <1>1, <1>3, <2>0, OlderTailed
  <2>3. /\ m.type = "ROBOT_STATUS" =>
             /\ passed' = (StatusUnderWay \/ m.v # told)
             /\ missed' = Clients \ Targets(m)
        /\ m.type # "ROBOT_STATUS" => UNCHANGED << passed, missed >>
    BY <1>3 DEF Consume
  <2>4. OlderOnly(telemetryQ, told) /\ passed => passed'
    <3>1. told \in Nat
      BY BoundAssumption DEF TypeInv, CountType
    <3>2. m.type = "ROBOT_STATUS" => m.v \in Nat
      <4>1. m \in Fresh
        BY <1>3, <2>0
      <4> QED
        BY <4>1, BoundAssumption DEF Fresh, Telemetry
    <3>3. OlderOnly(telemetryQ, told) /\ m.type = "ROBOT_STATUS" => m.v # told
      BY <2>2, <3>1, <3>2
    <3> QED
      BY <2>3, <3>3, Zenon
  <2>5. CASE Statuses(telemetryQ') # {}
    <3>1. Statuses(telemetryQ) # {}
      BY <2>1, <2>5
    <3> QED
      BY <2>1, <2>2, <2>4, <2>5, <3>1 DEF WillArrive
  <2>6. CASE Statuses(telemetryQ) = {}
    <3>1. m.type # "ROBOT_STATUS" /\ Statuses(telemetryQ') = {}
      BY <2>1, <2>6
    <3>2. UNCHANGED << passed, missed >>
      BY <2>3, <3>1
    <3>3. AllCurrent => AllCurrent'
      BY <1>1, <1>3, <3>1, <3>2, OtherCast
    <3> QED
      BY <2>6, <3>1, <3>2, <3>3 DEF WillArrive
  <2>7. CASE Statuses(telemetryQ) # {} /\ Statuses(telemetryQ') = {}
    <3>1. m.type = "ROBOT_STATUS"
      BY <2>1, <2>7
    <3>2. CASE passed'
      BY <2>7, <3>2 DEF WillArrive
    <3>3. CASE ~ passed'
      <4>1. m.v = told' /\ ~ StatusUnderWay /\ missed' = Clients \ Targets(m)
        BY <1>1, <2>3, <3>1, <3>3
      <4>2. AllCurrent'
        BY <1>3, <3>1, <4>1, StatusCast
      <4> QED
        BY <2>7, <4>2, CurrentArrives
    <3> QED
      BY <3>2, <3>3
  <2> QED
    BY <2>5, <2>6, <2>7
<1> QED
  BY <1>2, <1>3 DEF Consume, ConsumerTake

\* The target that is sent the state shows it, or leaves the table.
LEMMA SendArrives ==
  ASSUME TypeInv, WillArrive, NEW c \in Clients, Send(c)
  PROVE  WillArrive'
<1>1. PICK k \in casts : Deliver(k, c)
  BY DEF Send
<1> DEFINE rest == [k EXCEPT !.to = @ \ {c}]
<1>2. /\ UNCHANGED << told, passed, missed, telemetryQ, alive >>
      /\ casts' = (casts \ {k}) \cup (IF rest.to = {} THEN {} ELSE {rest})
  BY <1>1 DEF Send, Rest, Deliver, announced
<1>3. k \in Cast /\ rest \in Cast /\ rest.to = k.to \ {c} /\ rest.msg = k.msg
  BY DEF TypeInv, CastType, Cast
<1> HIDE DEF rest
<1>n. told \in Nat
  BY BoundAssumption DEF TypeInv, CountType
<1>4. ASSUME AllCurrent PROVE AllCurrent'
  <2>1. \A x \in casts' : x.msg.type = "ROBOT_STATUS" => x.msg.v = told'
    BY <1>2, <1>3, <1>4 DEF AllCurrent
  <2>2. ASSUME NEW d \in Clients, Hears(d)'
        PROVE  told' <= view'[d] \/ OnItsWay(d)'
    <3>1. clients' \subseteq clients /\ (d = c => alive[c])
      BY <1>1, <1>2, <2>2 DEF Deliver, Hears
    <3>2. Hears(d)
      BY <1>2, <2>2, <3>1 DEF Hears
    <3>3. view \in [Clients -> 0 .. row]
      BY DEF TypeInv, ClientsType
    <3>4. CASE d # c
      <4>1. view'[d] = view[d]
        BY <1>1, <3>3, <3>4 DEF Deliver
      <4>2. OnItsWay(d) => OnItsWay(d)'
        BY <1>2, <1>3, <3>4 DEF OnItsWay
      <4> QED
        BY <1>2, <1>4, <3>2, <4>1, <4>2 DEF AllCurrent
    <3>5. CASE d = c
      <4>1. alive[c]
        BY <3>1, <3>5
      <4>2. CASE k.msg.type = "ROBOT_STATUS"
        <5>1. view'[c] = k.msg.v
          BY <1>1, <3>3, <4>1, <4>2 DEF Deliver
        <5>2. k.msg.v = told
          BY <1>4, <4>2 DEF AllCurrent
        <5> QED
          BY <1>n, <1>2, <3>5, <5>1, <5>2
      <4>3. CASE k.msg.type # "ROBOT_STATUS"
        <5>1. view' = view
          BY <1>1, <4>1, <4>3 DEF Deliver
        <5>2. OnItsWay(c) => OnItsWay(c)'
          BY <1>2, <4>3 DEF OnItsWay
        <5> QED
          BY <1>2, <1>4, <3>2, <3>5, <5>1, <5>2 DEF AllCurrent
      <4> QED
        BY <4>2, <4>3
    <3> QED
      BY <3>4, <3>5
  <2> QED
    BY <2>1, <2>2 DEF AllCurrent
<1> QED
  BY <1>2, <1>4 DEF WillArrive, LastStatusIs, OlderOnly, Statuses

\* Only a broken socket takes a client that listens out of the table, so a
\* subscription never lets one in that works.
Registered == \A c \in Clients : handler[c] = "listening" /\ alive[c] => c \in clients

LEMMA RegisteredInit == Init => Registered
BY DEF Init, HubInit, Registered

LEMMA RegisteredNext ==
  ASSUME TypeInv, Registered, [Next]_vars
  PROVE  Registered'
<1>1. CASE Produce \/ Consume \/ UNCHANGED vars
  <2>1. UNCHANGED << handler, alive, clients >>
    BY <1>1
    DEF Produce, RobotStatus, SafetyEvent, CommandAck, DetectionFrame,
        HandlerChangesRobot, HandlerGoesOn, Announce, Publish, PublishAsync,
        Consume, ConsumerTake, vars, hubVars
  <2> QED
    BY <2>1 DEF Registered
<1>2. ASSUME NEW c \in Clients, Send(c) PROVE Registered'
  <2>1. UNCHANGED << handler, alive >>
        /\ (clients' = clients \/ (~ alive[c] /\ clients' = clients \ {c}))
    BY <1>2 DEF Send, Deliver
  <2> QED
    BY <2>1 DEF Registered
<1>3. ASSUME NEW c \in Clients, Client(c) PROVE Registered'
  BY <1>3
  DEF Registered, TypeInv, ClientsType, Client, Connect, SendSnapshot, Show,
      Subscribe, SocketDies, HandlerEnds
<1> QED
  BY <1>1, <1>2, <1>3 DEF Next

\* A client comes in with a snapshot, whatever it subscribes to later.
LEMMA ClientArrives ==
  ASSUME TypeInv, Registered, WillArrive, NEW c \in Clients, Client(c)
  PROVE  WillArrive'
<1>0. /\ view \in [Clients -> 0 .. row]
      /\ alive \in [Clients -> BOOLEAN]
      /\ row \in Nat /\ told \in Nat /\ told <= row
  BY BoundAssumption DEF TypeInv, ClientsType, CountType
<1>1. UNCHANGED << telemetryQ, casts, told, passed >>
  BY DEF Client, Connect, SendSnapshot, Subscribe, SocketDies, HandlerEnds
<1>2. ASSUME NEW d \in Clients, Hears(d)'
      PROVE  told <= view'[d] \/ (Hears(d) /\ view'[d] = view[d])
  <2>h. d \in clients' /\ alive'[d] /\ d \notin missed'
    BY <1>2 DEF Hears
  <2>1. CASE Connect(c, row) /\ missed' = missed \ {c}
    <3>1. /\ clients' = clients \cup {c}
          /\ view' = [view EXCEPT ![c] = row]
          /\ alive' = alive
      BY <2>1 DEF Connect
    <3>2. d # c => Hears(d) /\ view'[d] = view[d]
      BY <1>0, <2>h, <2>1, <3>1 DEF Hears
    <3>3. d = c => view'[d] = row
      BY <1>0, <3>1
    <3> QED
      BY <1>0, <3>2, <3>3
  <2>2. CASE SendSnapshot(c, row) /\ missed' = missed \ {c}
    <3>1. /\ clients' \subseteq clients /\ alive' = alive
          /\ alive[c] => view' = [view EXCEPT ![c] = row]
          /\ ~ alive[c] => view' = view
      BY <2>2 DEF SendSnapshot, Show
    <3>2. d # c => Hears(d) /\ view'[d] = view[d]
      BY <1>0, <2>h, <2>2, <3>1 DEF Hears
    <3>3. d = c => view'[d] = row
      BY <1>0, <2>h, <3>1
    <3> QED
      BY <1>0, <3>2, <3>3
  <2>3. CASE /\ \E wanted \in Wishes : Subscribe(c, wanted)
             /\ UNCHANGED missed
    <3>1. PICK wanted \in Wishes : Subscribe(c, wanted)
      BY <2>3
    <3>2. c \in clients \/ ~ alive[c]
      BY <3>1 DEF Subscribe, Registered
    <3>3. alive' = alive /\ view' = view /\ clients' = clients \cup {c}
      BY <3>1 DEF Subscribe
    <3> QED
      BY <2>h, <2>3, <3>2, <3>3 DEF Hears
  <2>4. CASE (SocketDies(c) \/ HandlerEnds(c)) /\ UNCHANGED missed
    BY <1>0, <2>h, <2>4 DEF SocketDies, HandlerEnds, Hears
  <2> QED
    BY <2>1, <2>2, <2>3, <2>4 DEF Client
<1>3. AllCurrent => AllCurrent'
  BY <1>1, <1>2, ClientsCurrent
<1> QED
  BY <1>1, <1>3 DEF WillArrive, LastStatusIs, OlderOnly, Statuses

LEMMA ArrivesInit == Init => WillArrive
BY DEF Init, HubInit, WillArrive, Statuses, AllCurrent, Hears

LEMMA ArrivesNext ==
  ASSUME TypeInv, Registered, WillArrive, [Next]_vars
  PROVE  WillArrive'
<1>1. CASE UNCHANGED vars
  BY <1>1
  DEF vars, hubVars, announced, WillArrive, LastStatusIs, OlderOnly, Statuses,
      AllCurrent, Hears, OnItsWay
<1> QED
  BY <1>1, ProduceArrives, ConsumeArrives, SendArrives, ClientArrives DEF Next

\* When nothing is queued or being sent, a dashboard shows the newest state that
\* was announced, or a newer one, unless the last status that set out was not for
\* it or set out among others: telemetry dropped for newer telemetry
\* (connection_manager.py:136) and broadcasts past the queues (146) never leave a
\* dashboard behind for good, whatever the clients subscribe to and however often
\* handlers change the robot in silence.
THEOREM DashboardsCatchUp == Spec => []ShowsWhatWasTold
<1>1. TypeInv /\ WillArrive => ShowsWhatWasTold
  <2> SUFFICES ASSUME TypeInv, WillArrive, telemetryQ = << >>, casts = {},
                      ~ passed, NEW c \in clients \ missed, alive[c]
               PROVE  view[c] \in told .. row
    BY DEF ShowsWhatWasTold
  <2>1. Statuses(telemetryQ) = {}
    BY DEF Statuses
  <2>2. AllCurrent /\ c \in Clients
    BY <2>1 DEF WillArrive, TypeInv, ClientsType
  <2>3. told <= view[c]
    BY <2>2 DEF AllCurrent, Hears, OnItsWay
  <2>4. told \in Nat /\ row \in Nat /\ view[c] \in 0 .. row
    BY <2>2, BoundAssumption DEF TypeInv, ClientsType, CountType
  <2> QED
    BY <2>3, <2>4
<1>2. TypeInv /\ Registered /\ WillArrive /\ [Next]_vars => WillArrive'
  BY ArrivesNext
<1>3. TypeInv /\ Registered /\ [Next]_vars => Registered'
  BY RegisteredNext
<1> QED
  BY <1>1, <1>2, <1>3, ArrivesInit, RegisteredInit, TypeInvariance, PTL DEF Spec
=============================================================================
