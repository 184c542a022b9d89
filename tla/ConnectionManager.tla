-------------------------- MODULE ConnectionManager --------------------------
(***************************************************************************)
(* The backend's WebSocket hub: app/connection_manager.py and app/ws.py.    *)
(* Two bounded queues are filled by publish() and emptied by one consumer   *)
(* task; publish_async() bypasses them.  A broadcast computes its targets   *)
(* at once and then awaits one send after the other, so several broadcasts  *)
(* are under way at a time.  Nothing else in a coroutine suspends: the lock *)
(* of the table is never held over an await.                                *)
(***************************************************************************)
EXTENDS Naturals, Sequences, FiniteSets

CONSTANTS Clients,          \* WebSockets; one that reconnects is another one
          QueueSize,        \* settings.broadcast_queue_size
          EventQueueSize    \* settings.event_queue_size

ASSUME QueueAssumption == QueueSize \in Nat \ {0} /\ EventQueueSize \in Nat \ {0}

VARIABLES handler,          \* the coroutine monitor of a client: new, listening, ended
          alive,            \* whether its socket still works
          clients,          \* the keys of _clients
          topics,           \* the values of _clients
          telemetryQ, eventQ,
          casts,            \* broadcasts under way: message, targets left, coroutine
          view,             \* the version of the robot's row a client shows
          got,              \* the alerts a client has shown
          due               \* the alerts queued while a client was connected

hubVars == <<handler, alive, clients, topics, telemetryQ, eventQ, casts, view, got, due>>

Topics == {"ROBOT_STATUS", "MISSION_STATUS", "DETECTION", "LOG"}
TopicOf(type) == type       \* TYPE_TO_TOPIC, of the types modelled

Consumer == 0               \* the coroutine of consumer_loop; a request's has a number

Droppable == {"ROBOT_STATUS", "DETECTION"}
AlwaysDeliver == {"SYSTEM_ALERT"}

Alert(n)  == [type |-> "SYSTEM_ALERT", v |-> n]
Status(n) == [type |-> "ROBOT_STATUS", v |-> n]
Mission   == [type |-> "MISSION_STATUS", v |-> 0]
Log       == [type |-> "LOG", v |-> 0]
Detection == [type |-> "DETECTION", v |-> 0]

HubInit == /\ handler = [c \in Clients |-> "new"]
           /\ alive = [c \in Clients |-> TRUE]
           /\ clients = {}
           /\ topics = [c \in Clients |-> {}]
           /\ telemetryQ = <<>> /\ eventQ = <<>> /\ casts = {}
           /\ view = [c \in Clients |-> 0]
           /\ got = [c \in Clients |-> {}]
           /\ due = [c \in Clients |-> {}]

(***************************************************************************)
(* Sending.                                                                 *)
(***************************************************************************)
\* Mutant: only subscribers are sent an alert.
BugSubscribersOnly(m) == {c \in clients : TopicOf(m.type) \in topics[c]}

Targets(m) == {c \in clients : m.type \in AlwaysDeliver \/ TopicOf(m.type) \in topics[c]}

\* Mutants: a full telemetry queue refuses the new frame; the event queue grows.
BugKeepsOldest(q, m) == IF Len(q) = QueueSize THEN q ELSE Append(q, m)
BugEventsGrow(q, m) == Append(q, m)

\* What a full queue does: the telemetry queue forgets its oldest frame, the
\* event queue refuses the new message, of which only the log knows.
KeepNewest(q, m) == Append(IF Len(q) = QueueSize THEN Tail(q) ELSE q, m)
KeepAll(q, m)    == IF Len(q) < EventQueueSize THEN Append(q, m) ELSE q

\* publish: from code that runs on the event loop without awaiting.
Publish(m) ==
    /\ IF m.type \in Droppable
          THEN telemetryQ' = KeepNewest(telemetryQ, m) /\ UNCHANGED eventQ
          ELSE eventQ' = KeepAll(eventQ, m) /\ UNCHANGED telemetryQ
    /\ due' = IF m.type \in AlwaysDeliver /\ Len(eventQ) < EventQueueSize
                 THEN [c \in Clients |-> due[c] \cup IF c \in clients THEN {m} ELSE {}]
                 ELSE due
    /\ UNCHANGED <<handler, alive, clients, topics, casts, view, got>>

Broadcast(m, by) ==
    casts' = casts \cup (IF Targets(m) = {} THEN {} ELSE {[msg |-> m, to |-> Targets(m), by |-> by]})

\* A coroutine broadcasts one message after the other.
Quiet(by) == \A k \in casts : k.by # by

\* publish_async: from the coroutine of a request, past both queues.
PublishAsync(m, by) ==
    /\ Quiet(by)
    /\ Broadcast(m, by)
    /\ UNCHANGED <<handler, alive, clients, topics, telemetryQ, eventQ, view, got, due>>

\* consumer_loop: events before telemetry.
ConsumerTake ==
    /\ Quiet(Consumer)
    /\ \/ /\ eventQ # <<>>
          /\ eventQ' = Tail(eventQ)
          /\ Broadcast(Head(eventQ), Consumer)
          /\ UNCHANGED telemetryQ
       \/ /\ eventQ = <<>> /\ telemetryQ # <<>>
          /\ telemetryQ' = Tail(telemetryQ)
          /\ Broadcast(Head(telemetryQ), Consumer)
          /\ UNCHANGED eventQ
    /\ UNCHANGED <<handler, alive, clients, topics, view, got, due>>

\* send_to: one target of one broadcast; a send that fails unregisters the client.
Deliver(k, c) ==
    LET rest == [k EXCEPT !.to = @ \ {c}]
    IN  /\ k \in casts /\ c \in k.to
        /\ casts' = (casts \ {k}) \cup (IF rest.to = {} THEN {} ELSE {rest})
        /\ IF alive[c]
              THEN /\ view' = IF k.msg.type = "ROBOT_STATUS" THEN [view EXCEPT ![c] = k.msg.v] ELSE view
                   /\ got' = IF k.msg.type = "SYSTEM_ALERT" THEN [got EXCEPT ![c] = @ \cup {k.msg}] ELSE got
                   /\ UNCHANGED clients
              ELSE clients' = clients \ {c} /\ UNCHANGED <<view, got>>
        /\ UNCHANGED <<handler, alive, topics, telemetryQ, eventQ, due>>

(***************************************************************************)
(* The life of a connection.                                                *)
(***************************************************************************)
Show(c, row) == IF alive[c] THEN view' = [view EXCEPT ![c] = row] /\ UNCHANGED clients
                            ELSE clients' = clients \ {c} /\ UNCHANGED view

\* A new client hears every topic, and is sent a SNAPSHOT before anything else.
Connect(c, row) ==
    /\ handler[c] = "new" /\ alive[c]
    /\ handler' = [handler EXCEPT ![c] = "listening"]
    /\ clients' = clients \cup {c}
    /\ topics' = [topics EXCEPT ![c] = Topics]
    /\ view' = [view EXCEPT ![c] = row]
    /\ UNCHANGED <<alive, telemetryQ, eventQ, casts, got, due>>

\* A snapshot it asks for later; a request received before may be handled
\* after the socket broke.
SendSnapshot(c, row) ==
    /\ handler[c] = "listening"
    /\ Show(c, row)
    /\ UNCHANGED <<handler, alive, topics, telemetryQ, eventQ, casts, got, due>>

\* A subscribe request may be handled after a failed send unregistered the client:
\* it is entered again.
Subscribe(c, wanted) ==
    /\ handler[c] = "listening"
    /\ clients' = clients \cup {c}
    /\ topics' = [topics EXCEPT ![c] = wanted \cap Topics]
    /\ UNCHANGED <<handler, alive, telemetryQ, eventQ, casts, view, got, due>>

SocketDies(c) ==
    /\ handler[c] = "listening" /\ alive[c]
    /\ alive' = [alive EXCEPT ![c] = FALSE]
    /\ UNCHANGED <<handler, clients, topics, telemetryQ, eventQ, casts, view, got, due>>

\* Mutant: the handler ends without disconnect.
BugEndsWithoutDisconnect(c) ==
    /\ handler[c] = "listening" /\ ~alive[c]
    /\ handler' = [handler EXCEPT ![c] = "ended"]
    /\ UNCHANGED <<clients, alive, topics, telemetryQ, eventQ, casts, view, got, due>>

\* receive_text raises, the finally clause runs.
HandlerEnds(c) ==
    /\ handler[c] = "listening" /\ ~alive[c]
    /\ handler' = [handler EXCEPT ![c] = "ended"]
    /\ clients' = clients \ {c}
    /\ UNCHANGED <<alive, topics, telemetryQ, eventQ, casts, view, got, due>>
=============================================================================
