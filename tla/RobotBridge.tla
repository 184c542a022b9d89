----------------------------- MODULE RobotBridge -----------------------------
(***************************************************************************)
(* The backend's end of the robot link: app/robot_bridge.py.  Commands go   *)
(* out on a topic and stay in flight until the robot's ACK is handled;      *)
(* frames of the robot pass from the ROS thread through a bounded queue to  *)
(* a consumer on the event loop.  Handlers declared "async def" publish on  *)
(* the event loop, where no ACK can be handled meanwhile; handlers declared *)
(* "def" publish from a pool thread.  The robot is the environment, and so  *)
(* is whoever reports a broken or renewed link: nothing in the repository   *)
(* but the tests calls on_disconnect and on_reconnect.                      *)
(***************************************************************************)
EXTENDS Naturals, Sequences, FiniteSets

CONSTANTS Commands,         \* command ids, each issued once
          PoolCommands,     \* those issued by a handler in a pool thread
          Robots, Target,   \* the robot of each command
          InboundSize,      \* INBOUND_QUEUE_SIZE
          CommandDepth      \* history depth of the command topic

ASSUME BridgeAssumption == /\ PoolCommands \subseteq Commands
                           /\ Target \in [Commands -> Robots]
                           /\ InboundSize \in Nat \ {0}
                           /\ CommandDepth \in Nat \ {0}

VARIABLES phase,            \* publish_command of a command: new, emitted, returned
          inflight,         \* session.inflight
          connected,        \* session.connected
          resend,           \* what on_reconnect has left to emit
          wire,             \* the topic /backend/<robot>/command
          inbound,          \* the queue of Ros2Bridge
          answered          \* commands of which an ACK was handled

vars == <<phase, inflight, connected, resend, wire, inbound, answered>>

FrameKinds == {"robot_state", "safety_event"}
Acks       == {[kind |-> "command_ack", robot |-> Target[c], cmd |-> c] : c \in Commands}
Frames     == Acks \cup [kind : FrameKinds, robot : Robots]

Init == /\ phase = [c \in Commands |-> "new"]
        /\ inflight = [r \in Robots |-> {}]
        /\ connected = [r \in Robots |-> FALSE]
        /\ resend = [r \in Robots |-> {}]
        /\ wire = [r \in Robots |-> <<>>]
        /\ inbound = <<>>
        /\ answered = {}

\* What keeps the last n: the full queue forgets its oldest element.
KeepLast(q, n, x) == Append(IF Len(q) >= n THEN Tail(q) ELSE q, x)

(***************************************************************************)
(* Commands.                                                                *)
(***************************************************************************)
\* _emit: the publisher may raise, which is logged and reported as undelivered.
Emit(c) == \/ wire' = [wire EXCEPT ![Target[c]] = KeepLast(@, CommandDepth, c)]
           \/ UNCHANGED wire

Register(c) == inflight' = [inflight EXCEPT ![Target[c]] = @ \cup {c}]

PublishOnLoop(c) ==
    /\ c \notin PoolCommands /\ phase[c] = "new"
    /\ Emit(c) /\ Register(c)
    /\ phase' = [phase EXCEPT ![c] = "returned"]
    /\ UNCHANGED <<connected, resend, inbound, answered>>

PublishInPool(c) ==
    /\ c \in PoolCommands /\ phase[c] = "new"
    /\ Emit(c)
    /\ phase' = [phase EXCEPT ![c] = "emitted"]
    /\ UNCHANGED <<inflight, connected, resend, inbound, answered>>

RegisterInPool(c) ==
    /\ phase[c] = "emitted"
    /\ Register(c)
    /\ phase' = [phase EXCEPT ![c] = "returned"]
    /\ UNCHANGED <<connected, resend, wire, inbound, answered>>

(***************************************************************************)
(* Connection.                                                              *)
(***************************************************************************)
\* Mutant: a broken link drops what is in flight.
BugDisconnectClears(r) ==
    /\ connected[r]
    /\ connected' = [connected EXCEPT ![r] = FALSE]
    /\ inflight' = [inflight EXCEPT ![r] = {}]
    /\ UNCHANGED <<phase, resend, wire, inbound, answered>>

\* on_disconnect keeps what is in flight.
OnDisconnect(r) ==
    /\ connected[r]
    /\ connected' = [connected EXCEPT ![r] = FALSE]
    /\ UNCHANGED <<phase, inflight, resend, wire, inbound, answered>>

\* on_reconnect copies the open commands under the lock and emits them after it.
OnReconnect(r) ==
    /\ resend[r] = {}
    /\ connected' = [connected EXCEPT ![r] = TRUE]
    /\ resend' = [resend EXCEPT ![r] = inflight[r]]
    /\ UNCHANGED <<phase, inflight, wire, inbound, answered>>

ResendNext(r) ==
    /\ \E c \in resend[r] : Emit(c) /\ resend' = [resend EXCEPT ![r] = @ \ {c}]
    /\ UNCHANGED <<phase, inflight, connected, inbound, answered>>

(***************************************************************************)
(* Frames.                                                                  *)
(***************************************************************************)
\* _produce and _enqueue: a full queue forgets its oldest frame, whatever it is.
Enqueue(f) == inbound' = KeepLast(inbound, InboundSize, f)

\* The robot reads a command and answers it, or loses it.
RobotReads(r) ==
    /\ wire[r] # <<>>
    /\ wire' = [wire EXCEPT ![r] = Tail(@)]
    /\ \/ \E f \in Acks : f.cmd = Head(wire[r]) /\ Enqueue(f)
       \/ UNCHANGED inbound
    /\ UNCHANGED <<phase, inflight, connected, resend, answered>>

FrameArrives(kind, r) ==
    /\ Enqueue([kind |-> kind, robot |-> r])
    /\ UNCHANGED <<phase, inflight, connected, resend, wire, answered>>

\* Mutant: the ACK of a robot that is marked disconnected does not close its command.
BugAckNeedsLink(f) ==
    /\ inflight' = IF connected[f.robot] THEN [inflight EXCEPT ![f.robot] = @ \ {f.cmd}] ELSE inflight
    /\ answered' = answered \cup {f.cmd}

\* on_command_ack closes the command, accepted or not, in the session of the
\* topic the ACK came on; an unknown id is passed on to the sink all the same.
OnCommandAck(f) ==
    /\ inflight' = [inflight EXCEPT ![f.robot] = @ \ {f.cmd}]
    /\ answered' = answered \cup {f.cmd}

\* _consume takes one frame; every frame marks its robot connected (_touch).
Consume ==
    /\ inbound # <<>>
    /\ LET f == Head(inbound)
       IN  /\ connected' = [connected EXCEPT ![f.robot] = TRUE]
           /\ IF f.kind = "command_ack" THEN OnCommandAck(f) ELSE UNCHANGED <<inflight, answered>>
    /\ inbound' = Tail(inbound)
    /\ UNCHANGED <<phase, resend, wire>>

Next == \/ \E c \in Commands : PublishOnLoop(c) \/ PublishInPool(c) \/ RegisterInPool(c)
        \/ \E r \in Robots : OnDisconnect(r) \/ OnReconnect(r) \/ ResendNext(r) \/ RobotReads(r)
        \/ \E kind \in FrameKinds, r \in Robots : FrameArrives(kind, r)
        \/ Consume

Spec == Init /\ [][Next]_vars

-----------------------------------------------------------------------------
\* Every variable holds what its declaration says, and no queue exceeds its size.
BridgeTypeOK ==
    /\ phase \in [Commands -> {"new", "emitted", "returned"}]
    /\ inflight \in [Robots -> SUBSET Commands]
    /\ connected \in [Robots -> BOOLEAN]
    /\ resend \in [Robots -> SUBSET Commands]
    /\ wire \in [Robots -> Seq(Commands)]
    /\ inbound \in Seq(Frames)
    /\ answered \in SUBSET Commands
    /\ Len(inbound) <= InboundSize
    /\ \A r \in Robots : Len(wire[r]) <= CommandDepth

\* A command whose ACK was not handled stays in flight (robot_bridge.py:223, so
\* that a reconnection sends it again): not when the link breaks, nor when the
\* full inbound queue forgets its ACK, nor when another command is answered.
NothingForgotten ==
    \A c \in Commands : phase[c] = "returned" /\ c \notin answered => c \in inflight[Target[c]]

\* A command published on the event loop is not in flight once an ACK of it was
\* handled, so that no later reconnection repeats what the robot confirmed
\* (robot_bridge.py:373).  One published from a pool thread may be.
AnsweredIsClosed == \A c \in answered \ PoolCommands : c \notin inflight[Target[c]]

=============================================================================
