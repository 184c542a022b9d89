-------------------------- MODULE RobotBridge_proofs --------------------------
(***************************************************************************)
(* Proofs about RobotBridge, for any commands, robots and queue sizes: what *)
(* was not answered stays in flight, and what was answered does not, unless *)
(* it was published from a pool thread.                                     *)
(***************************************************************************)
EXTENDS RobotBridge, TLAPS

\* Commands that left publish_command's first step, and the frames that answer them.
Issued       == {c \in Commands : phase[c] # "new"}
IssuedFrames == {f \in Frames : f.kind = "command_ack" => f.cmd \in Issued}

\* Nobody knows of a command that was not issued, and only a pool thread lets go of
\* one between sending and registering it.
OnlyIssued ==
    /\ \A r \in Robots : /\ inflight[r] \subseteq Issued
                         /\ resend[r] \subseteq Issued
                         /\ wire[r] \in Seq(Issued)
    /\ inbound \in Seq(IssuedFrames)
    /\ answered \subseteq Issued
    /\ \A c \in Commands : phase[c] = "emitted" => c \in PoolCommands

BridgeInv == BridgeTypeOK /\ OnlyIssued /\ NothingForgotten /\ AnsweredIsClosed

-----------------------------------------------------------------------------
\* A queue that keeps its last n elements keeps its type and its size.
LEMMA KeepLastFacts ==
  ASSUME NEW S, NEW q \in Seq(S), NEW x \in S, NEW n \in Nat \ {0}, Len(q) <= n
  PROVE  KeepLast(q, n, x) \in Seq(S) /\ Len(KeepLast(q, n, x)) <= n
<1>1. CASE Len(q) >= n
  <2>1. q # << >> /\ Tail(q) \in Seq(S) /\ Len(Tail(q)) = n - 1
    BY <1>1
  <2> QED
    BY <1>1, <2>1 DEF KeepLast
<1>2. CASE ~ (Len(q) >= n)
  BY <1>2 DEF KeepLast
<1> QED
  BY <1>1, <1>2

LEMMA SeqGrows ==
  ASSUME NEW S, NEW T, S \subseteq T, NEW q \in Seq(S)
  PROVE  q \in Seq(T)
OBVIOUS

\* A frame that answers is the ACK of one command by the robot it was sent to.
LEMMA AckFacts ==
  ASSUME NEW f \in Frames, f.kind = "command_ack"
  PROVE  f.cmd \in Commands /\ f.robot = Target[f.cmd] /\ f.robot \in Robots
BY BridgeAssumption DEF Frames, Acks, FrameKinds

LEMMA FrameRobot == \A f \in Frames : f.robot \in Robots
BY BridgeAssumption DEF Frames, Acks, FrameKinds

\* Steps only issue commands, never take one back.
LEMMA IssuedGrows ==
  ASSUME BridgeTypeOK, \A c \in Commands : phase[c] # "new" => phase'[c] # "new"
  PROVE  Issued \subseteq Issued' /\ IssuedFrames \subseteq IssuedFrames'
BY DEF Issued, IssuedFrames

-----------------------------------------------------------------------------
LEMMA BridgeInit == Init => BridgeInv
BY BridgeAssumption DEF Init, BridgeInv, BridgeTypeOK, OnlyIssued, Issued, IssuedFrames,
                        NothingForgotten, AnsweredIsClosed

\* Sending a command, the first time or again, keeps the topic in order.
LEMMA EmitKeeps ==
  ASSUME BridgeTypeOK, OnlyIssued, NEW c \in Issued', Emit(c), Issued \subseteq Issued'
  PROVE  /\ wire' \in [Robots -> Seq(Commands)]
         /\ \A r \in Robots : wire'[r] \in Seq(Issued') /\ Len(wire'[r]) <= CommandDepth
<1> USE BridgeAssumption
<1>1. c \in Commands /\ Target[c] \in Robots
  BY DEF Issued
<1>2. \A r \in Robots : wire[r] \in Seq(Issued')
  BY SeqGrows DEF OnlyIssued
<1>3. CASE UNCHANGED wire
  BY <1>2, <1>3 DEF BridgeTypeOK
<1>4. CASE wire' = [wire EXCEPT ![Target[c]] = KeepLast(@, CommandDepth, c)]
  <2> DEFINE q == KeepLast(wire[Target[c]], CommandDepth, c)
  <2>1. q \in Seq(Issued') /\ Len(q) <= CommandDepth
    BY <1>1, <1>2, KeepLastFacts DEF BridgeTypeOK
  <2>2. q \in Seq(Commands)
    BY <1>1, KeepLastFacts DEF BridgeTypeOK
  <2>3. wire' = [wire EXCEPT ![Target[c]] = q]
    BY <1>4
  <2> HIDE DEF q
  <2> QED
    BY <1>1, <1>2, <2>1, <2>2, <2>3 DEF BridgeTypeOK
<1> QED
  BY <1>3, <1>4 DEF Emit

LEMMA BridgeNext == BridgeInv /\ [Next]_vars => BridgeInv'
<1> SUFFICES ASSUME BridgeInv, [Next]_vars PROVE BridgeInv'
  OBVIOUS
<1> USE BridgeAssumption DEF BridgeInv
<1>1. ASSUME NEW c \in Commands, PublishOnLoop(c) PROVE BridgeInv'
  <2>1. c \in Issued' /\ c \notin Issued /\ Target[c] \in Robots
    BY <1>1 DEF PublishOnLoop, Issued, BridgeTypeOK
  <2>2. Issued \subseteq Issued' /\ IssuedFrames \subseteq IssuedFrames'
    BY <1>1, IssuedGrows DEF PublishOnLoop, BridgeTypeOK
  <2>3. /\ wire' \in [Robots -> Seq(Commands)]
        /\ \A r \in Robots : wire'[r] \in Seq(Issued') /\ Len(wire'[r]) <= CommandDepth
    BY <1>1, <2>1, <2>2, EmitKeeps DEF PublishOnLoop
  <2>4. inbound' \in Seq(IssuedFrames')
    BY <1>1, <2>2, SeqGrows DEF PublishOnLoop, OnlyIssued
  <2>5. BridgeTypeOK'
    BY <1>1, <2>1, <2>3 DEF PublishOnLoop, Register, BridgeTypeOK
  <2>6. OnlyIssued'
    BY <1>1, <2>1, <2>2, <2>3, <2>4 DEF PublishOnLoop, Register, BridgeTypeOK, OnlyIssued
  <2>7. NothingForgotten'
    BY <1>1, <2>1 DEF PublishOnLoop, Register, BridgeTypeOK, NothingForgotten
  <2>8. AnsweredIsClosed'
    BY <1>1, <2>1 DEF PublishOnLoop, Register, BridgeTypeOK, OnlyIssued, AnsweredIsClosed
  <2> QED
    BY <2>5, <2>6, <2>7, <2>8
<1>2. ASSUME NEW c \in Commands, PublishInPool(c) PROVE BridgeInv'
  <2>1. c \in Issued'
    BY <1>2 DEF PublishInPool, Issued, BridgeTypeOK
  <2>2. Issued \subseteq Issued' /\ IssuedFrames \subseteq IssuedFrames'
    BY <1>2, IssuedGrows DEF PublishInPool, BridgeTypeOK
  <2>3. /\ wire' \in [Robots -> Seq(Commands)]
        /\ \A r \in Robots : wire'[r] \in Seq(Issued') /\ Len(wire'[r]) <= CommandDepth
    BY <1>2, <2>1, <2>2, EmitKeeps DEF PublishInPool
  <2>4. inbound' \in Seq(IssuedFrames')
    BY <1>2, <2>2, SeqGrows DEF PublishInPool, OnlyIssued
  <2>5. BridgeTypeOK'
    BY <1>2, <2>3 DEF PublishInPool, BridgeTypeOK
  <2>6. OnlyIssued'
    BY <1>2, <2>1, <2>2, <2>3, <2>4 DEF PublishInPool, BridgeTypeOK, OnlyIssued
  <2>7. NothingForgotten' /\ AnsweredIsClosed'
    BY <1>2 DEF PublishInPool, BridgeTypeOK, NothingForgotten, AnsweredIsClosed
  <2> QED
    BY <2>5, <2>6, <2>7
<1>3. ASSUME NEW c \in Commands, RegisterInPool(c) PROVE BridgeInv'
  <2>1. c \in Issued /\ c \in PoolCommands /\ Target[c] \in Robots
    BY <1>3 DEF RegisterInPool, Issued, BridgeTypeOK, OnlyIssued
  <2>2. Issued' = Issued /\ IssuedFrames' = IssuedFrames
    BY <1>3 DEF RegisterInPool, Issued, IssuedFrames, BridgeTypeOK
  <2>3. BridgeTypeOK'
    BY <1>3, <2>1 DEF RegisterInPool, Register, BridgeTypeOK
  <2>4. OnlyIssued'
    BY <1>3, <2>1, <2>2 DEF RegisterInPool, Register, BridgeTypeOK, OnlyIssued
  <2>5. NothingForgotten' /\ AnsweredIsClosed'
    BY <1>3, <2>1 DEF RegisterInPool, Register, BridgeTypeOK, NothingForgotten, AnsweredIsClosed
  <2> QED
    BY <2>3, <2>4, <2>5
<1>4. ASSUME NEW r \in Robots, OnDisconnect(r) \/ OnReconnect(r) PROVE BridgeInv'
  <2>1. Issued' = Issued /\ IssuedFrames' = IssuedFrames
    BY <1>4 DEF OnDisconnect, OnReconnect, Issued, IssuedFrames
  <2>2. UNCHANGED <<phase, inflight, wire, inbound, answered>>
    BY <1>4 DEF OnDisconnect, OnReconnect
  <2>3. connected' \in [Robots -> BOOLEAN]
    BY <1>4 DEF OnDisconnect, OnReconnect, BridgeTypeOK
  <2>4. \A q \in Robots : inflight[q] \subseteq Commands /\ inflight[q] \subseteq Issued
    BY DEF BridgeTypeOK, OnlyIssued
  <2>5. resend' \in [Robots -> SUBSET Commands] /\ \A q \in Robots : resend'[q] \subseteq Issued
    BY <1>4, <2>4 DEF OnDisconnect, OnReconnect, BridgeTypeOK, OnlyIssued
  <2> QED
    BY <2>1, <2>2, <2>3, <2>5 DEF BridgeTypeOK, OnlyIssued, NothingForgotten, AnsweredIsClosed
<1>5. ASSUME NEW r \in Robots, ResendNext(r) PROVE BridgeInv'
  <2>1. Issued' = Issued /\ IssuedFrames' = IssuedFrames
    BY <1>5 DEF ResendNext, Issued, IssuedFrames
  <2>2. PICK c \in resend[r] : Emit(c) /\ resend' = [resend EXCEPT ![r] = @ \ {c}]
    BY <1>5 DEF ResendNext
  <2>3. c \in Issued'
    BY <2>1 DEF OnlyIssued
  <2>4. /\ wire' \in [Robots -> Seq(Commands)]
        /\ \A q \in Robots : wire'[q] \in Seq(Issued') /\ Len(wire'[q]) <= CommandDepth
    BY <2>1, <2>2, <2>3, EmitKeeps
  <2> QED
    BY <1>5, <2>1, <2>2, <2>4 DEF ResendNext, BridgeTypeOK, OnlyIssued, NothingForgotten, AnsweredIsClosed
<1>6. ASSUME NEW r \in Robots, RobotReads(r) PROVE BridgeInv'
  <2>1. Issued' = Issued /\ IssuedFrames' = IssuedFrames
    BY <1>6 DEF RobotReads, Issued, IssuedFrames
  <2>2. Head(wire[r]) \in Issued /\ Tail(wire[r]) \in Seq(Issued) /\ Tail(wire[r]) \in Seq(Commands)
        /\ Len(Tail(wire[r])) <= CommandDepth
    BY <1>6 DEF RobotReads, BridgeTypeOK, OnlyIssued
  <2>3. inbound' \in Seq(IssuedFrames) /\ inbound' \in Seq(Frames) /\ Len(inbound') <= InboundSize
    <3>1. CASE UNCHANGED inbound
      BY <3>1 DEF BridgeTypeOK, OnlyIssued
    <3>2. ASSUME NEW f \in Acks, f.cmd = Head(wire[r]), Enqueue(f)
          PROVE  inbound' \in Seq(IssuedFrames) /\ inbound' \in Seq(Frames) /\ Len(inbound') <= InboundSize
      <4>1. f \in IssuedFrames /\ f \in Frames
        BY <2>2, <3>2 DEF IssuedFrames, Frames
      <4> QED
        BY <3>2, <4>1, KeepLastFacts DEF Enqueue, BridgeTypeOK, OnlyIssued
    <3> QED
      BY <1>6, <3>1, <3>2 DEF RobotReads
  <2> QED
    BY <1>6, <2>1, <2>2, <2>3 DEF RobotReads, BridgeTypeOK, OnlyIssued, NothingForgotten, AnsweredIsClosed
<1>7. ASSUME NEW kind \in FrameKinds, NEW r \in Robots, FrameArrives(kind, r) PROVE BridgeInv'
  <2> DEFINE f == [kind |-> kind, robot |-> r]
  <2>1. Issued' = Issued /\ IssuedFrames' = IssuedFrames
    BY <1>7 DEF FrameArrives, Issued, IssuedFrames
  <2>2. f \in Frames /\ f \in IssuedFrames
    BY DEF Frames, IssuedFrames, FrameKinds
  <2>3. inbound' \in Seq(IssuedFrames) /\ inbound' \in Seq(Frames) /\ Len(inbound') <= InboundSize
    BY <1>7, <2>2, KeepLastFacts DEF FrameArrives, Enqueue, BridgeTypeOK, OnlyIssued
  <2> QED
    BY <1>7, <2>1, <2>3 DEF FrameArrives, BridgeTypeOK, OnlyIssued, NothingForgotten, AnsweredIsClosed
<1>8. ASSUME Consume PROVE BridgeInv'
  <2> DEFINE f == Head(inbound)
  <2>1. Issued' = Issued /\ IssuedFrames' = IssuedFrames
    BY <1>8 DEF Consume, Issued, IssuedFrames
  <2>2. f \in Frames /\ f \in IssuedFrames /\ f.robot \in Robots
    BY <1>8, FrameRobot DEF Consume, BridgeTypeOK, OnlyIssued
  <2>3. Tail(inbound) \in Seq(Frames) /\ Tail(inbound) \in Seq(IssuedFrames)
        /\ Len(Tail(inbound)) <= InboundSize
    BY <1>8 DEF Consume, BridgeTypeOK, OnlyIssued
  <2>4. CASE f.kind # "command_ack"
    BY <1>8, <2>1, <2>2, <2>3, <2>4
       DEF Consume, BridgeTypeOK, OnlyIssued, NothingForgotten, AnsweredIsClosed
  <2>5. CASE f.kind = "command_ack"
    <3>1. f.cmd \in Commands /\ f.cmd \in Issued /\ f.robot = Target[f.cmd]
      BY <2>2, <2>5, AckFacts DEF IssuedFrames
    <3>2. /\ inflight' = [inflight EXCEPT ![f.robot] = @ \ {f.cmd}]
          /\ answered' = answered \cup {f.cmd}
          /\ connected' = [connected EXCEPT ![f.robot] = TRUE]
          /\ inbound' = Tail(inbound)
          /\ UNCHANGED <<phase, resend, wire>>
      BY <1>8, <2>5 DEF Consume, OnCommandAck
    <3> HIDE DEF f
    <3>3. BridgeTypeOK'
      BY <2>2, <2>3, <3>1, <3>2 DEF BridgeTypeOK
    <3>4. OnlyIssued'
      BY <2>1, <2>2, <2>3, <3>1, <3>2 DEF BridgeTypeOK, OnlyIssued
    <3>5. NothingForgotten'
      BY <2>2, <3>1, <3>2 DEF BridgeTypeOK, NothingForgotten
    <3>6. AnsweredIsClosed'
      BY <2>2, <3>1, <3>2 DEF BridgeTypeOK, AnsweredIsClosed
    <3> QED
      BY <3>3, <3>4, <3>5, <3>6
  <2> QED
    BY <2>4, <2>5
<1>9. CASE UNCHANGED vars
  BY <1>9 DEF vars, BridgeTypeOK, OnlyIssued, Issued, IssuedFrames, NothingForgotten, AnsweredIsClosed
<1> QED
  BY <1>1, <1>2, <1>3, <1>4, <1>5, <1>6, <1>7, <1>8, <1>9 DEF Next

\* The rows, sets and queues of the robot link keep their types and their sizes,
\* whatever the robot and the operator do (robot_bridge.py:159, :535).
THEOREM BridgeTypeCorrect == Spec => []BridgeTypeOK
<1>1. BridgeInv => BridgeTypeOK
  BY DEF BridgeInv
<1> QED
  BY <1>1, BridgeInit, BridgeNext, PTL DEF Spec

\* A command is in flight from its publication to its ACK (robot_bridge.py:223),
\* for any commands and robots, queues of any size, and links that break at any time.
THEOREM ForgetsNothing == Spec => []NothingForgotten
<1>1. BridgeInv => NothingForgotten
  BY DEF BridgeInv
<1> QED
  BY <1>1, BridgeInit, BridgeNext, PTL DEF Spec

\* A command published on the event loop is not in flight after its ACK
\* (robot_bridge.py:373), also when its robot answers it twice.
THEOREM AnsweredStaysClosed == Spec => []AnsweredIsClosed
<1>1. BridgeInv => AnsweredIsClosed
  BY DEF BridgeInv
<1> QED
  BY <1>1, BridgeInit, BridgeNext, PTL DEF Spec
=============================================================================
