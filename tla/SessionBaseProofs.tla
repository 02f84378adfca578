-------------------------- MODULE SessionBaseProofs --------------------------
(***************************************************************************)
(* The poll loop of a session, for every stream of messages, every size of *)
(* the buffer and of the queue: it adds nothing to the read path, and it   *)
(* is left only when everything queued by then is sent, or everything sent *)
(* by the peer is read.                                                    *)
(***************************************************************************)
EXTENDS Integers, SessionBase, ReceiveBufferProofs

\* The messages accepted are those sent and those queued, in order.
QueuedInOrder ==
  /\ Len(sent) + Len(sendingQueue) = accepted
  /\ \A i \in 1..Len(sent) : sent[i] = i
  /\ \A i \in 1..Len(sendingQueue) : sendingQueue[i] = Len(sent) + i

\* What an error is worth: readData() fails at the end of the stream only, and
\* a hang-up is followed by a read, which forgets it.
FailuresAreEnds ==
  /\ reset => peerClosed
  /\ failure = "read" => peerClosed /\ Available = 0
  /\ failure = "poll" /\ interrupts = 0 => step = "read"

\* The stream is given up by the loop's end only.
EndsOverLoop == ended => step \in {"over", "gone"}

LoopInv ==
  /\ IInv
  /\ LoopTypeOK
  /\ QueuedInOrder
  /\ FailuresAreEnds
  /\ EndsOverLoop

-----------------------------------------------------------------------------
(* The read path within the loop.                                          *)

\* A read leaves the session in its loop, and the stream where it is.
LEMMA ReadKeepsGoing ==
  ASSUME IInv, ReadData
  PROVE  ended' = FALSE
<1>1. PICK k \in 1..MaxMessageSize :
         /\ k <= Room
         /\ k <= Available
         /\ IF bufferOffset + k < HeaderSize
            THEN UNCHANGED <<delivered, ended>>
            ELSE ParseMessage(Filled(k), bufferOffset + k)
  BY DEF ReadData
<1>2. ~ended /\ ended \in BOOLEAN
  BY DEF ReadData, IInv, TypeOK
<1>3. CASE bufferOffset + k < HeaderSize
  BY <1>1, <1>2, <1>3
<1>4. CASE ~(bufferOffset + k < HeaderSize)
  <2>1. bufferOffset + k >= HeaderSize
    BY <1>4, StreamAssumption DEF IInv, TypeOK
  <2>2. UNCHANGED ended
    BY <1>1, <1>4, <2>1, ParsesNextMessage
  <2> QED BY <1>2, <2>2
<1> QED BY <1>3, <1>4

\* At the end of the stream there is nothing to read.
LEMMA NothingToRead ==
  ASSUME IInv, Available = 0
  PROVE  ~ReadData
<1>1. \A k \in 1..MaxMessageSize : ~(k <= Available)
  OBVIOUS
<1> QED
  BY <1>1 DEF ReadData

\* A step of the loop is a step of the read path, or none.
LEMMA StepOfReading ==
  ASSUME LoopInv, [LoopNext]_sessionVars
  PROVE  [Next]_vars
<1>1. CASE PeerSends \/ PeerLeaves \/ ReadsSome
  BY <1>1 DEF PeerSends, PeerLeaves, ReadsSome, Next
<1>2. CASE LeaveLoop
  <2>1. ended = FALSE
    BY <1>2 DEF LeaveLoop, LoopInv, EndsOverLoop, IInv, TypeOK
  <2>2. CASE failure = "read"
    BY <1>2, <2>1, <2>2
    DEF LeaveLoop, LoopInv, FailuresAreEnds, ReadNothing, Readable, Next
  <2>3. CASE failure # "read"
    BY <1>2, <2>1, <2>3 DEF LeaveLoop, vars
  <2> QED BY <2>2, <2>3
<1>3. CASE ~(PeerSends \/ PeerLeaves \/ ReadsSome \/ LeaveLoop)
  BY <1>3
  DEF LoopNext, LoopStep, SendMessage, Disconnect, LoopTest, Poll, PollTimesOut,
      PollInterrupted, ReadsEnd, WriteData, Decide, EndSession, sessionVars
<1> QED BY <1>1, <1>2, <1>3

-----------------------------------------------------------------------------
(* The invariant.                                                          *)

LEMMA LoopInitInv == LoopInit => LoopInv
<1> SUFFICES ASSUME LoopInit PROVE LoopInv
  OBVIOUS
<1>1. IInv
  BY InitInv DEF LoopInit
<1>2. LoopTypeOK
  <2>1. sendingQueue \in Seq(1..MaxAccepted) /\ sent \in Seq(1..MaxAccepted)
    BY DEF LoopInit
  <2>2. accepted \in 0..MaxAccepted /\ interrupts \in 0..MaxInterrupts
    BY LoopAssumption DEF LoopInit
  <2> QED BY <1>1, <2>1, <2>2, Zenon DEF LoopInit, LoopTypeOK, IInv
<1>3. QueuedInOrder /\ FailuresAreEnds /\ EndsOverLoop
  BY DEF LoopInit, Init, QueuedInOrder, FailuresAreEnds, EndsOverLoop
<1> QED BY <1>1, <1>2, <1>3 DEF LoopInv

LEMMA LoopTypeInv ==
  ASSUME LoopInv, [LoopNext]_sessionVars
  PROVE  LoopTypeOK'
<1> USE LoopAssumption DEF LoopInv, LoopTypeOK
<1>1. TypeOK'
  BY StepOfReading, NextInv DEF IInv
<1>2. CASE PeerSends \/ PeerLeaves \/ Disconnect
  BY <1>1, <1>2 DEF PeerSends, PeerLeaves, Disconnect, loopVars
<1>3. CASE SendMessage
  <2>1. accepted' \in 1..MaxAccepted
    BY <1>3 DEF SendMessage
  <2>2. sendingQueue' \in Seq(1..MaxAccepted)
    BY <1>3, <2>1 DEF SendMessage
  <2> QED BY <1>1, <1>3, <2>1, <2>2 DEF SendMessage
<1>4. CASE LoopTest \/ PollTimesOut \/ Decide \/ LeaveLoop \/ EndSession
  BY <1>1, <1>4 DEF LoopTest, PollTimesOut, Decide, LeaveLoop, EndSession
<1>5. CASE Poll
  BY <1>1, <1>5 DEF Poll, After, Reported
<1>6. CASE PollInterrupted
  BY <1>1, <1>6 DEF PollInterrupted, After
<1>7. CASE ReadsSome \/ ReadsEnd
  BY <1>1, <1>7 DEF ReadsSome, ReadsEnd, After
<1>8. CASE WriteData
  <2>1. CASE sendingQueue = <<>>
    BY <1>1, <1>8, <2>1 DEF WriteData
  <2>2. CASE sendingQueue # <<>>
    <3>1. /\ Head(sendingQueue) \in 1..MaxAccepted
          /\ Tail(sendingQueue) \in Seq(1..MaxAccepted)
      BY <2>2
    <3>2. Append(sent, Head(sendingQueue)) \in Seq(1..MaxAccepted)
      BY <3>1
    <3>3. sendingQueue' = Tail(sendingQueue) /\ sent' = Append(sent, Head(sendingQueue))
      BY <1>8, <2>2 DEF WriteData
    <3> QED BY <1>1, <1>8, <2>2, <3>1, <3>2, <3>3 DEF WriteData, IInv, TypeOK
  <2> QED BY <2>1, <2>2
<1>9. CASE UNCHANGED sessionVars
  BY <1>1, <1>9 DEF sessionVars, loopVars
<1> QED
  BY <1>2, <1>3, <1>4, <1>5, <1>6, <1>7, <1>8, <1>9 DEF LoopNext, LoopStep

LEMMA QueueInv ==
  ASSUME LoopInv, [LoopNext]_sessionVars
  PROVE  QueuedInOrder'
<1>1. /\ sent \in Seq(1..MaxAccepted) /\ sendingQueue \in Seq(1..MaxAccepted)
      /\ accepted \in Nat /\ Len(sent) \in Nat /\ Len(sendingQueue) \in Nat
      /\ Len(sent) + Len(sendingQueue) = accepted
      /\ \A i \in 1..Len(sent) : sent[i] = i
      /\ \A i \in 1..Len(sendingQueue) : sendingQueue[i] = Len(sent) + i
  BY LoopAssumption DEF LoopInv, LoopTypeOK, QueuedInOrder
<1>2. CASE SendMessage
  <2>1. accepted' = accepted + 1 /\ sent' = sent
        /\ sendingQueue' = Append(sendingQueue, accepted + 1)
    BY <1>2 DEF SendMessage
  <2> QED BY <1>1, <2>1 DEF QueuedInOrder
<1>3. CASE WriteData /\ sendingQueue # <<>>
  <2>1. accepted' = accepted /\ sent' = Append(sent, Head(sendingQueue))
        /\ sendingQueue' = Tail(sendingQueue)
    BY <1>3 DEF WriteData
  <2>2. Head(sendingQueue) = Len(sent) + 1 /\ Len(sendingQueue) > 0
    BY <1>1, <1>3
  <2>3. /\ Len(sent') = Len(sent) + 1 /\ \A i \in 1..Len(sent) : sent'[i] = sent[i]
        /\ sent'[Len(sent) + 1] = Len(sent) + 1
    BY <1>1, <2>1, <2>2
  <2>4. /\ Len(sendingQueue') = Len(sendingQueue) - 1
        /\ \A i \in 1..Len(sendingQueue') : sendingQueue'[i] = sendingQueue[i + 1]
    BY <1>1, <1>3, <2>1, <2>2
  <2>5. \A i \in 1..Len(sent') : sent'[i] = i
    BY <1>1, <2>3
  <2>6. \A i \in 1..Len(sendingQueue') : sendingQueue'[i] = Len(sent') + i
    <3> SUFFICES ASSUME NEW i \in 1..Len(sendingQueue')
                 PROVE  sendingQueue'[i] = Len(sent') + i
      OBVIOUS
    <3>1. i \in Nat /\ i + 1 \in 1..Len(sendingQueue)
      BY <1>1, <2>2, <2>4
    <3>2. sendingQueue'[i] = Len(sent) + (i + 1)
      BY <1>1, <2>4, <3>1
    <3>3. Len(sent') = Len(sent) + 1 /\ Len(sent) \in Nat /\ i \in Nat
      BY <1>1, <2>3, <3>1
    <3>4. Len(sent) + (i + 1) = Len(sent') + i
      BY <3>3
    <3> QED BY <3>2, <3>4
  <2>7. Len(sent') + Len(sendingQueue') = accepted'
    <3>1. Len(sent') = Len(sent) + 1
      BY <2>3
    <3>2. Len(sendingQueue') = Len(sendingQueue) - 1
      BY <2>4
    <3>3. /\ Len(sent) \in Nat /\ Len(sendingQueue) \in Nat
          /\ accepted' = Len(sent) + Len(sendingQueue)
      BY <1>1, <2>1
    <3>4. (Len(sent) + 1) + (Len(sendingQueue) - 1) = Len(sent) + Len(sendingQueue)
      BY <3>3
    <3> QED BY <3>1, <3>2, <3>3, <3>4, Zenon
  <2> QED BY <2>5, <2>6, <2>7, Zenon DEF QueuedInOrder
<1>4. CASE ~SendMessage /\ ~(WriteData /\ sendingQueue # <<>>)
  <2>1. UNCHANGED <<accepted, sent, sendingQueue>>
    BY <1>4
    DEF LoopNext, LoopStep, PeerSends, PeerLeaves, Disconnect, LoopTest, Poll,
        PollTimesOut, PollInterrupted, ReadsSome, ReadsEnd, WriteData, Decide, LeaveLoop,
        EndSession, sessionVars, loopVars
  <2> QED BY <2>1 DEF LoopInv, QueuedInOrder
<1> QED BY <1>2, <1>3, <1>4

LEMMA FailureInv ==
  ASSUME LoopInv, [LoopNext]_sessionVars
  PROVE  FailuresAreEnds'
<1> USE DEF LoopInv, FailuresAreEnds
<1>1. interrupts \in Nat /\ Available \in Int /\ taken \in Nat
      /\ MessageEnd[written] \in Nat
  BY StreamAssumption, LoopAssumption DEF LoopTypeOK, TypeOK, Available
<1>2. CASE PeerSends
  BY <1>2 DEF PeerSends, PeerWrites, loopVars
<1>3. CASE PeerLeaves
  BY <1>3 DEF PeerLeaves, PeerCloses, Available
<1>4. CASE SendMessage \/ Disconnect \/ LoopTest \/ PollTimesOut
  BY <1>4 DEF SendMessage, Disconnect, LoopTest, PollTimesOut, vars, Available
<1>5. CASE Poll
  <2>1. reset => Readable
    BY DEF Readable
  <2>2. "HUP" \in revents' => "IN" \in revents'
    BY <1>5, <2>1 DEF Poll, Reported
  <2> QED BY <1>5, <2>2 DEF Poll, After, vars, Available
<1>6. CASE PollInterrupted
  BY <1>1, <1>6 DEF PollInterrupted, vars, Available
<1>7. CASE ReadsSome
  <2>1. ended' = FALSE
    BY <1>7, ReadKeepsGoing DEF ReadsSome
  <2> QED BY <1>7, <2>1 DEF ReadsSome, ReadData
<1>8. CASE ReadsEnd
  <2>1. ~ended
    BY <1>8 DEF ReadsEnd, EndsOverLoop
  <2>2. Room > 0 /\ Room # 0
    BY <2>1, StreamAssumption DEF IInv, TypeOK, BufferHasRoom, Room
  <2>3. Available = 0 /\ peerClosed
    BY <1>1, <1>8, <2>2 DEF ReadsEnd, Readable
  <2> QED BY <1>8, <2>3 DEF ReadsEnd, vars, Available
<1>9. CASE WriteData
  BY <1>9 DEF WriteData, vars, Available
<1>10. CASE Decide \/ LeaveLoop \/ EndSession
  BY <1>10 DEF Decide, LeaveLoop, EndSession, vars, Available
<1>11. CASE UNCHANGED sessionVars
  BY <1>11 DEF sessionVars, vars, loopVars, Available
<1> QED
  BY <1>2, <1>3, <1>4, <1>5, <1>6, <1>7, <1>8, <1>9, <1>10, <1>11
  DEF LoopNext, LoopStep

LEMMA EndInv ==
  ASSUME LoopInv, [LoopNext]_sessionVars
  PROVE  EndsOverLoop'
<1> USE DEF LoopInv, EndsOverLoop
<1>1. CASE ReadsSome
  BY <1>1, ReadKeepsGoing DEF ReadsSome, After
<1>2. CASE LeaveLoop
  BY <1>2 DEF LeaveLoop
<1>3. CASE PeerSends \/ PeerLeaves
  <2>1. UNCHANGED <<ended, step>>
    BY <1>3, Zenon DEF PeerSends, PeerWrites, PeerLeaves, PeerCloses, loopVars
  <2> QED BY <2>1
<1>4. CASE SendMessage \/ Disconnect
  BY <1>4 DEF SendMessage, Disconnect, vars
<1>5. CASE Poll \/ PollInterrupted \/ ReadsEnd
  BY <1>5 DEF Poll, PollInterrupted, ReadsEnd, After, vars
<1>6. CASE LoopTest \/ PollTimesOut \/ Decide
  BY <1>6 DEF LoopTest, PollTimesOut, Decide, vars
<1>7. CASE WriteData
  BY <1>7 DEF WriteData, vars
<1>8. CASE EndSession
  BY <1>8 DEF EndSession, vars
<1>9. CASE UNCHANGED sessionVars
  BY <1>9 DEF sessionVars, vars, loopVars
<1> QED
  BY <1>1, <1>2, <1>3, <1>4, <1>5, <1>6, <1>7, <1>8, <1>9 DEF LoopNext, LoopStep

LEMMA LoopNextInv == LoopInv /\ [LoopNext]_sessionVars => LoopInv'
BY StepOfReading, NextInv, LoopTypeInv, QueueInv, FailureInv, EndInv DEF LoopInv

LEMMA LoopInvariance == LoopSpec => []LoopInv
BY LoopInitInv, LoopNextInv, PTL DEF LoopSpec

-----------------------------------------------------------------------------
(* The theorems.                                                           *)

\* Every variable of the session and of its loop keeps its type.
THEOREM LoopTypeCorrect == LoopSpec => []LoopTypeOK
BY LoopInvariance, PTL DEF LoopInv

\* pollForData(), its events, errors and interruptions leave the read path what
\* module ReceiveBuffer says of it ...
THEOREM LoopReads == LoopSpec => ImplementsReading
<1>1. LoopInit => Init
  BY DEF LoopInit
<1> QED
  BY <1>1, StepOfReading, LoopInvariance, PTL DEF LoopSpec, ImplementsReading, Spec

\* ... so a session hands over its peer's messages in order, each once, and the
\* end of file is the only error it finds in the stream ...
THEOREM LoopIsChannel == LoopSpec => Implements
BY LoopReads, Refinement DEF ImplementsReading

\* ... recv() always has room in the buffer ...
THEOREM LoopHasRoom == LoopSpec => []BufferHasRoom
BY LoopReads, AlwaysRoom DEF ImplementsReading

\* ... and the buffer starts with the next message.
THEOREM LoopInStep == LoopSpec => []InStep
BY LoopReads, AlwaysInStep DEF ImplementsReading

\* sendMessage(), writeData() and the condition of the loop: a session that is
\* told to disconnect leaves the loop only when it has passed everything it has
\* accepted so far to send(), in order.
THEOREM DisconnectsWhenSent == LoopSpec => AcceptedIsSent
<1>1. ASSUME LoopInv, LoopNext, step # "over", step' = "over", failure = "none"
      PROVE  sent = [i \in 1..accepted |-> i]
  <2>1. LeaveLoop
    BY <1>1
    DEF LoopNext, LoopStep, PeerSends, PeerLeaves, SendMessage, Disconnect, LoopTest,
        Poll, PollTimesOut, PollInterrupted, ReadsSome, ReadsEnd, WriteData, Decide,
        EndSession, After, loopVars, LoopInv, LoopTypeOK
  <2>2. sendingQueue = <<>>
    BY <1>1, <2>1 DEF LeaveLoop, KeepsLooping
  <2>3. /\ sent \in Seq(1..MaxAccepted) /\ Len(sent) = accepted
        /\ \A i \in 1..Len(sent) : sent[i] = i
    BY <1>1, <2>2 DEF LoopInv, LoopTypeOK, QueuedInOrder
  <2> QED BY <2>3
<1>2. LoopInv /\ [LoopNext]_sessionVars
        => [step # "over" /\ step' = "over" /\ failure = "none"
              => sent = [i \in 1..accepted |-> i]]_sessionVars
  BY <1>1
<1> QED BY <1>2, LoopInvariance, PTL DEF LoopSpec, AcceptedIsSent

\* The hang-up poll() reports and the errors readData() finds end the session
\* only when the peer's stream has been read to its end.
THEOREM DrainsFirst == LoopSpec => []DrainsBeforeEnding
<1>1. LoopInv => DrainsBeforeEnding
  BY DEF LoopInv, FailuresAreEnds, DrainsBeforeEnding, LoopTypeOK
<1> QED BY <1>1, LoopInvariance, PTL
=============================================================================
