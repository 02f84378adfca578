------------------------ MODULE ReceiveBufferProofs ------------------------
(***************************************************************************)
(* Proofs about ReceiveBuffer, for every stream of messages and every size *)
(* of the buffer.  The invariant says where the buffer is in the stream:   *)
(* it starts with the first byte of the next undelivered message, so a     *)
(* header that is complete is that message's and no other's.               *)
(***************************************************************************)
EXTENDS ReceiveBuffer, TLAPS

\* The number of the next message to be delivered.
NextMessage == Len(delivered) + 1

\* Nothing was received that was not written, nor delivered.
ReceivedWasWritten ==
  /\ taken <= MessageEnd[written]
  /\ Len(delivered) <= written

IInv == TypeOK /\ ReceivedWasWritten /\ InStep /\ BufferHasRoom

-----------------------------------------------------------------------------

\* A message has at least its header, and at most the buffer's length.
LEMMA LengthBounds ==
  \A n \in 1..MessageCount :
      /\ Length(n) \in Nat
      /\ HeaderSize <= Length(n)
      /\ Length(n) <= MaxMessageSize
      /\ MessageEnd[n] = MessageEnd[n - 1] + Length(n)
BY StreamAssumption DEF Length

\* No two messages end at the same byte.
LEMMA DistinctEnds ==
  ASSUME NEW m \in 0..MessageCount, NEW n \in 0..MessageCount,
         MessageEnd[m] = MessageEnd[n]
  PROVE  m = n
<1>1. /\ m \in Nat /\ n \in Nat /\ HeaderSize \in Nat \ {0}
      /\ MessageEnd[m] \in Nat
  BY StreamAssumption
<1>2. ~(m < n)
  <2>1. m < n => MessageEnd[m] + HeaderSize <= MessageEnd[n]
    BY StreamAssumption
  <2> QED BY <1>1, <2>1
<1>3. ~(n < m)
  <2>1. n < m => MessageEnd[n] + HeaderSize <= MessageEnd[m]
    BY StreamAssumption
  <2> QED BY <1>1, <2>1
<1> QED BY <1>1, <1>2, <1>3

\* A buffer that holds the header of message n at its start starts with no
\* other message.
LEMMA OneHeader ==
  ASSUME NEW b \in [Positions -> Nat], NEW n \in 1..MessageCount,
         \A i \in 1..HeaderSize : i \in Positions /\ b[i] = MessageEnd[n - 1] + i
  PROVE  HeadersAt(b) = {n}
<1>1. n \in HeadersAt(b)
  BY DEF HeadersAt
<1>2. ASSUME NEW m \in HeadersAt(b) PROVE m = n
  <2>1. m \in 1..MessageCount /\ b[1] = MessageEnd[m - 1] + 1
    BY <1>2, StreamAssumption DEF HeadersAt
  <2>2. b[1] = MessageEnd[n - 1] + 1
    BY StreamAssumption
  <2>3. m - 1 \in 0..MessageCount /\ n - 1 \in 0..MessageCount
    BY <2>1, StreamAssumption
  <2>4. MessageEnd[m - 1] = MessageEnd[n - 1]
    BY <2>1, <2>2, <2>3, StreamAssumption
  <2>5. m - 1 = n - 1
    BY <2>3, <2>4, DistinctEnds
  <2> QED BY <2>1, <2>5, StreamAssumption
<1> QED BY <1>1, <1>2

\* recv() appends the bytes that follow those already in the buffer.
LEMMA FilledInStep ==
  ASSUME IInv, NEW k \in 1..MaxMessageSize, k <= Room, k <= Available
  PROVE  /\ Filled(k) \in [Positions -> Nat]
         /\ bufferOffset + k \in 1..MaxMessageSize
         /\ NextMessage \in 1..written
         /\ taken + k = MessageEnd[Len(delivered)] + (bufferOffset + k)
         /\ \A i \in 1..(bufferOffset + k) :
               i \in Positions /\ Filled(k)[i] = MessageEnd[NextMessage - 1] + i
<1>1. /\ taken \in Nat /\ bufferOffset \in Nat /\ buffer \in [Positions -> Nat]
      /\ MaxMessageSize \in Nat /\ k \in Nat \ {0}
      /\ written \in 0..MessageCount /\ Len(delivered) \in Nat
      /\ MessageEnd[written] \in Nat
  BY StreamAssumption DEF IInv, TypeOK
<1>2. bufferOffset + k \in 1..MaxMessageSize
  BY <1>1 DEF Room
<1>3. Filled(k) \in [Positions -> Nat]
  BY <1>1 DEF Filled, Positions
<1>4. taken = MessageEnd[Len(delivered)] + bufferOffset
  BY DEF IInv, InStep
<1>5. Len(delivered) < written
  <2>1. taken < MessageEnd[written]
    BY <1>1 DEF Available
  <2>2. Len(delivered) # written
    BY <1>1, <1>4, <2>1
  <2> QED BY <1>1, <2>2 DEF IInv, ReceivedWasWritten
<1>6. MessageEnd[Len(delivered)] \in Nat
  BY <1>1, <1>5, StreamAssumption
<1>7. ASSUME NEW i \in 1..(bufferOffset + k)
      PROVE  i \in Positions /\ Filled(k)[i] = MessageEnd[Len(delivered)] + i
  <2>1. i \in Positions
    BY <1>1, <1>2 DEF Positions
  <2>2. CASE i <= bufferOffset
    <3>1. Filled(k)[i] = buffer[i]
      BY <1>1, <2>1, <2>2 DEF Filled
    <3>2. i \in 1..bufferOffset
      BY <1>1, <2>2
    <3> QED BY <2>1, <3>1, <3>2 DEF IInv, InStep
  <2>3. CASE ~(i <= bufferOffset)
    <3>1. Filled(k)[i] = taken + (i - bufferOffset)
      BY <1>1, <2>1, <2>3 DEF Filled
    <3> QED BY <1>1, <1>4, <1>6, <2>1, <3>1
  <2> QED BY <2>2, <2>3
<1>8. NextMessage \in 1..written /\ NextMessage - 1 = Len(delivered)
  BY <1>1, <1>5 DEF NextMessage
<1>9. taken + k = MessageEnd[Len(delivered)] + (bufferOffset + k)
  BY <1>1, <1>4, <1>6
<1> QED BY <1>2, <1>3, <1>7, <1>8, <1>9, Zenon

\* parseMessage() on what recv() has left: nothing yet, or the next message.
LEMMA ParsesNextMessage ==
  ASSUME IInv, NEW k \in 1..MaxMessageSize, k <= Room, k <= Available,
         bufferOffset + k >= HeaderSize,
         ParseMessage(Filled(k), bufferOffset + k)
  PROVE  \/ /\ bufferOffset + k < Length(NextMessage)
            /\ buffer' = Filled(k)
            /\ bufferOffset' = bufferOffset + k
            /\ UNCHANGED <<delivered, ended>>
         \/ /\ bufferOffset + k >= Length(NextMessage)
            /\ buffer' = Shifted(Filled(k), NextMessage)
            /\ bufferOffset' = (bufferOffset + k) - Length(NextMessage)
            /\ delivered' = Append(delivered, NextMessage)
            /\ UNCHANGED ended
<1>1. /\ Filled(k) \in [Positions -> Nat]
      /\ NextMessage \in 1..written
      /\ \A i \in 1..(bufferOffset + k) :
            i \in Positions /\ Filled(k)[i] = MessageEnd[NextMessage - 1] + i
  BY FilledInStep
<1>2. NextMessage \in 1..MessageCount
  BY <1>1, StreamAssumption DEF IInv, TypeOK
<1>3. bufferOffset + k \in Nat /\ HeaderSize \in Nat
  BY StreamAssumption DEF IInv, TypeOK
<1>4. \A i \in 1..HeaderSize :
         i \in Positions /\ Filled(k)[i] = MessageEnd[NextMessage - 1] + i
  BY <1>1, <1>3
<1>5. HeadersAt(Filled(k)) = {NextMessage}
  BY <1>1, <1>2, <1>4, OneHeader
<1>6. Length(NextMessage) \in Nat
  BY <1>2, LengthBounds
<1>7. bufferOffset + k < Length(NextMessage) \/ bufferOffset + k >= Length(NextMessage)
  BY <1>3, <1>6
<1>8. \E n \in {NextMessage} :
         IF bufferOffset + k < Length(n)
         THEN /\ buffer' = Filled(k)
              /\ bufferOffset' = bufferOffset + k
              /\ UNCHANGED <<delivered, ended>>
         ELSE /\ buffer' = Shifted(Filled(k), n)
              /\ bufferOffset' = (bufferOffset + k) - Length(n)
              /\ delivered' = Append(delivered, n)
              /\ UNCHANGED ended
  <2>1. HeadersAt(Filled(k)) # {}
    BY <1>5
  <2> QED BY <1>5, <2>1, Zenon DEF ParseMessage
<1>9. IF bufferOffset + k < Length(NextMessage)
      THEN /\ buffer' = Filled(k)
           /\ bufferOffset' = bufferOffset + k
           /\ UNCHANGED <<delivered, ended>>
      ELSE /\ buffer' = Shifted(Filled(k), NextMessage)
           /\ bufferOffset' = (bufferOffset + k) - Length(NextMessage)
           /\ delivered' = Append(delivered, NextMessage)
           /\ UNCHANGED ended
  BY <1>8, Zenon
<1> QED BY <1>7, <1>9, Zenon

-----------------------------------------------------------------------------

\* The constructor leaves an empty buffer, in step with a stream of no bytes.
LEMMA InitInv == Init => IInv
<1> SUFFICES ASSUME Init PROVE IInv
  OBVIOUS
<1> USE StreamAssumption DEF Init
<1>1. TypeOK
  <2>1. delivered \in Seq(1..MessageCount)
    OBVIOUS
  <2>2. buffer \in [Positions -> Nat]
    OBVIOUS
  <2>3. written \in 0..MessageCount /\ bufferOffset \in 0..MaxMessageSize
    OBVIOUS
  <2>4. peerClosed \in BOOLEAN /\ ended \in BOOLEAN /\ taken \in Nat
    OBVIOUS
  <2> QED BY <2>1, <2>2, <2>3, <2>4, Zenon DEF TypeOK
<1>2. ReceivedWasWritten /\ InStep
  BY DEF ReceivedWasWritten, InStep
<1>3. BufferHasRoom
  BY DEF BufferHasRoom, Room
<1> QED BY <1>1, <1>2, <1>3 DEF IInv

\* The step that matters: a read, whole or in part.
LEMMA ReadDataInv == IInv /\ ReadData => IInv'
<1> SUFFICES ASSUME IInv, ReadData PROVE IInv'
  OBVIOUS
<1>1. PICK k \in 1..MaxMessageSize :
         /\ k <= Room
         /\ k <= Available
         /\ taken' = taken + k
         /\ IF bufferOffset + k < HeaderSize
            THEN /\ buffer' = Filled(k)
                 /\ bufferOffset' = bufferOffset + k
                 /\ UNCHANGED <<delivered, ended>>
            ELSE ParseMessage(Filled(k), bufferOffset + k)
  BY DEF ReadData
<1>2. /\ Filled(k) \in [Positions -> Nat]
      /\ bufferOffset + k \in 1..MaxMessageSize
      /\ NextMessage \in 1..written
      /\ taken + k = MessageEnd[Len(delivered)] + (bufferOffset + k)
      /\ \A i \in 1..(bufferOffset + k) :
            i \in Positions /\ Filled(k)[i] = MessageEnd[NextMessage - 1] + i
  BY <1>1, FilledInStep
<1>3. UNCHANGED <<written, peerClosed>> /\ ~ended
  BY DEF ReadData
<1>4. /\ written \in 0..MessageCount /\ MessageCount \in Nat /\ taken \in Nat
      /\ MessageEnd[written] \in Nat /\ MaxMessageSize \in Nat /\ HeaderSize \in Nat
      /\ bufferOffset \in Nat /\ k \in Nat /\ delivered \in Seq(1..MessageCount)
      /\ Len(delivered) \in Nat /\ NextMessage = Len(delivered) + 1
      /\ peerClosed \in BOOLEAN /\ ended \in BOOLEAN
  BY StreamAssumption DEF IInv, TypeOK, NextMessage
<1>5. NextMessage \in 1..MessageCount /\ NextMessage - 1 = Len(delivered)
  BY <1>2, <1>4
<1>6. taken' <= MessageEnd[written]
  BY <1>1, <1>4 DEF Available
<1>7. /\ Length(NextMessage) \in Nat
      /\ HeaderSize <= Length(NextMessage)
      /\ Length(NextMessage) <= MaxMessageSize
      /\ MessageEnd[NextMessage] = MessageEnd[NextMessage - 1] + Length(NextMessage)
  BY <1>5, LengthBounds
<1>8. MessageEnd[NextMessage - 1] \in Nat /\ MessageEnd[NextMessage] \in Nat
  <2>1. NextMessage - 1 \in 0..MessageCount /\ NextMessage \in 0..MessageCount
    BY <1>4, <1>5
  <2> QED BY <2>1, StreamAssumption
<1>9. CASE /\ bufferOffset + k < Length(NextMessage)
           /\ buffer' = Filled(k)
           /\ bufferOffset' = bufferOffset + k
           /\ UNCHANGED <<delivered, ended>>
  <2>1. TypeOK'
    BY <1>1, <1>2, <1>3, <1>4, <1>9 DEF TypeOK
  <2>2. ReceivedWasWritten'
    BY <1>3, <1>6, <1>9 DEF IInv, ReceivedWasWritten
  <2>3. InStep'
    BY <1>1, <1>2, <1>5, <1>9 DEF InStep
  <2>4. BufferHasRoom'
    BY <1>4, <1>7, <1>9 DEF BufferHasRoom, Room
  <2> QED BY <2>1, <2>2, <2>3, <2>4 DEF IInv
<1>10. CASE /\ bufferOffset + k >= Length(NextMessage)
            /\ buffer' = Shifted(Filled(k), NextMessage)
            /\ bufferOffset' = (bufferOffset + k) - Length(NextMessage)
            /\ delivered' = Append(delivered, NextMessage)
            /\ UNCHANGED ended
  <2>1. /\ bufferOffset' \in Nat /\ bufferOffset' < MaxMessageSize
        /\ bufferOffset' \in 0..MaxMessageSize
    <3>1. bufferOffset + k \in Nat /\ bufferOffset + k <= MaxMessageSize
      BY <1>2, <1>4
    <3>2. 1 <= Length(NextMessage) /\ Length(NextMessage) \in Nat
      BY <1>4, <1>7, StreamAssumption
    <3> QED BY <1>4, <1>10, <3>1, <3>2
  <2>2. buffer' \in [Positions -> Nat]
    BY <1>2, <1>10 DEF Shifted
  <2>3. delivered' \in Seq(1..MessageCount) /\ Len(delivered') = NextMessage
    BY <1>4, <1>5, <1>10
  <2>4. taken' = MessageEnd[NextMessage] + bufferOffset'
    <3>1. taken' = MessageEnd[NextMessage - 1] + (bufferOffset + k)
      BY <1>1, <1>2, <1>5
    <3>2. bufferOffset' = (bufferOffset + k) - Length(NextMessage)
      BY <1>10
    <3>3. bufferOffset + k \in Nat
      BY <1>4
    <3> QED BY <1>7, <1>8, <3>1, <3>2, <3>3
  <2>5. ASSUME NEW i \in 1..bufferOffset'
        PROVE  buffer'[i] = MessageEnd[NextMessage] + i
    <3>1. i + Length(NextMessage) \in 1..(bufferOffset + k)
      BY <1>4, <1>7, <1>10, <2>1
    <3>2. i \in Positions
      BY <1>4, <2>1 DEF Positions
    <3>3. buffer'[i] = Filled(k)[i + Length(NextMessage)]
      BY <1>2, <1>10, <3>1, <3>2 DEF Shifted
    <3> QED BY <1>2, <1>7, <1>8, <3>1, <3>3
  <2>6. TypeOK'
    BY <1>1, <1>3, <1>4, <1>10, <2>1, <2>2, <2>3 DEF TypeOK
  <2>7. ReceivedWasWritten'
    BY <1>2, <1>3, <1>6, <2>3 DEF ReceivedWasWritten
  <2>8. InStep'
    BY <2>3, <2>4, <2>5 DEF InStep
  <2>9. BufferHasRoom'
    <3>1. \A offset \in Nat : offset < MaxMessageSize => MaxMessageSize - offset > 0
      BY StreamAssumption
    <3>2. MaxMessageSize - bufferOffset' > 0
      BY <2>1, <3>1, Zenon
    <3> QED BY <3>2, Zenon DEF BufferHasRoom, Room
  <2> QED BY <2>6, <2>7, <2>8, <2>9 DEF IInv
<1>11. CASE bufferOffset + k < HeaderSize
  BY <1>1, <1>4, <1>7, <1>9, <1>11
<1>12. CASE ~(bufferOffset + k < HeaderSize)
  <2>1. ParseMessage(Filled(k), bufferOffset + k) /\ bufferOffset + k >= HeaderSize
    BY <1>1, <1>4, <1>12
  <2> QED BY <1>1, <1>9, <1>10, <2>1, ParsesNextMessage
<1> QED BY <1>11, <1>12

\* No step of the peer or of the session brings the buffer out of step.
LEMMA NextInv == IInv /\ [Next]_vars => IInv'
<1> SUFFICES ASSUME IInv, [Next]_vars PROVE IInv'
  OBVIOUS
<1> USE DEF IInv, ReceivedWasWritten, InStep, BufferHasRoom, Room
<1>1. CASE PeerWrites
  <2>1. /\ written \in 0..MessageCount /\ written + 1 \in 0..MessageCount
        /\ MessageEnd[written] \in Nat /\ MessageEnd[written + 1] \in Nat
        /\ MessageEnd[written] + HeaderSize <= MessageEnd[written + 1]
        /\ HeaderSize \in Nat /\ taken \in Nat /\ Len(delivered) \in Nat
    BY <1>1, StreamAssumption DEF PeerWrites, TypeOK
  <2> QED BY <1>1, <2>1 DEF PeerWrites, TypeOK
<1>2. CASE PeerCloses
  BY <1>2 DEF PeerCloses, TypeOK
<1>3. CASE ReadData
  BY <1>3, ReadDataInv
<1>4. CASE ReadNothing
  BY <1>4 DEF ReadNothing, TypeOK
<1>5. CASE UNCHANGED vars
  BY <1>5 DEF vars, TypeOK
<1> QED BY <1>1, <1>2, <1>3, <1>4, <1>5 DEF Next

\* The invariant holds in every reachable state.
THEOREM Invariance == Spec => []IInv
BY InitInv, NextInv, PTL DEF Spec

-----------------------------------------------------------------------------

\* readData(), parseMessage(): every field of the session keeps its type; the
\* offset never leaves the buffer.
THEOREM TypeCorrect == Spec => []TypeOK
BY Invariance, PTL DEF IInv

\* readData(): whatever the lengths of the messages and the pieces they arrive
\* in, recv() is never asked for 0 bytes by a session that still polls.
THEOREM AlwaysRoom == Spec => []BufferHasRoom
BY Invariance, PTL DEF IInv

\* parseMessage(): the buffer always starts at the first byte of the next
\* undelivered message.
THEOREM AlwaysInStep == Spec => []InStep
BY Invariance, PTL DEF IInv

\* The session gives up only when there is nothing left to read.
LEMMA GivesUpAfterClose ==
  IInv /\ ReadNothing => ReceivesInOrder!GiveUp
<1> SUFFICES ASSUME IInv, ReadNothing PROVE ReceivesInOrder!GiveUp
  OBVIOUS
<1>1. Room > 0 /\ Room # 0
  BY StreamAssumption DEF IInv, TypeOK, BufferHasRoom, Room, ReadNothing
<1>2. ~(Available > 0)
  BY <1>1, StreamAssumption DEF ReadNothing, Available, IInv, TypeOK
<1> QED BY <1>2 DEF ReadNothing, Readable, ReceivesInOrder!GiveUp

\* A read hands over the next message or nothing.
LEMMA ReadsInOrder ==
  IInv /\ ReadData
     => ReceivesInOrder!Deliver \/ UNCHANGED ReceivesInOrder!channelVars
<1> SUFFICES ASSUME IInv, ReadData
             PROVE  ReceivesInOrder!Deliver \/ UNCHANGED ReceivesInOrder!channelVars
  OBVIOUS
<1> USE DEF ReceivesInOrder!Deliver, ReceivesInOrder!channelVars
<1>1. PICK k \in 1..MaxMessageSize :
         /\ k <= Room
         /\ k <= Available
         /\ IF bufferOffset + k < HeaderSize
            THEN UNCHANGED <<delivered, ended>>
            ELSE ParseMessage(Filled(k), bufferOffset + k)
  BY DEF ReadData
<1>2. UNCHANGED <<written, peerClosed>> /\ ~ended
  BY DEF ReadData
<1>3. CASE bufferOffset + k < HeaderSize
  BY <1>1, <1>2, <1>3
<1>4. CASE ~(bufferOffset + k < HeaderSize)
  <2>1. bufferOffset + k >= HeaderSize
    BY <1>4, StreamAssumption DEF IInv, TypeOK
  <2>2. /\ UNCHANGED ended
        /\ \/ UNCHANGED delivered
           \/ delivered' = Append(delivered, NextMessage)
    BY <1>1, <1>4, <2>1, ParsesNextMessage
  <2>3. Len(delivered) < written
    <3>1. NextMessage \in 1..written
      BY <1>1, FilledInStep
    <3> QED BY <3>1 DEF NextMessage, IInv, TypeOK
  <2> QED BY <1>2, <2>2, <2>3 DEF NextMessage
<1> QED BY <1>3, <1>4

\* Every step of the receive path is one of the channel, or none.
LEMMA StepOfChannel ==
  IInv /\ [Next]_vars => [ReceivesInOrder!ChannelNext]_(ReceivesInOrder!channelVars)
<1> SUFFICES ASSUME IInv, [Next]_vars
             PROVE  [ReceivesInOrder!ChannelNext]_(ReceivesInOrder!channelVars)
  OBVIOUS
<1> USE DEF ReceivesInOrder!ChannelNext
<1>1. CASE PeerWrites
  BY <1>1 DEF PeerWrites, ReceivesInOrder!Send
<1>2. CASE PeerCloses
  BY <1>2 DEF PeerCloses, ReceivesInOrder!Close
<1>3. CASE ReadData
  BY <1>3, ReadsInOrder
<1>4. CASE ReadNothing
  BY <1>4, GivesUpAfterClose
<1>5. CASE UNCHANGED vars
  BY <1>5 DEF vars, ReceivesInOrder!channelVars
<1> QED BY <1>1, <1>2, <1>3, <1>4, <1>5 DEF Next

\* The receive path of SessionBase implements the channel the rest of the
\* system is built on: no message is lost in the middle, repeated or reordered
\* by readData(), and an end of file is all that ends the session.
THEOREM Refinement == Spec => Implements
<1>1. Init => ReceivesInOrder!ChannelInit
  BY DEF Init, ReceivesInOrder!ChannelInit
<1> QED
  BY <1>1, StepOfChannel, Invariance, PTL
  DEF Spec, Implements, ReceivesInOrder!ChannelSpec
=============================================================================
