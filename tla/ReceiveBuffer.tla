--------------------------- MODULE ReceiveBuffer ---------------------------
(***************************************************************************)
(* The receiving half of SessionBase: the bytes of the peer's messages     *)
(* arrive in buffer_ in pieces of any length, and readData() cuts them     *)
(* into messages again.  A byte is known by its position in the stream     *)
(* (1 is the first byte the peer ever wrote), so a message is the interval *)
(* of positions from MessageEnd[n-1]+1 to MessageEnd[n], the first         *)
(* HeaderSize of them its header.  The byte 0 is whatever malloc() or      *)
(* memset() left in a place of the buffer no message was read into.        *)
(***************************************************************************)
EXTENDS Naturals, Sequences

CONSTANTS HeaderSize,      \* sizeof( MessageHeader )
          MaxMessageSize,  \* MAX_MESSAGE_SIZE
          MessageCount,    \* how many messages the peer ever writes (a bound)
          MessageEnd       \* last position of each message, MessageEnd[0] = 0

\* Every message has a whole header and fits the buffer (MAX_PAYLOAD_SIZE).
ASSUME StreamAssumption ==
  /\ HeaderSize \in Nat \ {0}
  /\ MaxMessageSize \in Nat
  /\ HeaderSize <= MaxMessageSize
  /\ MessageCount \in Nat
  /\ MessageEnd \in [0..MessageCount -> Nat]
  /\ MessageEnd[0] = 0
  /\ \A m, n \in 0..MessageCount :
        m < n => MessageEnd[m] + HeaderSize <= MessageEnd[n]
  /\ \A n \in 1..MessageCount :
        MessageEnd[n] <= MessageEnd[n - 1] + MaxMessageSize

VARIABLES written,       \* messages the peer has passed to send()
          peerClosed,    \* the peer has closed its socket
          taken,         \* bytes of the stream recv() has returned so far
          buffer,        \* buffer_
          bufferOffset,  \* bufferOffset_
          delivered,     \* messages passed to availableMessages(), in order
          ended          \* pollForData() has left its loop

vars == <<written, peerClosed, taken, buffer, bufferOffset, delivered, ended>>

Positions == 1..MaxMessageSize

TypeOK ==
  /\ written \in 0..MessageCount
  /\ peerClosed \in BOOLEAN
  /\ taken \in Nat
  /\ buffer \in [Positions -> Nat]
  /\ bufferOffset \in 0..MaxMessageSize
  /\ delivered \in Seq(1..MessageCount)
  /\ ended \in BOOLEAN

Init ==
  /\ written = 0
  /\ peerClosed = FALSE
  /\ taken = 0
  /\ buffer = [i \in Positions |-> 0]
  /\ bufferOffset = 0
  /\ delivered = <<>>
  /\ ended = FALSE

-----------------------------------------------------------------------------
(* The peer.                                                               *)

\* writeData() of the other end passes one whole message to send().
PeerWrites ==
  /\ ~peerClosed
  /\ written < MessageCount
  /\ written' = written + 1
  /\ UNCHANGED <<peerClosed, taken, buffer, bufferOffset, delivered, ended>>

PeerCloses ==
  /\ ~peerClosed
  /\ peerClosed' = TRUE
  /\ UNCHANGED <<written, taken, buffer, bufferOffset, delivered, ended>>

-----------------------------------------------------------------------------
(* The session.                                                            *)

Available == MessageEnd[written] - taken

\* Mutant of Room: recv() may write a whole message behind what is there.
WholeBuffer == MaxMessageSize

\* The third argument of recv(): what is left of the buffer.
Room == MaxMessageSize - bufferOffset

\* The buffer after recv() has appended k bytes of the stream.
Filled(k) ==
  [i \in Positions |-> IF i \in (bufferOffset + 1)..(bufferOffset + k)
                       THEN taken + (i - bufferOffset)
                       ELSE buffer[i]]

\* The messages whose header a buffer b starts with: one, or none when the
\* session is out of step with the stream.
HeadersAt(b) ==
  {n \in 1..MessageCount :
      \A i \in 1..HeaderSize : i \in Positions /\ b[i] = MessageEnd[n - 1] + i}

\* Mutant of Length: the header is forgotten.
PayloadLength(n) == MessageEnd[n] - MessageEnd[n - 1] - HeaderSize

Length(n) == MessageEnd[n] - MessageEnd[n - 1]

\* Mutant of Shifted: the remainder is taken from behind the payload's length.
ShiftedByPayload(b, n) ==
  [i \in Positions |-> IF i + PayloadLength(n) \in Positions
                       THEN b[i + PayloadLength(n)]
                       ELSE 0]

\* The rest of the buffer moved to its start.
Shifted(b, n) ==
  [i \in Positions |-> IF i + Length(n) \in Positions
                       THEN b[i + Length(n)]
                       ELSE 0]

\* Mutant of ParseMessage: bufferOffset_ is not brought down.
ParseKeepingOffset(b, offset) ==
  \E n \in HeadersAt(b) :
     IF offset < Length(n)
     THEN /\ buffer' = b
          /\ bufferOffset' = offset
          /\ UNCHANGED <<delivered, ended>>
     ELSE /\ buffer' = Shifted(b, n)
          /\ bufferOffset' = offset
          /\ delivered' = Append(delivered, n)
          /\ UNCHANGED ended

\* parseMessage(): at most one message leaves the buffer, however many whole
\* ones are in it.  An unknown command is an error; payloads are those the program
\* writes, which fromRawBytes() takes.
ParseMessage(b, offset) ==
  IF HeadersAt(b) = {}
  THEN /\ buffer' = b
       /\ bufferOffset' = offset
       /\ ended' = TRUE
       /\ UNCHANGED delivered
  ELSE \E n \in HeadersAt(b) :
          IF offset < Length(n)
          THEN /\ buffer' = b
               /\ bufferOffset' = offset
               /\ UNCHANGED <<delivered, ended>>
          ELSE /\ buffer' = Shifted(b, n)
               /\ bufferOffset' = offset - Length(n)
               /\ delivered' = Append(delivered, n)
               /\ UNCHANGED ended

\* readData() when recv() returns k > 0 bytes.
ReadData ==
  /\ ~ended
  /\ \E k \in 1..MaxMessageSize :
        /\ k <= Room
        /\ k <= Available
        /\ taken' = taken + k
        /\ IF bufferOffset + k < HeaderSize
           THEN /\ buffer' = Filled(k)
                /\ bufferOffset' = bufferOffset + k
                /\ UNCHANGED <<delivered, ended>>
           ELSE ParseMessage(Filled(k), bufferOffset + k)
  /\ UNCHANGED <<written, peerClosed>>

\* Mutant of Readable: an end of file goes unnoticed.
ReadableData == Available > 0

\* poll() reports data or an end of file.
Readable == Available > 0 \/ peerClosed

\* recv() returns 0: the peer has closed and nothing is left to read, or the
\* buffer had no room to read into.  Both end the session.
ReadNothing ==
  /\ ~ended
  /\ Readable
  /\ 0 \in {Available, Room}
  /\ ended' = TRUE
  /\ UNCHANGED <<written, peerClosed, taken, buffer, bufferOffset, delivered>>

Next == PeerWrites \/ PeerCloses \/ ReadData \/ ReadNothing

Spec == Init /\ [][Next]_vars

-----------------------------------------------------------------------------
(* Properties.                                                             *)

\* A session that still polls never asks recv() for 0 bytes: recv() would
\* return 0 and readData() would take it for a closed socket.
BufferHasRoom == ~ended => Room > 0

\* The bytes in the buffer are the stream's, from the first byte of the next
\* undelivered message on: parseMessage() never looks for a header elsewhere.
InStep ==
  /\ taken = MessageEnd[Len(delivered)] + bufferOffset
  /\ \A i \in 1..bufferOffset : buffer[i] = MessageEnd[Len(delivered)] + i

\* The receive path is a FIFO channel: every message once and in order, and
\* no session ends (an "invalid command") while its peer is connected.
ReceivesInOrder == INSTANCE Channel
Implements == ReceivesInOrder!ChannelSpec
=============================================================================
