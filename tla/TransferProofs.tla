--------------------------- MODULE TransferProofs ---------------------------
(***************************************************************************)
(* What a file transfer promises, for any number of clients and any files, *)
(* of the first file somebody asks to send: nothing is on its way before   *)
(* everybody has answered, the server keeps the transfer for its sender as *)
(* long as that transmits, and blocks reach only those who are receiving.  *)
(* As long as no queue drops a message, a client that shows the file as    *)
(* received has every block of it.  And no client aborts, unless the       *)
(* sender leaves or two answers are counted twice.                         *)
(* Server and clients each know a part of how far the transfer is; what    *)
(* the other part is follows from the messages between them.  The lines of *)
(* messages are those of ChatProofs, and a line only ever loses its first  *)
(* message or gets one more, so what it must not have is enough to know.   *)
(***************************************************************************)
EXTENDS OneRequest, ChatProofs

-----------------------------------------------------------------------------
(* Lines of messages, once more.                                           *)

\* A message of that type is in the line; at most one is.
Has(line, type) == \E i \in 1..Len(line) : line[i].type = type
Once(line, type) ==
  \A i, j \in 1..Len(line) : (line[i].type = type /\ line[j].type = type) => i = j

\* A STATUS with that code is.
Gives(line, code) == \E i \in 1..Len(line) : line[i].type = "STATUS" /\ line[i].code = code

\* The sender is told to start at most once.
Starts(m) == m.type = "STATUS" /\ m.code = "AcceptFileTransfer"
StartsOnce(line) ==
  \A i, j \in 1..Len(line) : (Starts(line[i]) /\ Starts(line[j])) => i = j

\* The last block of a file is, and no block comes after it.
Ending(line) == \E i \in 1..Len(line) : line[i].type = "FILE_DATA" /\ line[i].last
LastIsLast(line) ==
  \A i, j \in 1..Len(line) :
      (i < j /\ line[i].type = "FILE_DATA" /\ line[i].last) => line[j].type # "FILE_DATA"

\* Nothing is in the empty line.
LEMMA EmptyLine ==
  /\ \A type : ~Has(<<>>, type) /\ Once(<<>>, type)
  /\ \A code : ~Gives(<<>>, code)
  /\ StartsOnce(<<>>)
  /\ ~Ending(<<>>) /\ LastIsLast(<<>>)
BY DEF Has, Once, StartsOnce, Gives, Ending, LastIsLast

\* What is in a line with one more message ...
LEMMA LongerLine ==
  ASSUME NEW s \in Seq(Messages), NEW m \in Messages
  PROVE  /\ \A type : Has(Append(s, m), type) <=> (Has(s, type) \/ m.type = type)
         /\ \A type : Once(Append(s, m), type)
                        <=> (Once(s, type) /\ (m.type = type => ~Has(s, type)))
         /\ \A code : Gives(Append(s, m), code)
                        <=> (Gives(s, code) \/ (m.type = "STATUS" /\ m.code = code))
         /\ StartsOnce(s) /\ (Starts(m) => ~Gives(s, "AcceptFileTransfer"))
              => StartsOnce(Append(s, m))
         /\ Ending(Append(s, m)) <=> (Ending(s) \/ (m.type = "FILE_DATA" /\ m.last))
         /\ LastIsLast(Append(s, m))
              <=> (LastIsLast(s) /\ (m.type = "FILE_DATA" => ~Ending(s)))
<1> DEFINE r == Append(s, m)
           n == Len(s)
<1>1. /\ n \in Nat /\ Len(r) = n + 1 /\ r[n + 1] = m /\ (\A i \in 1..n : r[i] = s[i])
      /\ \A i \in 1..(n + 1) : i \in 1..n \/ i = n + 1
      /\ \A i \in 1..n : i \in 1..(n + 1) /\ i < n + 1 /\ ~(n + 1 < i) /\ i # n + 1
      /\ n + 1 \in 1..(n + 1) /\ ~(n + 1 < n + 1)
  OBVIOUS
<1> HIDE DEF r, n
<1>2. ASSUME NEW type
      PROVE  Has(r, type) <=> (Has(s, type) \/ m.type = type)
  BY <1>1 DEF Has, n
<1>3. ASSUME NEW type
      PROVE  Once(r, type) <=> (Once(s, type) /\ (m.type = type => ~Has(s, type)))
  BY <1>1 DEF Once, Has, n
<1>4. ASSUME NEW code
      PROVE  Gives(r, code) <=> (Gives(s, code) \/ (m.type = "STATUS" /\ m.code = code))
  BY <1>1 DEF Gives, n
<1>5. Ending(r) <=> (Ending(s) \/ (m.type = "FILE_DATA" /\ m.last))
  BY <1>1 DEF Ending, n
<1>6. LastIsLast(r) <=> (LastIsLast(s) /\ (m.type = "FILE_DATA" => ~Ending(s)))
  BY <1>1 DEF LastIsLast, Ending, n
<1>7. StartsOnce(s) /\ (Starts(m) => ~Gives(s, "AcceptFileTransfer")) => StartsOnce(r)
  BY <1>1 DEF StartsOnce, Starts, Gives, n
<1> QED BY <1>2, <1>3, <1>4, <1>5, <1>6, <1>7 DEF r

\* ... and in one without its first.
LEMMA ShorterLine ==
  ASSUME NEW s \in Seq(Messages), s # <<>>
  PROVE  /\ \A type : Has(s, type) <=> (Has(Tail(s), type) \/ Head(s).type = type)
         /\ \A type : Once(s, type)
                        <=> (Once(Tail(s), type) /\ (Head(s).type = type => ~Has(Tail(s), type)))
         /\ \A code : Gives(s, code)
                        <=> (Gives(Tail(s), code)
                               \/ (Head(s).type = "STATUS" /\ Head(s).code = code))
         /\ StartsOnce(s) => /\ StartsOnce(Tail(s))
                             /\ Starts(Head(s)) => ~Gives(Tail(s), "AcceptFileTransfer")
         /\ Ending(s) <=> (Ending(Tail(s)) \/ (Head(s).type = "FILE_DATA" /\ Head(s).last))
         /\ LastIsLast(s)
              <=> /\ LastIsLast(Tail(s))
                  /\ (Head(s).type = "FILE_DATA" /\ Head(s).last) => ~Has(Tail(s), "FILE_DATA")
<1> DEFINE r == Tail(s)
           n == Len(r)
           m == Head(s)
<1>1. /\ n \in Nat /\ Len(s) = n + 1 /\ s[1] = m /\ (\A i \in 1..n : s[i + 1] = r[i])
      /\ \A i \in 1..(n + 1) : i = 1 \/ \E k \in 1..n : i = k + 1
      /\ \A i, j \in 1..n : (i < j <=> i + 1 < j + 1) /\ (i = j <=> i + 1 = j + 1)
      /\ \A i \in 1..n : i + 1 \in 1..(n + 1) /\ 1 < i + 1 /\ ~(i + 1 < 1) /\ i + 1 # 1
      /\ 1 \in 1..(n + 1) /\ ~(1 < 1)
  <2>1. \A i \in 1..(n + 1) : i # 1 => i - 1 \in 1..n /\ i = (i - 1) + 1
    OBVIOUS
  <2> QED BY <2>1
<1> HIDE DEF r, n, m
<1>2. ASSUME NEW type
      PROVE  Has(s, type) <=> (Has(r, type) \/ m.type = type)
  <2>1. Has(r, type) => Has(s, type)
    BY <1>1 DEF Has, n
  <2>2. Has(s, type) /\ m.type # type => Has(r, type)
    <3> SUFFICES ASSUME NEW i \in 1..(n + 1), s[i].type = type, m.type # type
                 PROVE  Has(r, type)
      BY <1>1 DEF Has
    <3>1. PICK k \in 1..n : i = k + 1
      BY <1>1
    <3> QED BY <1>1, <3>1 DEF Has, n
  <2>3. m.type = type => Has(s, type)
    BY <1>1 DEF Has
  <2> QED BY <2>1, <2>2, <2>3
<1>3. ASSUME NEW type
      PROVE  Once(s, type) <=> (Once(r, type) /\ (m.type = type => ~Has(r, type)))
  <2>1. Once(s, type) => Once(r, type)
    <3> SUFFICES ASSUME Once(s, type), NEW i \in 1..n, NEW j \in 1..n,
                        r[i].type = type, r[j].type = type
                 PROVE  i = j
      BY DEF Once, n
    <3>1. i + 1 = j + 1
      BY <1>1 DEF Once
    <3> QED BY <1>1, <3>1
  <2>2. Once(s, type) /\ m.type = type => ~Has(r, type)
    <3> SUFFICES ASSUME Once(s, type), m.type = type, NEW i \in 1..n, r[i].type = type
                 PROVE  FALSE
      BY DEF Has, n
    <3> QED BY <1>1 DEF Once
  <2>3. (Once(r, type) /\ (m.type = type => ~Has(r, type))) => Once(s, type)
    <3> SUFFICES ASSUME Once(r, type), m.type = type => ~Has(r, type),
                        NEW i \in 1..(n + 1), NEW j \in 1..(n + 1),
                        s[i].type = type, s[j].type = type
                 PROVE  i = j
      BY <1>1 DEF Once
    <3>1. CASE i = 1 /\ j = 1
      BY <3>1
    <3>2. CASE \E k \in 1..n : i = k + 1 \/ j = k + 1
      <4>1. Has(r, type)
        BY <1>1, <3>2 DEF Has, n
      <4>2. PICK k \in 1..n, l \in 1..n : i = k + 1 /\ j = l + 1
        BY <1>1, <4>1
      <4> QED BY <1>1, <4>2 DEF Once, n
    <3> QED BY <1>1, <3>1, <3>2
  <2> QED BY <2>1, <2>2, <2>3
<1>4. ASSUME NEW code
      PROVE  Gives(s, code) <=> (Gives(r, code) \/ (m.type = "STATUS" /\ m.code = code))
  BY <1>1 DEF Gives, n
<1>5. Ending(s) <=> (Ending(r) \/ (m.type = "FILE_DATA" /\ m.last))
  BY <1>1 DEF Ending, n
<1>6. LastIsLast(s) <=> (LastIsLast(r) /\ ((m.type = "FILE_DATA" /\ m.last) => ~Has(r, "FILE_DATA")))
  <2>1. LastIsLast(s) => LastIsLast(r)
    <3> SUFFICES ASSUME LastIsLast(s), NEW i \in 1..n, NEW j \in 1..n, i < j,
                        r[i].type = "FILE_DATA", r[i].last
                 PROVE  r[j].type # "FILE_DATA"
      BY DEF LastIsLast, n
    <3>1. i + 1 \in 1..Len(s) /\ j + 1 \in 1..Len(s) /\ i + 1 < j + 1
          /\ s[i + 1] = r[i] /\ s[j + 1] = r[j]
      BY <1>1
    <3> QED BY <3>1 DEF LastIsLast
  <2>2. (LastIsLast(s) /\ m.type = "FILE_DATA" /\ m.last) => ~Has(r, "FILE_DATA")
    <3> SUFFICES ASSUME LastIsLast(s), m.type = "FILE_DATA", m.last, NEW j \in 1..n
                 PROVE  r[j].type # "FILE_DATA"
      BY DEF Has, n
    <3> QED BY <1>1 DEF LastIsLast
  <2>3. (LastIsLast(r) /\ ((m.type = "FILE_DATA" /\ m.last) => ~Has(r, "FILE_DATA")))
          => LastIsLast(s)
    <3> SUFFICES ASSUME LastIsLast(r), (m.type = "FILE_DATA" /\ m.last) => ~Has(r, "FILE_DATA"),
                        NEW i \in 1..(n + 1), NEW j \in 1..(n + 1), i < j,
                        s[i].type = "FILE_DATA", s[i].last
                 PROVE  s[j].type # "FILE_DATA"
      BY <1>1 DEF LastIsLast
    <3>1. PICK l \in 1..n : j = l + 1
      BY <1>1
    <3>2. CASE i = 1
      BY <1>1, <3>1, <3>2 DEF Has, n
    <3>3. ASSUME NEW k \in 1..n, i = k + 1
          PROVE  s[j].type # "FILE_DATA"
      BY <1>1, <3>1, <3>3 DEF LastIsLast, n
    <3> QED BY <1>1, <3>2, <3>3
  <2> QED BY <2>1, <2>2, <2>3
<1>7. StartsOnce(s) => StartsOnce(r) /\ (Starts(m) => ~Gives(r, "AcceptFileTransfer"))
  <2> SUFFICES ASSUME StartsOnce(s)
               PROVE  StartsOnce(r) /\ (Starts(m) => ~Gives(r, "AcceptFileTransfer"))
    OBVIOUS
  <2>1. ASSUME NEW i \in 1..n, NEW j \in 1..n, Starts(r[i]), Starts(r[j]) PROVE i = j
    <3>1. i + 1 = j + 1
      BY <1>1, <2>1 DEF StartsOnce
    <3> QED BY <1>1, <3>1
  <2>2. ASSUME Starts(m), NEW i \in 1..n PROVE ~Starts(r[i])
    BY <1>1, <2>2 DEF StartsOnce
  <2> QED BY <2>1, <2>2 DEF StartsOnce, Gives, Starts, n
<1> QED BY <1>2, <1>3, <1>4, <1>5, <1>6, <1>7 DEF r, m

-----------------------------------------------------------------------------
(* What is on its way.                                                     *)

\* The client's program has not ended, or not begun.  See Current, and Served for
\* the session: what is on its way from and to one that has ended matters to nobody.

\* On its way to the server: a message of that type, an answer, the last block.
Goes(c, type) == Served(c) /\ Has(Outgoing(c), type)
Says(c, code) == Served(c) /\ Gives(Outgoing(c), code)
Closes(c) == Served(c) /\ Ending(Outgoing(c))
OutTidy(c) ==
  Served(c) => /\ Once(Outgoing(c), "FILE_REQUEST")
               /\ Once(Outgoing(c), "STATUS")
               /\ LastIsLast(Outgoing(c))

\* On its way to the client: a message of that type, a status, the last block.
Comes(c, type) == Current(c) /\ Has(ToCome(c), type)
Tells(c, code) == Current(c) /\ Gives(ToCome(c), code)
Concludes(c) == Current(c) /\ Ending(ToCome(c))
InTidy(c) ==
  Current(c) => Once(ToCome(c), "FILE_REQUEST") /\ LastIsLast(ToCome(c))
OneStart(c) == Current(c) => StartsOnce(ToCome(c))

-----------------------------------------------------------------------------
(* The server disconnects nobody.                                          *)

\* After BYE a client says nothing that changes the state of its session.
ByeIsLast(line) ==
  \A i, j \in 1..Len(line) :
      (i < j /\ line[i].type = "BYE") => line[j].type \notin {"BYE", "NICKNAME"}

\* HELLO is the first message of a line, and only that.
BeginsWithHello(line) ==
  line # <<>> /\ Head(line).type = "HELLO" /\ ~Has(Tail(line), "HELLO")

\* What a client has to say to a session fits the state of the session.
LoginFits(c) ==
  /\ serverEnd[c] = "idle" => state[c] = "start"
  /\ clientStatus[c] = "idle" => Outgoing(c) = <<>> /\ state[c] = "start"
  /\ Served(c) =>
       /\ ~disconnectionFlag[c]
       /\ (clientStatus[c] # "idle" /\ state[c] = "start") => BeginsWithHello(Outgoing(c))
       /\ state[c] # "start" => ~Has(Outgoing(c), "HELLO")
       /\ ByeIsLast(Outgoing(c))
       /\ Has(Outgoing(c), "BYE") => clientFlag[c]
       /\ state[c] = "invalid" => /\ clientFlag[c]
                                  /\ ~Has(Outgoing(c), "BYE")
                                  /\ ~Has(Outgoing(c), "NICKNAME")

LoginInv == \A c \in Clients : LoginFits(c)

-----------------------------------------------------------------------------
(* Who knows what of the transfer.                                         *)

\* The user of c has asked to send the file.
Owner(c) == \E file \in Files : <<c, file>> \in requested

\* Who is not registered and has not been: nobody has asked or told it anything.
Stranger(c) == c \notin sessions /\ (Current(c) \/ Served(c))

StrangeFits(c) ==
  Stranger(c) => /\ ToCome(c) = <<>>
                 /\ task[c] # "asking"
                 /\ ~transfer[c].hasFileTransferStarted
                 /\ ~transfer[c].isReceivingFile
                 /\ ~isFileTransferSender[c]
                 /\ fileTransferStatus[c] = "FileTransferCanceled"
                 /\ ~Goes(c, "STATUS")

StrangerInv == \A c \in Clients : StrangeFits(c)

\* The steps of a session's handlers between a message of a transfer and its end.
Deciding == {"answering", "scanning", "flagging", "accepting", "resetting"}
Verdicts == Answers \cup {"FileTransferCanceled"}

\* Nothing of a transfer is known to the server, or has been told to anybody.
UntouchedBy(c) ==
  /\ ~Comes(c, "FILE_REQUEST") /\ ~Comes(c, "FILE_DATA")
  /\ \A code \in Verdicts : ~Tells(c, code)
  /\ Current(c) => task[c] # "asking" /\ ~transfer[c].isReceivingFile
  /\ ~transfer[c].hasFileTransferStarted
  /\ ~Goes(c, "STATUS") /\ ~Goes(c, "FILE_DATA")
  /\ fileTransferStatus[c] = "FileTransferCanceled"
  /\ ~isFileTransferSender[c]
  /\ pc[c] \notin Deciding

Untouched == ~fileTransferModeActive /\ \A c \in Clients : UntouchedBy(c)

\* The request is made once, and until the server announces it all is untouched.
RequestFits(c) ==
  /\ Goes(c, "FILE_REQUEST") \/ pc[c] = "requesting" => Owner(c) /\ Untouched
  /\ pc[c] = "requesting" => ~Goes(c, "FILE_REQUEST")
  /\ transfer[c].isSendingFile => Owner(c)
  /\ pc[c] \in {"flagging", "accepting", "resetting"} \/ isFileTransferSender[c] => Owner(c)
  /\ Goes(c, "FILE_DATA") => Owner(c)

RequestInv ==
  /\ \A c, d \in Clients : Owner(c) /\ Owner(d) => c = d
  /\ requested = {} => Untouched /\ \A c \in Clients : ~Owner(c)
  /\ \A c \in Clients : RequestFits(c)

\* The request is before its user, or on its way there.
Asked(c) == Current(c) /\ (task[c] = "asking" \/ Has(ToCome(c), "FILE_REQUEST"))

\* Whoever has answered is not asked, and its answer is in one place.
AnswerFits(c) ==
  /\ Current(c) /\ task[c] = "asking" => ~Comes(c, "FILE_REQUEST")
  /\ \/ fileTransferStatus[c] \in Answers
     \/ pc[c] \in {"answering", "scanning"}
     \/ Goes(c, "STATUS")
     => ~Asked(c)
  /\ Owner(c) => /\ ~Asked(c)
                 /\ Current(c) => ~transfer[c].isReceivingFile
                 /\ ~Goes(c, "STATUS")
                 /\ pc[c] \notin {"answering", "scanning"}
                 /\ fileTransferStatus[c] # "RejectFileTransfer"
  /\ pc[c] = "answering" => ~Goes(c, "STATUS") /\ hand[c].code \in Answers
  /\ (fileTransferStatus[c] \in Answers \/ pc[c] = "scanning") /\ ~Owner(c)
       => ~Goes(c, "STATUS") /\ pc[c] # "answering"
  /\ pc[c] = "scanning" => fileTransferStatus[c] \in Answers
  /\ fileTransferStatus[c] \in Verdicts

AnswerInv == \A c \in Clients : AnswerFits(c)

\* The sender may start, knows that it may, or has sent blocks.
MayStart(c) == Tells(c, "AcceptFileTransfer") \/ transfer[c].hasFileTransferStarted
Decided(c) == MayStart(c) \/ Goes(c, "FILE_DATA")

\* Then everybody else has answered, and the server knows the answers.
VerdictFits(c) ==
  Decided(c) =>
    /\ Owner(c)
    /\ \A d \in Clients \ {c} :
          Current(d) => ~Asked(d) /\ ~Goes(d, "STATUS") /\ pc[d] # "answering"

VerdictInv == \A c \in Clients : VerdictFits(c)

\* The server keeps the transfer until it has the last block.
HoldFits(c) ==
  /\ c \in sessions /\ transfer[c].isSendingFile /\ MayStart(c)
       => fileTransferModeActive /\ isFileTransferSender[c]
  /\ Closes(c) => ~transfer[c].isSendingFile
  /\ c \in sessions /\ (isFileTransferSender[c] \/ pc[c] = "flagging")
       => fileTransferModeActive

HoldInv == \A c \in Clients : HoldFits(c)

\* The sender has sent all, and the server has it.
Done ==
  \A c \in Clients : Owner(c) => ~Goes(c, "FILE_DATA")
                                 /\ (Current(c) => ~transfer[c].isSendingFile)

\* The user of c has said yes, as the server knows or will know.
Accepted(c) ==
  \/ fileTransferStatus[c] = "AcceptFileTransfer"
  \/ pc[c] = "answering" /\ hand[c].code = "AcceptFileTransfer"
  \/ Says(c, "AcceptFileTransfer")

\* Blocks are on their way only to those who have accepted, and those receive them
\* until the last.
DataFits(c) ==
  /\ Comes(c, "FILE_DATA") => /\ fileTransferStatus[c] = "AcceptFileTransfer"
                              /\ ~Owner(c)
                              /\ transfer[c].isReceivingFile
  /\ Current(c) /\ ~Owner(c) /\ Accepted(c) => transfer[c].isReceivingFile \/ Done
  /\ Concludes(c) => Done

DataInv == \A c \in Clients : DataFits(c)

TidyInv == \A c \in Clients : OutTidy(c) /\ InTidy(c)

-----------------------------------------------------------------------------
(* How a step moves the lines.                                             *)

\* readData() of a client takes the first message of its line.
LEMMA TakesLines ==
  ASSUME MessengerInv, UNCHANGED serverVars, NEW c \in Clients, NEW type, Takes(c, type),
         UNCHANGED clientQueue
  PROVE  /\ ToCome(c) # <<>> /\ Head(ToCome(c)) = Received(c) /\ Received(c).type = type
         /\ ToCome(c)' = Tail(ToCome(c)) /\ Current(c) /\ task[c] = "poll"
         /\ \A e \in Clients \ {c} : ToCome(e)' = ToCome(e)
         /\ \A e \in Clients : Outgoing(e)' = Outgoing(e) /\ serverEnd'[e] = serverEnd[e]
<1>1. /\ UNCHANGED <<toServer, serverEnd, sendingQueue>> /\ ClientRuns(c) /\ task[c] = "poll"
      /\ toClient[c] # <<>> /\ Received(c).type = type
      /\ toClient' = [toClient EXCEPT ![c] = Tail(@)]
  BY DEF Takes, serverVars, sessionVars
<1>2. toClient \in [Clients -> Seq(Messages)]
  BY DEF MessengerInv, ClientTypeOK, NetworkTypeOK
<1>3. /\ ToCome(c) # <<>> /\ Head(ToCome(c)) = Head(toClient[c])
      /\ ToCome(c)' = Tail(ToCome(c))
  BY <1>1, <1>2, LinesType, LineTaken DEF ToCome
<1>4. \A e \in Clients \ {c} : ToCome(e)' = ToCome(e)
  BY <1>1, <1>2 DEF ToCome
<1> QED BY <1>1, <1>3, <1>4 DEF Outgoing, Received, Current, ClientRuns

\* sendMessage() of a client adds one to its line, or drops it.
LEMMA QueuesLines ==
  ASSUME MessengerInv, UNCHANGED serverVars, NEW c \in Clients, NEW m \in Messages, Queues(c, m),
         UNCHANGED <<toServer, toClient, serverEnd>>
  PROVE  /\ Outgoing(c)' = Outgoing(c) \/ Outgoing(c)' = Append(Outgoing(c), m)
         /\ CanSend(clientQueue[c]) => Outgoing(c)' = Append(Outgoing(c), m)
         /\ \A e \in Clients \ {c} : Outgoing(e)' = Outgoing(e)
         /\ \A e \in Clients : ToCome(e)' = ToCome(e) /\ serverEnd'[e] = serverEnd[e]
<1>1. clientQueue \in [Clients -> Seq(Messages)] /\ UNCHANGED sendingQueue
  BY DEF MessengerInv, ClientTypeOK, serverVars, sessionVars
<1>2. clientQueue'[c] = Push(clientQueue[c], m)
  BY <1>1 DEF Queues
<1>3. /\ Outgoing(c)' = Outgoing(c) \/ Outgoing(c)' = Append(Outgoing(c), m)
      /\ CanSend(clientQueue[c]) => Outgoing(c)' = Append(Outgoing(c), m)
  <2>1. toServer[c] \o Append(clientQueue[c], m) = Append(Outgoing(c), m)
    BY LinesType, LinePushed DEF Outgoing
  <2> QED BY <1>2, <2>1 DEF Outgoing, Push
<1> QED BY <1>1, <1>3 DEF Queues, Outgoing, ToCome

\* writeData() of a client leaves its line as it is, unless nobody reads it.
LEMMA WritesLines ==
  ASSUME MessengerInv, UNCHANGED serverVars, NEW c \in Clients,
         ClientWrites(c) \/ ClientWritesInVain(c) \/ ClientEnds(c)
  PROVE  /\ \A e \in Clients : Served(e)' => Served(e)
         /\ \A e \in Clients : Served(e)' => Outgoing(e)' = Outgoing(e)
         /\ \A e \in Clients : ToCome(e)' = ToCome(e)
         /\ \A e \in Clients \ {c} : Outgoing(e)' = Outgoing(e)
         /\ \A e \in Clients : serverEnd'[e] = "idle" => serverEnd[e] = "idle"
         /\ \A e \in Clients : Current(e)' => Current(e)
<1>0. /\ clientQueue \in [Clients -> Seq(Messages)] /\ toServer \in [Clients -> Seq(Messages)]
      /\ serverEnd \in [Clients -> Ends] /\ DOMAIN clientStatus = Clients
  BY DEF MessengerInv, ClientTypeOK, NetworkTypeOK
<1>1. UNCHANGED <<sendingQueue, toClient>>
  BY DEF serverVars, sessionVars, ClientWrites, ClientWritesInVain, ClientEnds
<1>2. \A e \in Clients : ToCome(e)' = ToCome(e)
  BY <1>1 DEF ToCome
<1>3. \A e \in Clients : Current(e)' => Current(e)
  <2>1. \/ UNCHANGED clientStatus
        \/ \E how \in {"ended", "sigpipe"} : clientStatus' = [clientStatus EXCEPT ![c] = how]
    BY DEF ClientWrites, ClientWritesInVain, ClientEnds
  <2> QED BY <1>0, <2>1 DEF Current
<1>4. CASE ClientWrites(c)
  <2>1. /\ clientQueue[c] # <<>> /\ UNCHANGED serverEnd
        /\ toServer' = [toServer EXCEPT ![c] = Append(@, Head(clientQueue[c]))]
        /\ clientQueue' = [clientQueue EXCEPT ![c] = Tail(@)]
    BY <1>4 DEF ClientWrites
  <2>2. Outgoing(c)' = Outgoing(c)
    <3>1. /\ toServer'[c] = Append(toServer[c], Head(clientQueue[c]))
          /\ clientQueue'[c] = Tail(clientQueue[c])
      BY <1>0, <2>1
    <3> QED BY <2>1, <3>1, LinesType, LineMoved DEF Outgoing
  <2>3. \A e \in Clients : Outgoing(e)' = Outgoing(e)
    BY <1>0, <2>1, <2>2 DEF Outgoing
  <2> QED BY <1>2, <1>3, <2>1, <2>3 DEF Served
<1>5. CASE ClientWritesInVain(c)
  <2>1. /\ UNCHANGED toServer /\ serverEnd[c] \in Gone
        /\ clientQueue' = [clientQueue EXCEPT ![c] = Tail(@)]
        /\ UNCHANGED serverEnd \/ \E end \in Gone : serverEnd' = [serverEnd EXCEPT ![c] = end]
    BY <1>5 DEF ClientWritesInVain
  <2>2. \A e \in Clients : Served(e)' => Served(e) /\ e # c
    BY <1>0, <2>1 DEF Served, Gone
  <2>3. \A e \in Clients \ {c} : Outgoing(e)' = Outgoing(e)
    BY <1>0, <2>1 DEF Outgoing
  <2>4. \A e \in Clients : serverEnd'[e] = "idle" => serverEnd[e] = "idle"
    BY <1>0, <2>1 DEF Gone
  <2> QED BY <1>2, <1>3, <2>2, <2>3, <2>4
<1>6. CASE ClientEnds(c)
  <2>1. UNCHANGED <<toServer, serverEnd, clientQueue>>
    BY <1>6 DEF ClientEnds
  <2> QED BY <1>2, <1>3, <2>1 DEF Outgoing, Served
<1> QED BY <1>4, <1>5, <1>6

\* readData() of a session takes the first message of its client's line.
LEMMA ReadsLines ==
  ASSUME MessengerInv, UNCHANGED clientVars, NEW c \in Clients, NEW type, Reads(c, type)
  PROVE  /\ Outgoing(c) # <<>> /\ Head(Outgoing(c)) = Incoming(c) /\ Incoming(c).type = type
         /\ Outgoing(c)' = Tail(Outgoing(c)) /\ c \in sessions /\ pc[c] = "poll" /\ Running
         /\ \A e \in Clients \ {c} : Outgoing(e)' = Outgoing(e)
<1>1. /\ toServer[c] # <<>> /\ Incoming(c).type = type /\ UNCHANGED clientQueue
      /\ toServer' = [toServer EXCEPT ![c] = Tail(@)]
      /\ c \in sessions /\ pc[c] = "poll" /\ Running
  BY DEF Reads, CanRead, clientVars
<1>2. toServer \in [Clients -> Seq(Messages)]
  BY DEF MessengerInv, ClientTypeOK, NetworkTypeOK
<1>3. /\ Outgoing(c) # <<>> /\ Head(Outgoing(c)) = Head(toServer[c])
      /\ Outgoing(c)' = Tail(Outgoing(c))
  BY <1>1, <1>2, LinesType, LineTaken DEF Outgoing
<1>4. \A e \in Clients \ {c} : Outgoing(e)' = Outgoing(e)
  BY <1>1, <1>2 DEF Outgoing
<1> QED BY <1>1, <1>3, <1>4 DEF Incoming

\* sendMessage() of a session adds one to the line to its client, or drops it.
LEMMA PushedLine ==
  ASSUME MessengerInv, UNCHANGED toClient, NEW c \in Clients, NEW m \in Messages,
         sendingQueue'[c] = Push(sendingQueue[c], m)
  PROVE  /\ ToCome(c)' = ToCome(c) \/ ToCome(c)' = Append(ToCome(c), m)
         /\ CanSend(sendingQueue[c]) => ToCome(c)' = Append(ToCome(c), m)
<1>1. toClient[c] \o Append(sendingQueue[c], m) = Append(ToCome(c), m)
  BY LinesType, LinePushed DEF ToCome
<1> QED BY <1>1 DEF ToCome, Push

-----------------------------------------------------------------------------
(* The server disconnects nobody: the proof.                               *)

\* One message more.
LEMMA LoginLonger ==
  ASSUME NEW s \in Seq(Messages), NEW m \in Messages
  PROVE  /\ (s # <<>> /\ BeginsWithHello(s) /\ m.type # "HELLO") => BeginsWithHello(Append(s, m))
         /\ (s = <<>> /\ m.type = "HELLO") => BeginsWithHello(Append(s, m))
         /\ (ByeIsLast(s) /\ (m.type \in {"BYE", "NICKNAME"} => ~Has(s, "BYE")))
              => ByeIsLast(Append(s, m))
<1>1. ASSUME s # <<>>, BeginsWithHello(s), m.type # "HELLO"
      PROVE  BeginsWithHello(Append(s, m))
  <2>1. /\ Append(s, m) # <<>> /\ Head(Append(s, m)) = Head(s)
        /\ Tail(Append(s, m)) = Append(Tail(s), m) /\ Tail(s) \in Seq(Messages)
    BY <1>1
  <2>2. Has(Append(Tail(s), m), "HELLO") <=> (Has(Tail(s), "HELLO") \/ m.type = "HELLO")
    BY <2>1, LongerLine
  <2>3. ~Has(Append(Tail(s), m), "HELLO") /\ Head(s).type = "HELLO"
    BY <1>1, <2>2 DEF BeginsWithHello
  <2> DEFINE r == Append(s, m)
             q == Append(Tail(s), m)
  <2>4. r # <<>> /\ Head(r) = Head(s) /\ Tail(r) = q
    BY <2>1
  <2> HIDE DEF r, q
  <2>5. BeginsWithHello(r)
    BY <2>3, <2>4 DEF BeginsWithHello, q
  <2> QED BY <2>5 DEF r
<1>2. ASSUME s = <<>>, m.type = "HELLO"
      PROVE  BeginsWithHello(Append(s, m))
  <2>1. Append(s, m) # <<>> /\ Head(Append(s, m)) = m /\ Tail(Append(s, m)) = <<>>
    BY <1>2
  <2> QED BY <1>2, <2>1, EmptyLine DEF BeginsWithHello
<1>3. ASSUME ByeIsLast(s), m.type \in {"BYE", "NICKNAME"} => ~Has(s, "BYE")
      PROVE  ByeIsLast(Append(s, m))
  <2> SUFFICES ASSUME NEW i \in 1..Len(Append(s, m)), NEW j \in 1..Len(Append(s, m)), i < j,
                      Append(s, m)[i].type = "BYE"
               PROVE  Append(s, m)[j].type \notin {"BYE", "NICKNAME"}
    BY DEF ByeIsLast
  <2>1. i \in 1..Len(s) /\ Append(s, m)[i] = s[i]
    OBVIOUS
  <2>2. CASE j \in 1..Len(s)
    BY <1>3, <2>1, <2>2 DEF ByeIsLast
  <2>3. CASE j = Len(s) + 1
    <3>1. Append(s, m)[j] = m /\ Has(s, "BYE")
      BY <2>1, <2>3 DEF Has
    <3> QED BY <1>3, <3>1
  <2> QED BY <2>2, <2>3
<1> QED BY <1>1, <1>2, <1>3

\* The first message less.
LEMMA LoginShorter ==
  ASSUME NEW s \in Seq(Messages), s # <<>>, ByeIsLast(s)
  PROVE  /\ ByeIsLast(Tail(s))
         /\ Head(s).type = "BYE" => ~Has(Tail(s), "BYE") /\ ~Has(Tail(s), "NICKNAME")
<1>1. /\ \A i \in 1..Len(Tail(s)) : i + 1 \in 1..Len(s) /\ Tail(s)[i] = s[i + 1] /\ 1 < i + 1
      /\ \A i, j \in 1..Len(Tail(s)) : i < j => i + 1 < j + 1
      /\ 1 \in 1..Len(s) /\ Head(s) = s[1]
  OBVIOUS
<1>2. ByeIsLast(Tail(s))
  <2> SUFFICES ASSUME NEW i \in 1..Len(Tail(s)), NEW j \in 1..Len(Tail(s)), i < j,
                      Tail(s)[i].type = "BYE"
               PROVE  Tail(s)[j].type \notin {"BYE", "NICKNAME"}
    BY DEF ByeIsLast
  <2> QED BY <1>1 DEF ByeIsLast
<1>3. ASSUME Head(s).type = "BYE"
      PROVE  ~Has(Tail(s), "BYE") /\ ~Has(Tail(s), "NICKNAME")
  BY <1>1, <1>3 DEF ByeIsLast, Has
<1> QED BY <1>2, <1>3

\* What LoginFits looks at besides the line.
LoginKept(c) ==
  /\ Served(c)' => Served(c) /\ disconnectionFlag'[c] = disconnectionFlag[c]
  /\ serverEnd'[c] = "idle" => serverEnd[c] = "idle"
  /\ clientStatus'[c] = "idle" <=> clientStatus[c] = "idle"

\* The line is as it was.
LEMMA LoginUnmoved ==
  ASSUME NEW c \in Clients, LoginFits(c), LoginKept(c), state'[c] = state[c],
         clientFlag'[c] = clientFlag[c],
         Served(c)' \/ clientStatus[c] = "idle" => Outgoing(c)' = Outgoing(c)
  PROVE  LoginFits(c)'
BY DEF LoginFits, LoginKept

\* The client says one thing more, and knows what it must not say.
LEMMA LoginSays ==
  ASSUME MessengerInv, NEW c \in Clients, LoginFits(c), LoginKept(c), state'[c] = state[c],
         clientStatus[c] # "idle", NEW m \in Messages, m.type # "HELLO",
         clientFlag[c] => clientFlag'[c],
         m.type \in {"BYE", "NICKNAME"} => ~clientFlag[c],
         m.type = "BYE" => clientFlag'[c],
         Outgoing(c)' = Outgoing(c) \/ Outgoing(c)' = Append(Outgoing(c), m)
  PROVE  LoginFits(c)'
<1>1. CASE Outgoing(c)' = Outgoing(c)
  BY <1>1 DEF LoginFits, LoginKept
<1>2. CASE Outgoing(c)' = Append(Outgoing(c), m)
  <2>1. Outgoing(c) \in Seq(Messages)
    BY LinesType
  <2>2. ASSUME Served(c)'
        PROVE  /\ ~disconnectionFlag'[c]
               /\ state'[c] = "start" => BeginsWithHello(Outgoing(c)')
               /\ state'[c] # "start" => ~Has(Outgoing(c)', "HELLO")
               /\ ByeIsLast(Outgoing(c)')
               /\ Has(Outgoing(c)', "BYE") => clientFlag'[c]
               /\ state'[c] = "invalid" => /\ clientFlag'[c]
                                           /\ ~Has(Outgoing(c)', "BYE")
                                           /\ ~Has(Outgoing(c)', "NICKNAME")
    <3>1. Served(c) /\ disconnectionFlag'[c] = disconnectionFlag[c]
      BY <2>2 DEF LoginKept
    <3>2. state'[c] = "start" => BeginsWithHello(Outgoing(c)')
      BY <1>2, <2>1, <3>1, LoginLonger DEF LoginFits, BeginsWithHello
    <3>3. ByeIsLast(Outgoing(c)')
      BY <1>2, <2>1, <3>1, LoginLonger DEF LoginFits
    <3>4. \A type : Has(Outgoing(c)', type) <=> (Has(Outgoing(c), type) \/ m.type = type)
      BY <1>2, <2>1, LongerLine
    <3> QED BY <3>1, <3>2, <3>3, <3>4 DEF LoginFits
  <2> QED BY <2>2 DEF LoginFits, LoginKept
<1> QED BY <1>1, <1>2

\* The session reads the first message of the line, and it is in order.
LEMMA LoginReads ==
  ASSUME SystemInv, LoginInv, UNCHANGED clientVars, NEW c \in Clients, NEW type,
         Reads(c, type), UNCHANGED serverEnd,
         IF type \in {"HELLO", "NICKNAME", "BYE"}
         THEN CheckSessionStateChange(c, type)
         ELSE UNCHANGED <<state, disconnectionFlag>>
  PROVE  LoginInv'
<1>0. /\ state \in [Clients -> States] /\ disconnectionFlag \in [Clients -> BOOLEAN]
      /\ UNCHANGED <<clientStatus, clientFlag>> /\ MessengerInv
  BY DEF SystemInv, MessengerInv, TypeInv, TypeOK, clientVars
<1>1. /\ Outgoing(c) # <<>> /\ Head(Outgoing(c)).type = type
      /\ Outgoing(c)' = Tail(Outgoing(c))
      /\ \A e \in Clients \ {c} : Outgoing(e)' = Outgoing(e)
      /\ c \in sessions /\ Running
  BY <1>0, ReadsLines
<1>2. /\ LoginFits(c) /\ Outgoing(c) \in Seq(Messages) /\ clientStatus[c] # "idle"
      /\ serverEnd[c] = "open" /\ Served(c)
  <2>1. serverEnd[c] = "open"
    BY <1>1 DEF SystemInv, IInv, ThreadsInv, SessionsHaveThreads
  <2> QED BY <1>0, <1>1, <2>1, LinesType, EmptyLine DEF LoginInv, LoginFits, Served, Gone
<1>3. /\ \A t : Has(Outgoing(c), t) <=> (Has(Outgoing(c)', t) \/ type = t)
      /\ ByeIsLast(Outgoing(c)')
      /\ type = "BYE" => ~Has(Outgoing(c)', "BYE") /\ ~Has(Outgoing(c)', "NICKNAME")
  BY <1>1, <1>2, ShorterLine, LoginShorter DEF LoginFits
<1>4. state[c] = "start" => type = "HELLO" /\ ~Has(Outgoing(c)', "HELLO")
  BY <1>1, <1>2 DEF LoginFits, BeginsWithHello
<1>5. type \in {"HELLO", "NICKNAME", "BYE"} => InOrder(c, type)
  BY <1>0, <1>2, <1>3, <1>4 DEF LoginFits, InOrder, ExpectedStates, States
<1>6. /\ disconnectionFlag' = disconnectionFlag
      /\ state' = [state EXCEPT ![c] = IF type \in {"HELLO", "NICKNAME", "BYE"}
                                       THEN NextState[type] ELSE @]
  BY <1>0, <1>5 DEF CheckSessionStateChange
<1>7. ASSUME NEW e \in Clients, e # c
      PROVE  LoginFits(e)'
  <2>1. LoginFits(e) /\ Outgoing(e)' = Outgoing(e) /\ state'[e] = state[e] /\ LoginKept(e)
    BY <1>0, <1>1, <1>6, <1>7 DEF LoginInv, LoginKept, Served
  <2> QED BY <1>0, <2>1, LoginUnmoved
<1>8. LoginFits(c)'
  <2>1. Served(c)' /\ serverEnd'[c] = serverEnd[c] /\ clientStatus'[c] # "idle"
        /\ ~disconnectionFlag'[c] /\ clientFlag'[c] = clientFlag[c]
    BY <1>0, <1>2, <1>6 DEF Served, LoginFits
  <2>2. serverEnd[c] # "idle"
    BY <1>2
  <2>3. CASE type \notin {"HELLO", "NICKNAME", "BYE"}
    BY <1>0, <1>2, <1>3, <1>4, <1>6, <2>1, <2>2, <2>3 DEF LoginFits
  <2>4. CASE type \in {"HELLO", "NICKNAME", "BYE"}
    <3>1. state'[c] = NextState[type]
      BY <1>0, <1>6, <2>4
    <3> QED BY <1>2, <1>3, <1>4, <2>1, <2>2, <2>4, <3>1 DEF LoginFits, NextState
  <2> QED BY <2>3, <2>4
<1> QED BY <1>7, <1>8 DEF LoginInv

\* No line moves.
LEMMA LoginRests ==
  ASSUME LoginInv, UNCHANGED <<toServer, clientVars, state>>, \A e \in Clients : LoginKept(e)
  PROVE  LoginInv'
<1>1. \A e \in Clients : Outgoing(e)' = Outgoing(e)
  BY DEF Outgoing, clientVars
<1>2. UNCHANGED clientFlag
  BY DEF clientVars
<1> QED BY <1>1, <1>2, LoginUnmoved DEF LoginInv

\* The process dies.
LEMMA LoginDies ==
  ASSUME MessengerInv, LoginInv, UNCHANGED <<toServer, clientVars, state, disconnectionFlag>>,
         NEW cause, Dies(cause)
  PROVE  LoginInv'
<1>0. /\ TypeOK /\ serverEnd \in [Clients -> Ends] /\ UNCHANGED clientStatus
  BY DEF MessengerInv, TypeInv, TypeOK, NetworkTypeOK, clientVars
<1>1. ASSUME NEW e \in Clients PROVE LoginKept(e)
  <2>1. Served(e)' => Served(e)
    BY <1>0, DeathServes
  <2>2. serverEnd'[e] = "idle" => serverEnd[e] = "idle"
    BY <1>0 DEF Dies, AfterClose
  <2> QED BY <1>0, <2>1, <2>2 DEF LoginKept
<1> QED BY <1>1, LoginRests

\* The handlers but those of HELLO, NICKNAME and BYE change no state.
LEMMA HandlersLogin ==
  ASSUME SystemInv, LoginInv, UNCHANGED clientVars, NEW c \in Clients, HandlerStep(c)
  PROVE  LoginInv'
<1>0. UNCHANGED serverEnd
  BY HandlersLeaveClients
<1>1. CASE ReceiveHello(c)
  BY <1>0, <1>1, LoginReads DEF ReceiveHello
<1>2. CASE ReceiveBye(c)
  BY <1>0, <1>2, LoginReads DEF ReceiveBye
<1>3. CASE ReceiveNickname(c)
  BY <1>0, <1>3, LoginReads DEF ReceiveNickname
<1>4. CASE ReceiveChat(c)
  <2>1. Reads(c, "CHAT") /\ UNCHANGED <<state, disconnectionFlag>>
    BY <1>4 DEF ReceiveChat, LoginIdle
  <2> QED BY <1>0, <2>1, LoginReads
<1>5. CASE ReceiveStatus(c)
  <2>1. Reads(c, "STATUS") /\ UNCHANGED <<state, disconnectionFlag>>
    BY <1>5 DEF ReceiveStatus, LoginIdle
  <2> QED BY <1>0, <2>1, LoginReads
<1>6. CASE ReceiveFileRequest(c)
  <2>1. Reads(c, "FILE_REQUEST") /\ UNCHANGED <<state, disconnectionFlag>>
    BY <1>6 DEF ReceiveFileRequest, LoginIdle
  <2> QED BY <1>0, <2>1, LoginReads
<1>7. CASE ReceiveFileData(c)
  <2>1. Reads(c, "FILE_DATA") /\ UNCHANGED <<state, disconnectionFlag>>
    BY <1>7 DEF ReceiveFileData, LoginIdle
  <2> QED BY <1>0, <2>1, LoginReads
<1>8. CASE \/ Rename(c) \/ SaveAnswer(c) \/ ScanAnswers(c) \/ AnnounceTransfer(c)
           \/ FlagSender(c) \/ AcceptOwnTransfer(c) \/ ResetStatus(c)
  <2>1. UNCHANGED <<toServer, state, disconnectionFlag>>
    BY <1>8 DEF Rename, SaveAnswer, ScanAnswers, AnnounceTransfer, FlagSender, AcceptOwnTransfer,
                ResetStatus, LoginIdle
  <2>2. \A e \in Clients : LoginKept(e)
    BY <1>0, <2>1 DEF LoginKept, Served, clientVars
  <2> QED BY <2>1, <2>2, LoginRests
<1> QED BY <1>1, <1>2, <1>3, <1>4, <1>5, <1>6, <1>7, <1>8 DEF HandlerStep

\* And no other step of the server does.
LEMMA ServerLogin ==
  ASSUME SystemInv, LoginInv, UNCHANGED clientVars, ServerStep
  PROVE  LoginInv'
<1>0. /\ MessengerInv /\ serverEnd \in [Clients -> Ends] /\ state \in [Clients -> States]
      /\ disconnectionFlag \in [Clients -> BOOLEAN]
      /\ UNCHANGED <<clientStatus, clientFlag, clientQueue>>
  BY DEF SystemInv, MessengerInv, TypeInv, TypeOK, NetworkTypeOK, clientVars
<1>1. CASE Register
  <2>1. UNCHANGED <<toServer, serverEnd, state, disconnectionFlag>>
    BY <1>1 DEF Register, networkVars, sessionVars
  <2> QED BY <1>0, <2>1, LoginRests DEF LoginKept, Served
<1>2. ASSUME NEW c \in Clients, Accept(c) PROVE LoginInv'
  <2>1. /\ UNCHANGED <<toServer, disconnectionFlag>> /\ serverEnd[c] = "idle"
        /\ serverEnd' = [serverEnd EXCEPT ![c] = "open"]
        /\ state' = [state EXCEPT ![c] = "start"]
    BY <1>2 DEF Accept
  <2>2. state' = state
    BY <1>0, <2>1 DEF LoginInv, LoginFits
  <2>3. \A e \in Clients : LoginKept(e)
    BY <1>0, <2>1 DEF LoginKept, Served, Gone
  <2> QED BY <2>1, <2>2, <2>3, LoginRests
<1>3. ASSUME NEW c \in Clients, ReceiveUnknown(c) \/ WriteAfterReset(c) PROVE LoginInv'
  BY <1>0, <1>3, LoginDies DEF ReceiveUnknown, WriteAfterReset, sessionVars
<1>4. ASSUME NEW c \in Clients, HandlerStep(c) PROVE LoginInv'
  BY <1>4, HandlersLogin
<1>5. ASSUME NEW c \in Clients, Write(c) \/ WriteInVain(c) PROVE LoginInv'
  <2>1. UNCHANGED <<toServer, serverEnd, state, disconnectionFlag>>
    BY <1>5 DEF Write, WriteInVain, LoginIdle
  <2> QED BY <1>0, <2>1, LoginRests DEF LoginKept, Served
<1>6. ASSUME NEW c \in Clients, Leave(c) \/ Hangup(c) PROVE LoginInv'
  <2>1. RemoveSession(c) /\ UNCHANGED <<toServer, state>>
    BY <1>6 DEF Leave, Hangup
  <2>2. CASE c \notin sessions
    BY <1>0, <2>1, <2>2, LoginDies DEF RemoveSession
  <2>3. CASE c \in sessions
    <3>1. /\ serverEnd' = [serverEnd EXCEPT ![c] = AfterClose(toServer[c])]
          /\ disconnectionFlag' = [disconnectionFlag EXCEPT ![c] = TRUE]
      BY <2>1, <2>3 DEF RemoveSession
    <3>2. \A e \in Clients : LoginKept(e)
      BY <1>0, <3>1 DEF LoginKept, Served, AfterClose, Gone
    <3> QED BY <2>1, <3>2, LoginRests
  <2> QED BY <2>2, <2>3
<1> QED BY <1>1, <1>2, <1>3, <1>4, <1>5, <1>6 DEF ServerStep, SessionStep, HandlerStep

\* Who else than the client that takes a step is concerned.
LEMMA OthersLogin ==
  ASSUME LoginInv, UNCHANGED serverVars, NEW c \in Clients,
         \A e \in Clients : Served(e)' => Served(e),
         \A e \in Clients : serverEnd'[e] = "idle" => serverEnd[e] = "idle",
         \A e \in Clients \ {c} :
            /\ Outgoing(e)' = Outgoing(e)
            /\ clientStatus'[e] = clientStatus[e] /\ clientFlag'[e] = clientFlag[e],
         LoginFits(c)'
  PROVE  LoginInv'
<1>1. UNCHANGED <<state, disconnectionFlag>>
  BY DEF serverVars, sessionVars
<1>2. \A e \in Clients \ {c} : LoginFits(e)'
  BY <1>1, LoginUnmoved DEF LoginInv, LoginKept
<1> QED BY <1>2 DEF LoginInv

\* cycle() sends a block or does not, and after the last block it is done.
LEMMA CycleCases ==
  ASSUME SystemInv, NEW c \in Clients, Cycle(c)
  PROVE  \/ UNCHANGED <<clientQueue, transfer>>
         \/ /\ IsTransmitting(transfer[c]) /\ UNCHANGED clientQueue
            /\ \/ SetTransfer(c, NoTransfer)
               \/ \E h : SetTransfer(c, [transfer[c] EXCEPT !.handle = h])
         \/ /\ IsTransmitting(transfer[c])
            /\ \E m \in Messages :
                  /\ m.type = "FILE_DATA" /\ Queues(c, m)
                  /\ \/ SetTransfer(c, NoTransfer)
                     \/ /\ ~m.last
                        /\ \E h, n : SetTransfer(c, [transfer[c] EXCEPT !.handle = h,
                                                                        !.offset = n])
<1> DEFINE t == transfer[c]
           h == IF t.handle.mode = "closed"
                THEN [mode |-> "r", file |-> t.fileName, pos |-> 0]
                ELSE t.handle
           file == IF h.file = NoFile THEN Absent ELSE disk[c][h.file]
           block == BlockAt(h, file)
           m == FileData(t.offset, block.content, block.last)
<1>1. /\ t \in Transfers /\ disk[c] \in [Files -> FileContents \cup {Absent}]
  BY DEF SystemInv, MessengerInv, ClientTypeOK
<1>2. \/ UNCHANGED <<transfer, clientQueue>>
      \/ IsTransmitting(t) /\ SetTransfer(c, NoTransfer) /\ UNCHANGED clientQueue
      \/ IsTransmitting(t) /\ SetTransfer(c, [t EXCEPT !.handle = h]) /\ UNCHANGED clientQueue
      \/ /\ IsTransmitting(t) /\ file # Absent /\ Queues(c, m)
         /\ \/ block.last /\ SetTransfer(c, NoTransfer)
            \/ /\ ~block.last
               /\ SetTransfer(c, [t EXCEPT !.handle = [h EXCEPT !.pos = @ + 1], !.offset = @ + 1])
  BY DEF Cycle
<1>3. file # Absent => m \in Messages
  <2>1. h \in Handles /\ t.offset \in Nat
    BY <1>1, HandleType DEF Transfers
  <2>2. file \in FileContents \cup {Absent}
    BY <1>1, <2>1 DEF Handles
  <2> HIDE DEF h, file
  <2> QED BY <2>1, <2>2, BlockType, ClientMessages
<1>4. m.type = "FILE_DATA" /\ m.last = block.last
  BY DEF FileData
<1> HIDE DEF m, block, file, h
<1> QED BY <1>2, <1>3, <1>4

\* What clients say is in order.
LEMMA ClientLogin ==
  ASSUME SystemInv, LoginInv, UNCHANGED serverVars, NEW c \in Clients, ClientProgram(c)
  PROVE  LoginInv'
<1>0. /\ MessengerInv /\ UNCHANGED <<state, disconnectionFlag>>
      /\ clientStatus \in [Clients -> {"idle", "running", "ended", "fatal", "sigpipe"}]
      /\ clientFlag \in [Clients -> BOOLEAN]
  BY DEF SystemInv, MessengerInv, ClientTypeOK, serverVars, sessionVars
<1>1. LoginFits(c)
  BY DEF LoginInv
<1>2. ASSUME NEW type, Takes(c, type), UNCHANGED <<clientQueue, clientFlag>>,
             \/ UNCHANGED clientStatus
             \/ clientStatus' = [clientStatus EXCEPT ![c] = "fatal"]
      PROVE  LoginInv'
  <2>1. \A e \in Clients : Outgoing(e)' = Outgoing(e) /\ serverEnd'[e] = serverEnd[e]
    BY <1>0, <1>2, TakesLines
  <2>2. clientStatus[c] = "running" /\ clientStatus'[c] # "idle"
    BY <1>0, <1>2 DEF Takes, ClientRuns
  <2>3. \A e \in Clients \ {c} : clientStatus'[e] = clientStatus[e]
    BY <1>0, <1>2
  <2>4. LoginFits(c)'
    BY <1>0, <1>1, <1>2, <2>1, <2>2, LoginUnmoved DEF LoginKept, Served
  <2> QED BY <1>2, <2>1, <2>3, <2>4, OthersLogin DEF Served
<1>3. CASE TakesStatus(c)
  BY <1>2, <1>3 DEF TakesStatus, Aborts
<1>4. CASE TakesNickname(c) \/ TakesChat(c) \/ TakesBye(c) \/ TakesFileRequest(c) \/ TakesFileData(c)
  BY <1>2, <1>4 DEF TakesNickname, TakesChat, TakesBye, TakesFileRequest, TakesFileData
<1>5. CASE ClientWrites(c) \/ ClientWritesInVain(c) \/ ClientEnds(c)
  <2>1. /\ \A e \in Clients : Served(e)' => Served(e) /\ Outgoing(e)' = Outgoing(e)
        /\ \A e \in Clients \ {c} : Outgoing(e)' = Outgoing(e)
        /\ \A e \in Clients : serverEnd'[e] = "idle" => serverEnd[e] = "idle"
    BY <1>0, <1>5, WritesLines
  <2>2. UNCHANGED clientFlag /\ clientStatus[c] = "running" /\ clientStatus'[c] # "idle"
    BY <1>0, <1>5 DEF ClientWrites, ClientWritesInVain, ClientEnds, ClientRuns
  <2>3. \A e \in Clients \ {c} : clientStatus'[e] = clientStatus[e]
    BY <1>0, <1>5 DEF ClientWrites, ClientWritesInVain, ClientEnds
  <2>4. LoginFits(c)'
    BY <1>0, <1>1, <2>1, <2>2, LoginUnmoved DEF LoginKept
  <2> QED BY <2>1, <2>2, <2>3, <2>4, OthersLogin
<1>6. ASSUME NEW m \in Messages, Queues(c, m), UNCHANGED <<networkVars, clientStatus>>,
             clientStatus[c] # "idle", m.type # "HELLO",
             \A e \in Clients \ {c} : clientFlag'[e] = clientFlag[e],
             clientFlag[c] => clientFlag'[c],
             m.type \in {"BYE", "NICKNAME"} => ~clientFlag[c],
             m.type = "BYE" => clientFlag'[c]
      PROVE  LoginInv'
  <2>1. /\ Outgoing(c)' = Outgoing(c) \/ Outgoing(c)' = Append(Outgoing(c), m)
        /\ \A e \in Clients \ {c} : Outgoing(e)' = Outgoing(e)
        /\ \A e \in Clients : serverEnd'[e] = serverEnd[e]
    BY <1>0, <1>6, QueuesLines DEF networkVars
  <2>2. LoginKept(c) /\ state'[c] = state[c]
    BY <1>0, <1>6, <2>1 DEF LoginKept, Served
  <2>3. LoginFits(c)'
    BY <1>0, <1>1, <1>6, <2>1, <2>2, LoginSays
  <2> QED BY <1>6, <2>1, <2>3, OthersLogin DEF Served
<1>7. ASSUME UNCHANGED <<networkVars, clientStatus, clientQueue, clientFlag>>
      PROVE  LoginInv'
  <2>1. \A e \in Clients : Outgoing(e)' = Outgoing(e) /\ serverEnd'[e] = serverEnd[e]
    BY <1>7 DEF Outgoing, networkVars
  <2>2. LoginFits(c)'
    BY <1>0, <1>1, <1>7, <2>1, LoginUnmoved DEF LoginKept, Served
  <2> QED BY <1>7, <2>1, <2>2, OthersLogin DEF Served
<1>8. CASE ClientConnects(c)
  <2>1. /\ clientStatus[c] = "idle" /\ clientStatus' = [clientStatus EXCEPT ![c] = "running"]
        /\ Queues(c, Hello) /\ UNCHANGED <<toServer, toClient, serverEnd, clientFlag>>
    BY <1>8 DEF ClientConnects
  <2>2. Outgoing(c) = <<>> /\ state[c] = "start"
    BY <1>1, <2>1 DEF LoginFits
  <2>3. CanSend(clientQueue[c])
    <3>1. clientQueue[c] = <<>>
      BY <1>0, <2>2, LinesType DEF Outgoing
    <3> QED BY <3>1, QueueAssumption DEF CanSend
  <2>4. /\ Outgoing(c)' = Append(Outgoing(c), Hello)
        /\ \A e \in Clients \ {c} : Outgoing(e)' = Outgoing(e)
        /\ \A e \in Clients : serverEnd'[e] = serverEnd[e]
    BY <1>0, <2>1, <2>3, QueuesLines, ClientMessages
  <2>5. /\ BeginsWithHello(Outgoing(c)') /\ ByeIsLast(Outgoing(c)')
        /\ ~Has(Outgoing(c)', "BYE") /\ ~Has(Outgoing(c)', "NICKNAME")
    <3>1. Outgoing(c)' = <<Hello>> /\ Hello.type = "HELLO"
      BY <2>2, <2>4 DEF Hello
    <3>2. /\ Len(<<Hello>>) = 1 /\ <<Hello>>[1] = Hello /\ Head(<<Hello>>) = Hello
          /\ Tail(<<Hello>>) = <<>> /\ <<Hello>> # <<>>
      OBVIOUS
    <3>3. BeginsWithHello(<<Hello>>)
      BY <3>1, <3>2, EmptyLine DEF BeginsWithHello
    <3>4. /\ ByeIsLast(<<Hello>>)
          /\ ~Has(<<Hello>>, "BYE") /\ ~Has(<<Hello>>, "NICKNAME")
      BY <3>1, <3>2 DEF ByeIsLast, Has
    <3> QED BY <3>1, <3>3, <3>4
  <2>6. LoginFits(c)'
    <3>1. Served(c)' => Served(c)
      BY <2>4 DEF Served
    <3>2. clientStatus'[c] = "running" /\ state'[c] = "start"
      BY <1>0, <2>1, <2>2
    <3> QED BY <1>0, <1>1, <2>5, <3>1, <3>2 DEF LoginFits
  <2>7. \A e \in Clients \ {c} : clientStatus'[e] = clientStatus[e]
    BY <1>0, <2>1
  <2> QED BY <2>1, <2>4, <2>6, <2>7, OthersLogin DEF Served
<1>9. CASE Cycle(c)
  <2>1. UNCHANGED <<networkVars, clientStatus, clientFlag>> /\ clientStatus[c] # "idle"
    BY <1>9 DEF Cycle, ClientRuns
  <2>2. \/ UNCHANGED clientQueue
        \/ \E m \in Messages : m.type = "FILE_DATA" /\ Queues(c, m)
    BY <1>9, CycleCases
  <2> QED BY <1>0, <1>6, <1>7, <2>1, <2>2
<1>10. CASE UserAnswers(c)
  <2>1. UNCHANGED <<networkVars, clientStatus, clientFlag>> /\ clientStatus[c] # "idle"
    BY <1>10 DEF UserAnswers, ClientRuns
  <2>2. \E code \in StatusCodes : Queues(c, Status(code))
    BY <1>10 DEF UserAnswers, StatusCodes
  <2>3. \A code \in StatusCodes : Status(code) \in Messages /\ Status(code).type = "STATUS"
    BY MessageTypes DEF Status
  <2> QED BY <1>6, <2>1, <2>2, <2>3
<1>11. CASE TypesText(c)
  <2>1. UNCHANGED <<networkVars, clientStatus, clientFlag>> /\ clientStatus[c] # "idle"
    BY <1>11 DEF TypesText, AtPrompt, ClientRuns
  <2>2. /\ Queues(c, Chat(Anyone, <<c, typed[c] + 1>>)) /\ <<c, typed[c] + 1>> \in Texts
    BY <1>0, <1>11, TextsAssumption DEF TypesText, Texts, MessengerInv, ClientTypeOK
  <2>3. \A text \in Texts : Chat(Anyone, text) \in Messages /\ Chat(Anyone, text).type = "CHAT"
    BY MessageTypes, ClientMessages DEF Chat
  <2> QED BY <1>6, <2>1, <2>2, <2>3
<1>12. ASSUME NEW name \in TypedNames, TypesNickname(c, name) PROVE LoginInv'
  <2>1. /\ UNCHANGED <<networkVars, clientStatus, clientFlag>> /\ clientStatus[c] # "idle"
        /\ ~clientFlag[c] /\ Queues(c, Nickname(name))
    BY <1>12 DEF TypesNickname, AtPrompt, ClientRuns
  <2>2. Nickname(name) \in Messages /\ Nickname(name).type = "NICKNAME"
    BY MessageTypes DEF Nickname, Names
  <2> QED BY <1>6, <2>1, <2>2
<1>13. ASSUME NEW file \in Files, SendsFile(c, file) PROVE LoginInv'
  <2>1. /\ UNCHANGED <<networkVars, clientStatus, clientFlag>> /\ clientStatus[c] # "idle"
        /\ Queues(c, FileRequest(Anyone, file))
    BY <1>13 DEF SendsFile, ClientRuns
  <2>2. FileRequest(Anyone, file) \in Messages /\ FileRequest(Anyone, file).type = "FILE_REQUEST"
    BY MessageTypes, ClientMessages DEF FileRequest
  <2> QED BY <1>6, <2>1, <2>2
<1>14. CASE Quits(c)
  <2>1. /\ UNCHANGED <<networkVars, clientStatus>> /\ clientStatus[c] # "idle" /\ ~clientFlag[c]
        /\ Queues(c, Bye) /\ clientFlag' = [clientFlag EXCEPT ![c] = TRUE]
    BY <1>14 DEF Quits, AtPrompt, ClientRuns
  <2>2. Bye \in Messages /\ Bye.type = "BYE"
    BY MessageTypes DEF Bye
  <2>3. clientFlag'[c] /\ \A e \in Clients \ {c} : clientFlag'[e] = clientFlag[e]
    BY <1>0, <2>1
  <2> QED BY <1>6, <2>1, <2>2, <2>3
<1>15. CASE OpensDialog(c) \/ ClosesDialog(c)
  BY <1>7, <1>15 DEF OpensDialog, ClosesDialog
<1> QED BY <1>3, <1>4, <1>5, <1>8, <1>9, <1>10, <1>11, <1>12, <1>13, <1>14, <1>15
        DEF ClientProgram, NetworkThread

\* At the start there is nothing to say ...
LEMMA LoginInit == MessengerInit => LoginInv
<1> SUFFICES ASSUME MessengerInit, NEW c \in Clients PROVE LoginFits(c)
  BY DEF LoginInv
<1>1. /\ Outgoing(c) = <<>> /\ state[c] = "start" /\ ~disconnectionFlag[c]
      /\ clientStatus[c] = "idle"
  BY DEF MessengerInit, Init, NetworkInit, ServerInit, ClientInit, Outgoing
<1>2. ByeIsLast(<<>>) /\ ~Has(<<>>, "BYE")
  BY EmptyLine DEF ByeIsLast
<1> QED BY <1>1, <1>2 DEF LoginFits

\* ... and every step keeps to it.
LEMMA LoginStep ==
  ASSUME SystemInv, LoginInv, [MessengerNext]_messengerVars
  PROVE  LoginInv'
<1>1. CASE UNCHANGED messengerVars
  <2>1. /\ UNCHANGED <<toServer, clientVars, state>>
        /\ UNCHANGED <<serverEnd, disconnectionFlag, clientStatus>>
    BY <1>1 DEF messengerVars, vars, networkVars, serverVars, sessionVars, clientVars
  <2> QED BY <2>1, LoginRests DEF LoginKept, Served
<1> QED BY <1>1, ServerLogin, ClientLogin DEF MessengerNext

LEMMA AlwaysLogin == MessengerSpec => []LoginInv
<1>1. SystemInv /\ LoginInv /\ [MessengerNext]_messengerVars => LoginInv'
  BY LoginStep
<1> QED BY <1>1, LoginInit, AlwaysSystemInv, PTL DEF MessengerSpec

\* The server throws nobody out: what a client says is always in an order that
\* checkSessionStateChange() expects, HELLO first, names only until BYE, BYE once.
THEOREM NobodyDisconnected == MessengerSpec => []NobodyThrownOut
<1>1. LoginInv => NobodyThrownOut
  BY DEF LoginInv, LoginFits, NobodyThrownOut, Served
<1> QED BY <1>1, AlwaysLogin, PTL

\* So a session ends only after its client has closed.
LEMMA NobodyLeaves ==
  ASSUME SystemInv, LoginInv, NEW c \in Clients
  PROVE  ~Leave(c)
<1> SUFFICES ASSUME Leave(c) PROVE FALSE
  OBVIOUS
<1>1. Running /\ pc[c] = "poll" /\ disconnectionFlag[c]
  BY DEF Leave, KeepsPolling
<1>2. serverEnd[c] = "open"
  BY <1>1 DEF SystemInv, IInv, ThreadsInv, SessionsHaveThreads
<1> QED BY <1>1, <1>2 DEF LoginInv, LoginFits, Served, Gone

-----------------------------------------------------------------------------
(* Steps that bring nothing new to the transfer.                           *)

OutKinds == {"FILE_REQUEST", "STATUS", "FILE_DATA"}
InKinds == {"FILE_REQUEST", "FILE_DATA"}

\* Nothing of a transfer is newly on its way from c ...
OutFewer(c) ==
  /\ \A type \in OutKinds : Goes(c, type)' => Goes(c, type)
  /\ \A code \in Answers : Says(c, code)' => Says(c, code)
  /\ Closes(c)' => Closes(c)
  /\ OutTidy(c) => OutTidy(c)'

\* ... and to c.
InFewer(c) ==
  /\ Current(c)' => Current(c)
  /\ \A type \in InKinds : Comes(c, type)' => Comes(c, type)
  /\ \A code \in Verdicts : Tells(c, code)' => Tells(c, code)
  /\ Concludes(c)' => Concludes(c)
  /\ InTidy(c) => InTidy(c)'
  /\ OneStart(c) => OneStart(c)'

\* So it is if the line is as it was or its first message is gone ...
LEMMA OutLess ==
  ASSUME MessengerInv, NEW c \in Clients, Served(c)' => Served(c),
         \/ ~Served(c)'
         \/ Outgoing(c)' = Outgoing(c)
         \/ Outgoing(c) # <<>> /\ Outgoing(c)' = Tail(Outgoing(c))
  PROVE  OutFewer(c)
<1>1. CASE ~Served(c)'
  BY <1>1 DEF OutFewer, Goes, Says, Closes, OutTidy
<1>2. CASE Outgoing(c)' = Outgoing(c)
  BY <1>2 DEF OutFewer, Goes, Says, Closes, OutTidy
<1>3. CASE Outgoing(c) # <<>> /\ Outgoing(c)' = Tail(Outgoing(c))
  <2>1. /\ \A type : Has(Outgoing(c)', type) => Has(Outgoing(c), type)
        /\ \A type : Once(Outgoing(c), type) => Once(Outgoing(c)', type)
        /\ \A code : Gives(Outgoing(c)', code) => Gives(Outgoing(c), code)
        /\ Ending(Outgoing(c)') => Ending(Outgoing(c))
        /\ LastIsLast(Outgoing(c)) => LastIsLast(Outgoing(c)')
    BY <1>3, LinesType, ShorterLine
  <2> QED BY <2>1 DEF OutFewer, Goes, Says, Closes, OutTidy
<1> QED BY <1>1, <1>2, <1>3

\* ... or has one more that has nothing to do with transfers.
LEMMA OutMore ==
  ASSUME MessengerInv, NEW c \in Clients, Served(c)' => Served(c), NEW m \in Messages,
         m.type \notin OutKinds,
         Outgoing(c)' = Outgoing(c) \/ Outgoing(c)' = Append(Outgoing(c), m)
  PROVE  OutFewer(c)
<1>1. CASE Outgoing(c)' = Outgoing(c)
  BY <1>1, OutLess
<1>2. CASE Outgoing(c)' = Append(Outgoing(c), m)
  <2>1. /\ \A type \in OutKinds : Has(Outgoing(c)', type) => Has(Outgoing(c), type)
        /\ \A type \in OutKinds : Once(Outgoing(c), type) => Once(Outgoing(c)', type)
        /\ \A code : Gives(Outgoing(c)', code) => Gives(Outgoing(c), code)
        /\ Ending(Outgoing(c)') => Ending(Outgoing(c))
        /\ LastIsLast(Outgoing(c)) => LastIsLast(Outgoing(c)')
    BY <1>2, LinesType, LongerLine DEF OutKinds
  <2> QED BY <2>1 DEF OutFewer, Goes, Says, Closes, OutTidy, OutKinds
<1> QED BY <1>1, <1>2

\* The same of the lines to the clients.
LEMMA InLess ==
  ASSUME MessengerInv, NEW c \in Clients, Current(c)' => Current(c),
         \/ ~Current(c)'
         \/ ToCome(c)' = ToCome(c)
         \/ ToCome(c) # <<>> /\ ToCome(c)' = Tail(ToCome(c))
  PROVE  InFewer(c)
<1>1. CASE ~Current(c)'
  BY <1>1 DEF InFewer, Comes, Tells, Concludes, InTidy, OneStart
<1>2. CASE ToCome(c)' = ToCome(c)
  BY <1>2 DEF InFewer, Comes, Tells, Concludes, InTidy, OneStart
<1>3. CASE ToCome(c) # <<>> /\ ToCome(c)' = Tail(ToCome(c))
  <2>1. /\ \A type : Has(ToCome(c)', type) => Has(ToCome(c), type)
        /\ \A type : Once(ToCome(c), type) => Once(ToCome(c)', type)
        /\ \A code : Gives(ToCome(c)', code) => Gives(ToCome(c), code)
        /\ Ending(ToCome(c)') => Ending(ToCome(c))
        /\ LastIsLast(ToCome(c)) => LastIsLast(ToCome(c)')
        /\ StartsOnce(ToCome(c)) => StartsOnce(ToCome(c)')
    BY <1>3, LinesType, ShorterLine
  <2> QED BY <2>1 DEF InFewer, Comes, Tells, Concludes, InTidy, OneStart
<1> QED BY <1>1, <1>2, <1>3

\* A message the transfer does not turn on.
Plain(m) == m.type \notin InKinds /\ (m.type = "STATUS" => m.code \notin Verdicts)

LEMMA InMore ==
  ASSUME MessengerInv, NEW c \in Clients, Current(c)' => Current(c), NEW m \in Messages, Plain(m),
         ToCome(c)' = ToCome(c) \/ ToCome(c)' = Append(ToCome(c), m)
  PROVE  InFewer(c)
<1>1. CASE ToCome(c)' = ToCome(c)
  BY <1>1, InLess
<1>2. CASE ToCome(c)' = Append(ToCome(c), m)
  <2>1. /\ \A type \in InKinds : Has(ToCome(c)', type) => Has(ToCome(c), type)
        /\ Once(ToCome(c), "FILE_REQUEST") => Once(ToCome(c)', "FILE_REQUEST")
        /\ \A code \in Verdicts : Gives(ToCome(c)', code) => Gives(ToCome(c), code)
        /\ Ending(ToCome(c)') => Ending(ToCome(c))
        /\ LastIsLast(ToCome(c)) => LastIsLast(ToCome(c)')
        /\ StartsOnce(ToCome(c)) => StartsOnce(ToCome(c)')
    BY <1>2, LinesType, LongerLine DEF InKinds, Plain, Starts, Verdicts, Answers
  <2> QED BY <2>1 DEF InFewer, Comes, Tells, Concludes, InTidy, OneStart, InKinds
<1> QED BY <1>1, <1>2

\* The conjuncts of the inductive invariant but StrangerInv, which is about others.
TransferInv ==
  RequestInv /\ AnswerInv /\ VerdictInv /\ HoldInv /\ DataInv /\ TidyInv

\* A step that concerns no transfer of c.
QuietFor(c) ==
  /\ OutFewer(c) /\ InFewer(c)
  /\ transfer'[c] = transfer[c] /\ fileTransferStatus'[c] = fileTransferStatus[c]
  /\ isFileTransferSender'[c] => isFileTransferSender[c]
  /\ c \in sessions => isFileTransferSender'[c] = isFileTransferSender[c]
  /\ pc'[c] \in Deciding \cup {"requesting"} => pc'[c] = pc[c] /\ hand'[c] = hand[c]
  /\ Current(c)' /\ task'[c] = "asking" => task[c] = "asking"

\* A step that concerns no transfer of anybody.
QuietStep ==
  /\ UNCHANGED <<sessions, fileTransferModeActive>>
  /\ \A c \in Clients : QuietFor(c)

\* The step brings c and its session nothing the invariants turn on.
LessKnown(c) ==
  /\ Current(c)' => Current(c)
  /\ Asked(c)' => Asked(c)
  /\ MayStart(c)' => MayStart(c)
  /\ Decided(c)' => Decided(c)
  /\ Accepted(c)' => Accepted(c)
  /\ Goes(c, "FILE_REQUEST")' => Goes(c, "FILE_REQUEST")
  /\ Goes(c, "STATUS")' => Goes(c, "STATUS")
  /\ Goes(c, "FILE_DATA")' => Goes(c, "FILE_DATA")
  /\ Comes(c, "FILE_REQUEST")' => Comes(c, "FILE_REQUEST")
  /\ Comes(c, "FILE_DATA")' => Comes(c, "FILE_DATA")
  /\ Concludes(c)' => Concludes(c)
  /\ Closes(c)' => Closes(c)
  /\ Current(c)' /\ task'[c] = "asking" => task[c] = "asking"
  /\ pc'[c] \in Deciding \cup {"requesting"} => pc'[c] = pc[c] /\ hand'[c] = hand[c]
  /\ isFileTransferSender'[c] => isFileTransferSender[c]
  /\ c \in sessions => isFileTransferSender'[c] = isFileTransferSender[c]
  /\ transfer'[c] = transfer[c] /\ fileTransferStatus'[c] = fileTransferStatus[c]

LEMMA QuietIsLess ==
  ASSUME UNCHANGED requested, NEW c \in Clients, QuietFor(c)
  PROVE  LessKnown(c)
<1>1. /\ OutFewer(c) /\ InFewer(c)
      /\ transfer'[c] = transfer[c] /\ fileTransferStatus'[c] = fileTransferStatus[c]
      /\ pc'[c] \in Deciding \cup {"requesting"} => pc'[c] = pc[c] /\ hand'[c] = hand[c]
      /\ Current(c)' /\ task'[c] = "asking" => task[c] = "asking"
  BY DEF QuietFor
<1>2. /\ Goes(c, "FILE_REQUEST")' => Goes(c, "FILE_REQUEST")
      /\ Goes(c, "STATUS")' => Goes(c, "STATUS")
      /\ Goes(c, "FILE_DATA")' => Goes(c, "FILE_DATA")
      /\ Comes(c, "FILE_REQUEST")' => Comes(c, "FILE_REQUEST")
      /\ Comes(c, "FILE_DATA")' => Comes(c, "FILE_DATA")
      /\ Concludes(c)' => Concludes(c)
      /\ Closes(c)' => Closes(c)
      /\ Tells(c, "AcceptFileTransfer")' => Tells(c, "AcceptFileTransfer")
      /\ Says(c, "AcceptFileTransfer")' => Says(c, "AcceptFileTransfer")
      /\ Current(c)' => Current(c)
  BY <1>1 DEF OutFewer, InFewer, OutKinds, InKinds, Verdicts, Answers
<1>3. Asked(c)' => Asked(c)
  BY <1>1, <1>2 DEF Asked, Comes
<1>4. (MayStart(c)' => MayStart(c)) /\ (Decided(c)' => Decided(c))
  BY <1>1, <1>2 DEF MayStart, Decided
<1>5. Accepted(c)' => Accepted(c)
  BY <1>1, <1>2 DEF Accepted, Deciding
<1> QED BY <1>1, <1>2, <1>3, <1>4, <1>5 DEF QuietFor, LessKnown

\* Whoever has answered, or has not been asked, still has or has not.
StillAnswered(d) ==
  Current(d)' => /\ Current(d)
                 /\ Asked(d)' => Asked(d)
                 /\ Goes(d, "STATUS")' => Goes(d, "STATUS")
                 /\ pc'[d] = "answering" => pc[d] = "answering"

\* What each invariant says of c stays true if there is nothing new for c.
LEMMA LessStays ==
  ASSUME UNCHANGED requested, NEW c \in Clients, LessKnown(c)
  PROVE  /\ RequestFits(c) /\ (Untouched => Untouched') => RequestFits(c)'
         /\ AnswerFits(c) => AnswerFits(c)'
         /\ HoldFits(c) /\ UNCHANGED <<sessions, fileTransferModeActive>> => HoldFits(c)'
         /\ DataFits(c) /\ (Done => Done') => DataFits(c)'
         /\ StillAnswered(c)
<1>1. Owner(c)' <=> Owner(c)
  BY DEF Owner
<1>2. RequestFits(c) /\ (Untouched => Untouched') => RequestFits(c)'
  BY <1>1 DEF RequestFits, LessKnown, Deciding
<1>3. AnswerFits(c) => AnswerFits(c)'
  <2>1. \/ pc'[c] \notin {"answering", "scanning"}
        \/ pc'[c] = pc[c] /\ hand'[c] = hand[c]
    BY DEF LessKnown, Deciding
  <2> QED BY <1>1, <2>1 DEF AnswerFits, LessKnown
<1>4. HoldFits(c) /\ UNCHANGED <<sessions, fileTransferModeActive>> => HoldFits(c)'
  BY DEF HoldFits, LessKnown, Deciding
<1>5. DataFits(c) /\ (Done => Done') => DataFits(c)'
  BY <1>1 DEF DataFits, LessKnown
<1>6. StillAnswered(c)
  BY DEF StillAnswered, LessKnown, Deciding
<1> QED BY <1>2, <1>3, <1>4, <1>5, <1>6

\* A verdict stands while those who have answered still have.
LEMMA VerdictStays ==
  ASSUME UNCHANGED requested, NEW c \in Clients, VerdictFits(c), Decided(c)' => Decided(c),
         \A d \in Clients \ {c} : StillAnswered(d)
  PROVE  VerdictFits(c)'
BY DEF VerdictFits, StillAnswered, Owner

\* And who has sent all, has.
LEMMA DoneStays ==
  ASSUME UNCHANGED requested,
         \A e \in Clients : /\ Goes(e, "FILE_DATA")' => Goes(e, "FILE_DATA")
                            /\ Current(e)' => Current(e)
                            /\ transfer'[e].isSendingFile => transfer[e].isSendingFile,
         Done
  PROVE  Done'
BY DEF Done, Owner

\* The verdict stands if one client at most, with its session, learns something that
\* is no question, and no answer.
LEMMA LessVerdicts ==
  ASSUME VerdictInv, UNCHANGED requested, NEW c \in Clients,
         \A e \in Clients \ {c} : LessKnown(e), StillAnswered(c), VerdictFits(c)'
  PROVE  VerdictInv'
<1> SUFFICES ASSUME NEW e \in Clients \ {c} PROVE VerdictFits(e)'
  BY DEF VerdictInv
<1>1. \A d \in Clients : StillAnswered(d)
  BY LessStays
<1>2. VerdictFits(e) /\ (Decided(e)' => Decided(e))
  BY DEF VerdictInv, LessKnown
<1> QED BY <1>1, <1>2, VerdictStays

\* All of it, if one client at most, with its session, learns something.
LEMMA OneLearns ==
  ASSUME TransferInv, UNCHANGED requested, NEW c \in Clients,
         \A e \in Clients \ {c} : LessKnown(e), Untouched => Untouched', Done => Done',
         RequestFits(c)', AnswerFits(c)', DataFits(c)', VerdictInv', HoldInv', TidyInv'
  PROVE  TransferInv'
<1>0. RequestInv /\ AnswerInv /\ DataInv
  BY DEF TransferInv
<1>1. ASSUME NEW e \in Clients \ {c}
      PROVE  RequestFits(e)' /\ AnswerFits(e)' /\ DataFits(e)'
  <2>1. RequestFits(e) /\ AnswerFits(e) /\ DataFits(e)
    BY <1>0 DEF RequestInv, AnswerInv, DataInv
  <2> QED BY <2>1, LessStays
<1>2. RequestInv'
  BY <1>0, <1>1 DEF RequestInv, Owner
<1> QED BY <1>1, <1>2 DEF TransferInv, AnswerInv, DataInv

\* As long as nobody leaves, the server holds the transfer as before.
LEMMA LessHolds ==
  ASSUME HoldInv, UNCHANGED <<sessions, fileTransferModeActive, requested>>, NEW c \in Clients,
         \A e \in Clients \ {c} : LessKnown(e), HoldFits(c)'
  PROVE  HoldInv'
BY LessStays DEF HoldInv

\* All of it, if there is nothing new for anybody.
LEMMA LessKeeps ==
  ASSUME TransferInv, UNCHANGED requested, \A e \in Clients : LessKnown(e),
         Untouched => Untouched', HoldInv', TidyInv'
  PROVE  TransferInv'
<1>1. CASE Clients = {}
  BY <1>1 DEF TransferInv, RequestInv, AnswerInv, VerdictInv, DataInv
<1>2. ASSUME NEW c \in Clients PROVE TransferInv'
  <2>1. RequestFits(c) /\ AnswerFits(c) /\ VerdictFits(c) /\ DataFits(c) /\ VerdictInv
    BY DEF TransferInv, RequestInv, AnswerInv, VerdictInv, DataInv
  <2>2. \A d \in Clients : StillAnswered(d)
    BY LessStays
  <2>3. VerdictFits(c)'
    BY <2>1, <2>2, VerdictStays DEF LessKnown
  <2>4. VerdictInv'
    BY <2>1, <2>2, <2>3, LessVerdicts
  <2>5. Done => Done'
    BY DoneStays DEF LessKnown
  <2> QED BY <2>1, <2>4, <2>5, LessStays, OneLearns
<1> QED BY <1>1, <1>2

\* What is untouched stays so ...
LEMMA UntouchedStays ==
  ASSUME UNCHANGED requested, fileTransferModeActive' => fileTransferModeActive,
         \A e \in Clients : QuietFor(e), Untouched
  PROVE  Untouched'
<1> SUFFICES ASSUME NEW c \in Clients PROVE UntouchedBy(c)'
  BY DEF Untouched
<1>1. UntouchedBy(c) /\ LessKnown(c) /\ QuietFor(c)
  BY QuietIsLess DEF Untouched
<1>2. \A code \in Verdicts : Tells(c, code)' => Tells(c, code)
  BY <1>1 DEF QuietFor, InFewer
<1> QED BY <1>1, <1>2 DEF UntouchedBy, LessKnown, QuietFor, Deciding

\* ... and so does all after a step that concerns no transfer.
LEMMA QuietKeeps ==
  ASSUME TransferInv, UNCHANGED requested, QuietStep
  PROVE  TransferInv'
<1>0. UNCHANGED <<sessions, fileTransferModeActive>> /\ \A e \in Clients : QuietFor(e)
  BY DEF QuietStep
<1>1. \A e \in Clients : LessKnown(e)
  BY <1>0, QuietIsLess
<1>2. Untouched => Untouched'
  BY <1>0, UntouchedStays
<1>3. TidyInv'
  BY <1>0 DEF TransferInv, TidyInv, QuietFor, OutFewer, InFewer
<1>4. HoldInv'
  BY <1>0, <1>1, LessStays DEF TransferInv, HoldInv
<1> QED BY <1>1, <1>2, <1>3, <1>4, LessKeeps

-----------------------------------------------------------------------------
(* The handlers of the server.                                             *)

\* What a handler leaves of the other sessions and of the clients.
LEMMA HandlersOwn ==
  ASSUME SystemInv, UNCHANGED clientVars, NEW c \in Clients, HandlerStep(c)
  PROVE  /\ c \in sessions /\ Served(c) /\ UNCHANGED sessions
         /\ \A e \in Clients : /\ Served(e)' = Served(e) /\ Current(e)' = Current(e)
                               /\ transfer'[e] = transfer[e] /\ task'[e] = task[e]
         /\ \A e \in Clients \ {c} :
               /\ Outgoing(e)' = Outgoing(e)
               /\ pc'[e] = pc[e] /\ hand'[e] = hand[e]
               /\ isFileTransferSender'[e] = isFileTransferSender[e]
               /\ fileTransferStatus'[e] = fileTransferStatus[e]
<1>0. TypeOK /\ MessengerInv
  BY DEF SystemInv, MessengerInv, TypeInv
<1>1. c \in sessions /\ UNCHANGED sessions
  BY HandlerFrame DEF SystemInv, MessengerInv, IInv, ThreadsInv
<1>2. UNCHANGED <<serverEnd, clientStatus, transfer, task, clientQueue>>
  BY HandlersLeaveClients DEF clientVars
<1>3. Running
  BY DEF HandlerStep, ReceiveHello, ReceiveBye, ReceiveNickname, Rename, ReceiveChat, ReceiveStatus,
         SaveAnswer, ScanAnswers, ReceiveFileRequest, AnnounceTransfer, FlagSender,
         AcceptOwnTransfer, ReceiveFileData, ResetStatus, Reads, CanRead
<1>4. Served(c)
  BY <1>1, <1>3, SessionsServed
<1>5. ASSUME NEW e \in Clients \ {c}
      PROVE  /\ toServer'[e] = toServer[e]
             /\ pc'[e] = pc[e] /\ hand'[e] = hand[e]
             /\ isFileTransferSender'[e] = isFileTransferSender[e]
             /\ fileTransferStatus'[e] = fileTransferStatus[e]
  <2>0. /\ toServer \in [Clients -> Seq(Messages)] /\ pc \in [Clients -> Steps]
        /\ hand \in [Clients -> Messages \cup {NoMessage}]
        /\ isFileTransferSender \in [Clients -> BOOLEAN]
        /\ fileTransferStatus \in [Clients -> StatusCodes]
    BY <1>0 DEF TypeOK, NetworkTypeOK
  <2>1. CASE ReceiveHello(c) \/ ReceiveBye(c) \/ ReceiveNickname(c) \/ Rename(c) \/ ReceiveChat(c)
    BY <2>0, <2>1 DEF ReceiveHello, ReceiveBye, ReceiveNickname, Rename, ReceiveChat, Reads,
                      TransferIdle, GoesOn, Finishes
  <2>2. CASE ReceiveStatus(c) \/ SaveAnswer(c) \/ ScanAnswers(c) \/ ReceiveFileRequest(c)
    BY <2>0, <2>2 DEF ReceiveStatus, SaveAnswer, ScanAnswers, ReceiveFileRequest, Reads,
                      TransferIdle, GoesOn, Finishes
  <2>3. CASE AnnounceTransfer(c) \/ FlagSender(c) \/ AcceptOwnTransfer(c)
    BY <2>0, <2>3 DEF AnnounceTransfer, FlagSender, AcceptOwnTransfer, GoesOn, Finishes
  <2>4. CASE ReceiveFileData(c) \/ ResetStatus(c)
    BY <2>0, <2>4 DEF ReceiveFileData, ResetStatus, Reads, GoesOn, Finishes
  <2> QED BY <2>1, <2>2, <2>3, <2>4 DEF HandlerStep
<1> QED BY <1>1, <1>2, <1>4, <1>5 DEF Outgoing, Served, Current

\* A session that is sent nothing, or a plain message, ...
LEMMA HandlersTell ==
  ASSUME SystemInv, UNCHANGED clientVars, NEW c \in Clients, HandlerStep(c), NEW e \in Clients,
         \/ sendingQueue'[e] = sendingQueue[e]
         \/ \E m \in Messages : Plain(m) /\ sendingQueue'[e] = Push(sendingQueue[e], m)
         \/ \E m, n \in Messages : /\ Plain(m) /\ Plain(n)
                                   /\ sendingQueue'[e] = Push(Push(sendingQueue[e], m), n)
  PROVE  InFewer(e)
<1>0. MessengerInv /\ UNCHANGED toClient /\ (Current(e)' => Current(e))
  BY HandlersLeaveClients, HandlersOwn DEF SystemInv
<1>1. CASE sendingQueue'[e] = sendingQueue[e]
  <2>1. ToCome(e)' = ToCome(e)
    BY <1>0, <1>1 DEF ToCome
  <2> QED BY <1>0, <2>1, InLess
<1>2. ASSUME NEW m \in Messages, Plain(m), sendingQueue'[e] = Push(sendingQueue[e], m)
      PROVE  InFewer(e)
  BY <1>0, <1>2, PushedLine, InMore
<1>3. ASSUME NEW m \in Messages, NEW n \in Messages, Plain(m), Plain(n),
             sendingQueue'[e] = Push(Push(sendingQueue[e], m), n)
      PROVE  InFewer(e)
  <2>1. CASE Push(sendingQueue[e], m) = sendingQueue[e]
    BY <1>2, <1>3, <2>1
  <2>2. CASE Push(sendingQueue[e], m) = Append(sendingQueue[e], m)
    <3> DEFINE s == ToCome(e)
               r == Append(s, m)
    <3>1. s \in Seq(Messages) /\ r \in Seq(Messages)
      BY <1>0, LinesType
    <3>2. ToCome(e)' = r \/ ToCome(e)' = Append(r, n)
      <4>1. toClient[e] \o Append(sendingQueue[e], m) = r
        BY <1>0, LinesType, LinePushed DEF ToCome
      <4>2. toClient[e] \o Append(Append(sendingQueue[e], m), n) = Append(r, n)
        <5> DEFINE q == Append(sendingQueue[e], m)
        <5>1. q \in Seq(Messages) /\ toClient[e] \in Seq(Messages) /\ toClient[e] \o q = r
          BY <1>0, <4>1, LinesType
        <5> HIDE DEF q, r
        <5>2. toClient[e] \o Append(q, n) = Append(toClient[e] \o q, n)
          BY <5>1, LinePushed
        <5> QED BY <5>1, <5>2 DEF q
      <4> HIDE DEF r
      <4> QED BY <1>0, <1>3, <2>2, <4>1, <4>2 DEF ToCome, Push
    <3>3. ASSUME NEW q, q = r \/ q = Append(r, n)
          PROVE  /\ \A type \in InKinds : Has(q, type) => Has(s, type)
                 /\ Once(s, "FILE_REQUEST") => Once(q, "FILE_REQUEST")
                 /\ \A code \in Verdicts : Gives(q, code) => Gives(s, code)
                 /\ Ending(q) => Ending(s)
                 /\ LastIsLast(s) => LastIsLast(q)
                 /\ StartsOnce(s) => StartsOnce(q)
      <4>1. /\ \A type \in InKinds : Has(r, type) => Has(s, type)
            /\ Once(s, "FILE_REQUEST") => Once(r, "FILE_REQUEST")
            /\ \A code \in Verdicts : Gives(r, code) => Gives(s, code)
            /\ Ending(r) => Ending(s)
            /\ LastIsLast(s) => LastIsLast(r)
            /\ StartsOnce(s) => StartsOnce(r)
        BY <1>3, <3>1, LongerLine DEF InKinds, Plain, Starts, Verdicts, Answers
      <4>2. /\ \A type \in InKinds : Has(Append(r, n), type) => Has(r, type)
            /\ Once(r, "FILE_REQUEST") => Once(Append(r, n), "FILE_REQUEST")
            /\ \A code \in Verdicts : Gives(Append(r, n), code) => Gives(r, code)
            /\ Ending(Append(r, n)) => Ending(r)
            /\ LastIsLast(r) => LastIsLast(Append(r, n))
            /\ StartsOnce(r) => StartsOnce(Append(r, n))
        BY <1>3, <3>1, LongerLine DEF InKinds, Plain, Starts, Verdicts, Answers
      <4> QED BY <3>3, <4>1, <4>2
    <3> HIDE DEF r
    <3> QED BY <1>0, <3>2, <3>3 DEF InFewer, Comes, Tells, Concludes, InTidy, OneStart, InKinds
  <2> QED BY <2>1, <2>2 DEF Push
<1> QED BY <1>1, <1>2, <1>3

\* ... and that has not read a message itself, is in no transfer.
LEMMA HandlersSpareOthers ==
  ASSUME SystemInv, UNCHANGED clientVars, NEW c \in Clients, HandlerStep(c),
         NEW e \in Clients \ {c}, InFewer(e)
  PROVE  QuietFor(e)
<1>1. MessengerInv
  BY DEF SystemInv
<1>2. OutFewer(e)
  BY <1>1, HandlersOwn, OutLess
<1> QED BY <1>2, HandlersOwn DEF QuietFor

\* What a session may be told is plain.
LEMMA PlainMessages ==
  /\ Bye \in Messages /\ Plain(Bye)
  /\ \A name \in Names : Nickname(name) \in Messages /\ Plain(Nickname(name))
  /\ \A sender \in Names, text \in Texts :
        Chat(sender, text) \in Messages /\ Plain(Chat(sender, text))
  /\ \A code \in StatusCodes \ Verdicts : Status(code) \in Messages /\ Plain(Status(code))
  /\ {"Ok", "ChattingAlone", "NickNameAlreadyRegistered"} \subseteq StatusCodes \ Verdicts
  /\ Verdicts \subseteq StatusCodes
BY MessageTypes DEF Plain, Bye, Nickname, Chat, Status, InKinds, StatusCodes, Verdicts, Answers

\* A handler that tells nobody anything of a transfer and changes nothing of one.
LEMMA QuietHandler ==
  ASSUME SystemInv, UNCHANGED clientVars, NEW c \in Clients,
         HandlerStep(c), TransferIdle, \A e \in Clients : InFewer(e),
         pc'[c] \in Deciding \cup {"requesting"} => pc'[c] = pc[c] /\ hand'[c] = hand[c],
         UNCHANGED toServer \/ \E type : Reads(c, type)
  PROVE  QuietStep
<1>0. MessengerInv /\ UNCHANGED <<fileTransferModeActive, isFileTransferSender, fileTransferStatus>>
  BY DEF SystemInv, TransferIdle
<1>1. OutFewer(c)
  <2>1. CASE UNCHANGED toServer
    <3>1. Outgoing(c)' = Outgoing(c)
      BY <2>1 DEF Outgoing, clientVars
    <3> QED BY <1>0, <3>1, HandlersOwn, OutLess
  <2>2. ASSUME NEW type, Reads(c, type) PROVE OutFewer(c)
    BY <1>0, <2>2, ReadsLines, HandlersOwn, OutLess
  <2> QED BY <2>1, <2>2
<1>2. QuietFor(c)
  BY <1>0, <1>1, HandlersOwn DEF QuietFor
<1>3. \A e \in Clients \ {c} : QuietFor(e)
  BY HandlersSpareOthers
<1> QED BY <1>0, <1>2, <1>3, HandlersOwn DEF QuietStep

\* What checkSessionStateChange() leaves in the queue, and the answer.
LEMMA CheckedTells ==
  ASSUME SystemInv, UNCHANGED clientVars, NEW c \in Clients, HandlerStep(c), NEW type,
         \/ sendingQueue' = [sendingQueue EXCEPT ![c] = Checked(c, type)]
         \/ \E m \in Messages :
              Plain(m) /\ sendingQueue' = [sendingQueue EXCEPT ![c] = Push(Checked(c, type), m)]
  PROVE  \A e \in Clients : InFewer(e)
<1>0. sendingQueue \in [Clients -> Seq(Messages)]
  BY DEF SystemInv, MessengerInv, TypeInv, TypeOK
<1>1. Checked(c, type) = sendingQueue[c] \/ Checked(c, type) = Push(sendingQueue[c], Bye)
  BY DEF Checked
<1>2. InFewer(c)
  BY <1>0, <1>1, HandlersTell, PlainMessages
<1>3. \A e \in Clients \ {c} : sendingQueue'[e] = sendingQueue[e]
  BY <1>0
<1> QED BY <1>2, <1>3, HandlersTell

\* Names and texts have nothing to do with transfers.
LEMMA TalkHandlers ==
  ASSUME SystemInv, UNCHANGED clientVars, NEW c \in Clients,
         \/ ReceiveHello(c) \/ ReceiveBye(c) \/ ReceiveNickname(c) \/ Rename(c)
         \/ ReceiveChat(c)
  PROVE  QuietStep
<1>0. /\ sendingQueue \in [Clients -> Seq(Messages)] /\ nickName \in [Clients -> Names]
      /\ pc \in [Clients -> Steps] /\ HandsFit /\ TypeOK /\ HandlerStep(c)
  BY DEF SystemInv, MessengerInv, TypeInv, TypeOK, HandlerStep
<1>1. CASE ReceiveHello(c)
  <2>1. /\ TransferIdle /\ UNCHANGED <<pc, hand>> /\ Reads(c, "HELLO")
        /\ sendingQueue' =
             [sendingQueue EXCEPT ![c] = Push(Checked(c, "HELLO"), Nickname(nickName[c]))]
    BY <1>1 DEF ReceiveHello
  <2> QED BY <1>0, <2>1, CheckedTells, PlainMessages, QuietHandler
<1>2. CASE ReceiveBye(c)
  <2>1. /\ TransferIdle /\ UNCHANGED <<pc, hand>> /\ Reads(c, "BYE")
        /\ sendingQueue' = [sendingQueue EXCEPT ![c] = Checked(c, "BYE")]
    BY <1>2 DEF ReceiveBye
  <2> QED BY <1>0, <2>1, CheckedTells, QuietHandler
<1>3. CASE ReceiveNickname(c)
  <2>1. /\ TransferIdle /\ Reads(c, "NICKNAME")
        /\ pc'[c] = "renaming" \/ UNCHANGED <<pc, hand>>
        /\ \/ sendingQueue' = [sendingQueue EXCEPT ![c] = Checked(c, "NICKNAME")]
           \/ sendingQueue' = [sendingQueue EXCEPT ![c] =
                                 Push(Checked(c, "NICKNAME"), Status("NickNameAlreadyRegistered"))]
    BY <1>0, <1>3 DEF ReceiveNickname, GoesOn
  <2>2. \A e \in Clients : InFewer(e)
    BY <1>0, <2>1, CheckedTells, PlainMessages
  <2> QED BY <1>0, <2>1, <2>2, QuietHandler DEF Deciding
<1>4. CASE Rename(c)
  <2>1. /\ TransferIdle /\ UNCHANGED toServer /\ pc'[c] = "poll" /\ hand[c].name \in Names
        /\ sendingQueue' = Reply(c, Nickname(hand[c].name))
    BY <1>0, <1>4, MessageFields DEF Rename, Finishes, GoesOn, HandsFit
  <2>2. \A e \in Clients : InFewer(e)
    BY <1>0, <2>1, HandlersTell, PlainMessages DEF Reply
  <2> QED BY <1>0, <2>1, <2>2, QuietHandler DEF Deciding
<1>5. CASE ReceiveChat(c)
  <2>1. /\ TransferIdle /\ UNCHANGED <<pc, hand>> /\ Reads(c, "CHAT")
        /\ \/ sendingQueue' = Reply(c, Status("ChattingAlone"))
           \/ sendingQueue' = Sent(Peers(c), Chat(nickName[c], Incoming(c).text))
    BY <1>5 DEF ReceiveChat
  <2>2. Incoming(c).text \in Texts
    BY <1>0, <2>1, ReadsType, MessageFields
  <2>3. CASE sendingQueue' = Reply(c, Status("ChattingAlone"))
    <3>1. \A e \in Clients : InFewer(e)
      BY <1>0, <2>3, HandlersTell, PlainMessages DEF Reply
    <3> QED BY <1>0, <2>1, <3>1, QuietHandler
  <2>4. CASE sendingQueue' = Sent(Peers(c), Chat(nickName[c], Incoming(c).text))
    <3>1. Chat(nickName[c], Incoming(c).text) \in Messages /\ Plain(Chat(nickName[c], Incoming(c).text))
      BY <1>0, <2>2, PlainMessages
    <3>2. ASSUME NEW e \in Clients PROVE InFewer(e)
      <4>1. \/ sendingQueue'[e] = sendingQueue[e]
            \/ sendingQueue'[e] = Push(sendingQueue[e], Chat(nickName[c], Incoming(c).text))
        BY <2>4 DEF Sent
      <4> QED BY <1>0, <3>1, <4>1, HandlersTell
    <3> QED BY <1>0, <2>1, <3>2, QuietHandler
  <2> QED BY <2>1, <2>3, <2>4
<1> QED BY <1>1, <1>2, <1>3, <1>4, <1>5

-----------------------------------------------------------------------------
(* The other steps of the server.                                          *)

\* A step of the server that reads nothing and decides nothing.
LEMMA QuietServerStep ==
  ASSUME MessengerInv,
         UNCHANGED <<clientVars, toServer, sessions, fileTransferModeActive,
                     fileTransferStatus, hand>>,
         \A e \in Clients :
            /\ Served(e)' => Served(e)
            /\ ~Current(e) \/ ToCome(e)' = ToCome(e)
            /\ pc'[e] = pc[e] \/ pc'[e] \in {"poll", "none"}
            /\ isFileTransferSender'[e] => isFileTransferSender[e]
            /\ e \in sessions => isFileTransferSender'[e] = isFileTransferSender[e]
  PROVE  QuietStep
<1> SUFFICES ASSUME NEW e \in Clients PROVE QuietFor(e)
  BY DEF QuietStep
<1>1. /\ UNCHANGED <<clientStatus, transfer, task, clientQueue>>
      /\ Current(e)' = Current(e) /\ Outgoing(e)' = Outgoing(e)
  BY DEF clientVars, Current, Outgoing
<1>2. OutFewer(e)
  BY <1>1, OutLess
<1>3. InFewer(e)
  BY <1>1, InLess
<1> QED BY <1>1, <1>2, <1>3 DEF QuietFor, Deciding

\* A new connection, a write, and the end of the process.
LEMMA PlainServerSteps ==
  ASSUME SystemInv, UNCHANGED clientVars, NEW c \in Clients,
         \/ Accept(c) \/ Write(c) \/ WriteInVain(c)
         \/ ReceiveUnknown(c) \/ WriteAfterReset(c)
         \/ c \notin sessions /\ Hangup(c)
  PROVE  QuietStep
<1>0. /\ MessengerInv /\ TypeOK /\ serverEnd \in [Clients -> Ends]
      /\ sendingQueue \in [Clients -> Seq(Messages)] /\ toClient \in [Clients -> Seq(Messages)]
      /\ pc \in [Clients -> Steps] /\ isFileTransferSender \in [Clients -> BOOLEAN]
  BY DEF SystemInv, MessengerInv, TypeInv, TypeOK, NetworkTypeOK
<1>1. CASE Accept(c)
  <2>1. /\ Running /\ serverEnd[c] = "idle" /\ serverEnd' = [serverEnd EXCEPT ![c] = "open"]
        /\ isFileTransferSender' = [isFileTransferSender EXCEPT ![c] = FALSE]
        /\ pc' = [pc EXCEPT ![c] = "poll"]
        /\ UNCHANGED <<toServer, toClient, sendingQueue, sessions, fileTransferModeActive,
                       fileTransferStatus, hand>>
    BY <1>1 DEF Accept
  <2>2. c \notin sessions
    BY <2>1 DEF SystemInv, IInv, ThreadsInv, SessionsHaveThreads
  <2>3. \A e \in Clients : Served(e)' => Served(e)
    BY <1>0, <2>1 DEF Served, Gone
  <2> QED BY <1>0, <2>1, <2>2, <2>3, QuietServerStep DEF ToCome
<1>2. CASE Write(c)
  <2>1. /\ sendingQueue[c] # <<>>
        /\ toClient' = [toClient EXCEPT ![c] = Append(@, Head(sendingQueue[c]))]
        /\ sendingQueue' = [sendingQueue EXCEPT ![c] = Tail(@)]
        /\ UNCHANGED <<toServer, serverEnd, sessions, fileTransferModeActive,
                       fileTransferStatus, isFileTransferSender, pc, hand>>
    BY <1>2 DEF Write, ServerIdle, TransferIdle
  <2>2. ToCome(c)' = ToCome(c)
    <3>1. /\ toClient'[c] = Append(toClient[c], Head(sendingQueue[c]))
          /\ sendingQueue'[c] = Tail(sendingQueue[c])
      BY <1>0, <2>1
    <3> QED BY <1>0, <2>1, <3>1, LinesType, LineMoved DEF ToCome
  <2>3. \A e \in Clients : ToCome(e)' = ToCome(e)
    BY <1>0, <2>1, <2>2 DEF ToCome
  <2> QED BY <1>0, <2>1, <2>3, QuietServerStep DEF Served
<1>3. CASE WriteInVain(c)
  <2>1. /\ clientEnd[c] = "closed" /\ sendingQueue' = [sendingQueue EXCEPT ![c] = Tail(@)]
        /\ UNCHANGED <<toServer, toClient, serverEnd, sessions, fileTransferModeActive,
                       fileTransferStatus, isFileTransferSender, pc, hand>>
    BY <1>3 DEF WriteInVain, ServerIdle, TransferIdle
  <2>2. ~Current(c)
    BY <1>0, <2>1 DEF MessengerInv, EndsFit, Current, ClientRuns
  <2>3. \A e \in Clients : ~Current(e) \/ ToCome(e)' = ToCome(e)
    BY <1>0, <2>1, <2>2 DEF ToCome
  <2> QED BY <1>0, <2>1, <2>3, QuietServerStep DEF Served
<1>4. CASE \/ ReceiveUnknown(c) \/ WriteAfterReset(c)
           \/ c \notin sessions /\ Hangup(c)
  <2>1. /\ \E cause : Dies(cause)
        /\ UNCHANGED <<toServer, toClient, sendingQueue, sessions, fileTransferModeActive,
                       fileTransferStatus, isFileTransferSender, pc, hand>>
    BY <1>4 DEF ReceiveUnknown, WriteAfterReset, Hangup, RemoveSession, sessionVars
  <2>2. \A e \in Clients : Served(e)' => Served(e)
    BY <1>0, <2>1, DeathServes
  <2>3. \A e \in Clients : ToCome(e)' = ToCome(e)
    BY <2>1 DEF ToCome
  <2> QED BY <1>0, <2>1, <2>2, <2>3, QuietServerStep
<1> QED BY <1>1, <1>2, <1>3, <1>4

\* A session is registered, and nothing is told to anybody ...
LEMMA RegisterQuiet ==
  ASSUME SystemInv, UNCHANGED <<clientVars, requested>>, Register, NEW e \in Clients
  PROVE  QuietFor(e)
<1>1. /\ MessengerInv /\ UNCHANGED <<toServer, toClient, serverEnd>>
      /\ UNCHANGED <<isFileTransferSender, fileTransferStatus, sendingQueue, pc, hand>>
  BY DEF SystemInv, Register, networkVars, sessionVars
<1>2. /\ UNCHANGED <<clientStatus, transfer, task, clientQueue>>
      /\ Current(e)' = Current(e) /\ Served(e)' = Served(e)
      /\ Outgoing(e)' = Outgoing(e) /\ ToCome(e)' = ToCome(e)
  BY <1>1 DEF clientVars, Current, Served, Outgoing, ToCome
<1>3. OutFewer(e) /\ InFewer(e)
  BY <1>1, <1>2, OutLess, InLess
<1> QED BY <1>1, <1>2, <1>3 DEF QuietFor

\* ... and nobody has told it, or its client, anything yet.
LEMMA RegisterKeeps ==
  ASSUME SystemInv, StrangerInv, TransferInv, UNCHANGED <<clientVars, requested>>, Register
  PROVE  TransferInv'
<1>0. /\ MessengerInv /\ RequestInv /\ HoldInv /\ TidyInv /\ Running /\ listener \notin sessions
  BY DEF SystemInv, IInv, ThreadsInv, NewcomerUnregistered, TransferInv, Register
<1>1. /\ UNCHANGED <<toServer, toClient, clientEnd, serverEnd, fileTransferModeActive>>
      /\ UNCHANGED <<isFileTransferSender, fileTransferStatus, sendingQueue, pc, hand>>
      /\ sessions' = sessions \cup {listener}
  BY DEF Register, networkVars, sessionVars
<1>2. /\ UNCHANGED <<clientStatus, transfer, task, clientQueue>>
      /\ \A e \in Clients : /\ Current(e)' = Current(e) /\ Served(e)' = Served(e)
                            /\ Outgoing(e)' = Outgoing(e) /\ ToCome(e)' = ToCome(e)
  BY <1>1 DEF clientVars, Current, Served, Outgoing, ToCome
<1>3. \A e \in Clients : LessKnown(e)
  BY RegisterQuiet, QuietIsLess
<1>4. Untouched => Untouched'
  BY <1>1, <1>2 DEF Untouched, UntouchedBy, Comes, Goes, Tells
<1>5. TidyInv'
  BY <1>0, <1>2 DEF TidyInv, OutTidy, InTidy
<1>6. HoldInv'
  <2> SUFFICES ASSUME NEW c \in Clients PROVE HoldFits(c)'
    BY DEF HoldInv
  <2>1. HoldFits(c) /\ LessKnown(c)
    BY <1>0, <1>3 DEF HoldInv
  <2>2. CASE c # listener
    BY <1>1, <1>2, <2>1, <2>2 DEF HoldFits, LessKnown
  <2>3. CASE c = listener
    <3>1. pc[c] \in {"none", "poll"}
      BY <1>0, <2>3 DEF SystemInv, IInv, ThreadsInv, HandlersRegistered
    <3>2. Stranger(c)
      <4>1. pc[c] # "none"
        BY <2>3 DEF SystemInv, IInv, ThreadsInv, SessionsHaveThreads
      <4>2. serverEnd[c] = "open"
        BY <1>0, <4>1 DEF SystemInv, IInv, ThreadsInv, SessionsHaveThreads
      <4> QED BY <1>0, <2>3, <4>2 DEF Stranger, Served, Gone
    <3>3. ~isFileTransferSender[c] /\ ~MayStart(c)
      BY <3>2, EmptyLine DEF StrangerInv, StrangeFits, MayStart, Tells
    <3> QED BY <1>1, <1>2, <2>1, <3>1, <3>3 DEF HoldFits, LessKnown
  <2> QED BY <2>2, <2>3
<1> QED BY <1>1, <1>2, <1>3, <1>4, <1>5, <1>6, LessKeeps

-----------------------------------------------------------------------------
(* The handlers of a transfer.                                             *)

\* What a handler has read was on its way, and is no more.
LEMMA HandlersTake ==
  ASSUME SystemInv, UNCHANGED clientVars, NEW c \in Clients, HandlerStep(c), NEW type,
         Reads(c, type)
  PROVE  /\ Incoming(c) \in Messages /\ Incoming(c).type = type /\ pc[c] = "poll"
         /\ Goes(c, type)
         /\ type = "STATUS" => Says(c, Incoming(c).code)
         /\ type = "FILE_DATA" /\ Incoming(c).last => Closes(c)
         /\ OutFewer(c)
         /\ OutTidy(c) =>
              /\ type \in {"FILE_REQUEST", "STATUS"} => ~Goes(c, type)'
              /\ type = "FILE_DATA" /\ Incoming(c).last => ~Goes(c, "FILE_DATA")'
<1>1. MessengerInv /\ TypeOK
  BY DEF SystemInv, MessengerInv, TypeInv
<1>2. /\ Outgoing(c) \in Seq(Messages) /\ Outgoing(c) # <<>> /\ Head(Outgoing(c)) = Incoming(c)
      /\ Incoming(c).type = type /\ Outgoing(c)' = Tail(Outgoing(c))
      /\ pc[c] = "poll" /\ Incoming(c) \in Messages
  BY <1>1, ReadsLines, LinesType, ReadsType
<1>3. Served(c) /\ Served(c)' = Served(c)
  BY HandlersOwn
<1>4. OutFewer(c)
  BY <1>1, <1>2, <1>3, OutLess
<1>5. /\ \A t : Has(Outgoing(c), t) <=> (Has(Outgoing(c)', t) \/ type = t)
      /\ \A t : Once(Outgoing(c), t) => (type = t => ~Has(Outgoing(c)', t))
      /\ type = "STATUS" => Gives(Outgoing(c), Incoming(c).code)
      /\ type = "FILE_DATA" /\ Incoming(c).last => Ending(Outgoing(c))
      /\ (LastIsLast(Outgoing(c)) /\ type = "FILE_DATA" /\ Incoming(c).last)
           => ~Has(Outgoing(c)', "FILE_DATA")
  BY <1>2, ShorterLine
<1> QED BY <1>2, <1>3, <1>4, <1>5 DEF Goes, Says, Closes, OutTidy

\* A handler that sends nothing and is one of another session's concerns nobody else.
LEMMA HandlersOnlyOwn ==
  ASSUME SystemInv, UNCHANGED <<clientVars, requested>>, NEW c \in Clients, HandlerStep(c),
         UNCHANGED sendingQueue
  PROVE  /\ \A e \in Clients : InFewer(e)
         /\ \A e \in Clients \ {c} : QuietFor(e) /\ LessKnown(e)
         /\ Asked(c)' = Asked(c)
         /\ \A type : Comes(c, type)' = Comes(c, type)
         /\ MayStart(c)' = MayStart(c)
         /\ Concludes(c)' = Concludes(c)
<1>1. \A e \in Clients : InFewer(e)
  BY HandlersTell
<1>2. \A e \in Clients \ {c} : QuietFor(e) /\ LessKnown(e)
  BY <1>1, HandlersSpareOthers, QuietIsLess
<1>3. ToCome(c)' = ToCome(c)
  BY HandlersLeaveClients DEF ToCome
<1>4. Current(c)' = Current(c) /\ task'[c] = task[c] /\ transfer'[c] = transfer[c]
  BY HandlersOwn
<1> QED BY <1>1, <1>2, <1>3, <1>4 DEF Asked, Comes, MayStart, Tells, Concludes

\* The server refuses a request, or an answer that comes too late.
LEMMA RefusalKeeps ==
  ASSUME SystemInv, TransferInv, UNCHANGED <<clientVars, requested>>, NEW c \in Clients,
         HandlerStep(c), TransferIdle, UNCHANGED <<pc, hand>>, NEW type, Reads(c, type),
         sendingQueue' = Reply(c, Status("FileTransferCanceled")), ~Untouched
  PROVE  TransferInv'
<1> DEFINE m == Status("FileTransferCanceled")
<1>0. /\ MessengerInv /\ sendingQueue \in [Clients -> Seq(Messages)]
      /\ m \in Messages /\ m.type = "STATUS" /\ m.code = "FileTransferCanceled"
      /\ UNCHANGED <<fileTransferModeActive, isFileTransferSender, fileTransferStatus, sessions>>
  BY PlainMessages, MessageTypes, HandlersOwn
     DEF SystemInv, MessengerInv, TypeInv, TypeOK, TransferIdle, Status, StatusCodes
<1>1. \A e \in Clients \ {c} : QuietFor(e) /\ LessKnown(e)
  <2>1. ASSUME NEW e \in Clients \ {c} PROVE InFewer(e)
    <3>1. sendingQueue'[e] = sendingQueue[e]
      BY <1>0 DEF Reply
    <3> QED BY <3>1, HandlersTell
  <2> QED BY <2>1, HandlersSpareOthers, QuietIsLess
<1>2. ToCome(c) \in Seq(Messages) /\ (ToCome(c)' = ToCome(c) \/ ToCome(c)' = Append(ToCome(c), m))
  <2>1. sendingQueue'[c] = Push(sendingQueue[c], m) /\ UNCHANGED toClient
    BY <1>0, HandlersLeaveClients DEF Reply
  <2> QED BY <1>0, <2>1, PushedLine, LinesType
<1> HIDE DEF m
<1>3. /\ \A t \in InKinds : Has(ToCome(c)', t) => Has(ToCome(c), t)
      /\ Once(ToCome(c), "FILE_REQUEST") => Once(ToCome(c)', "FILE_REQUEST")
      /\ \A code \in Answers : Gives(ToCome(c)', code) => Gives(ToCome(c), code)
      /\ Ending(ToCome(c)') => Ending(ToCome(c))
      /\ LastIsLast(ToCome(c)) => LastIsLast(ToCome(c)')
  <2>1. CASE ToCome(c)' = ToCome(c)
    BY <2>1
  <2>2. CASE ToCome(c)' = Append(ToCome(c), m)
    BY <1>0, <1>2, <2>2, LongerLine DEF InKinds, Answers
  <2> QED BY <1>2, <2>1, <2>2
<1>4. /\ OutFewer(c) /\ Current(c)' = Current(c) /\ task'[c] = task[c]
      /\ transfer'[c] = transfer[c]
  BY HandlersTake, HandlersOwn
<1>5. LessKnown(c)
  <2>1. /\ Goes(c, "FILE_REQUEST")' => Goes(c, "FILE_REQUEST")
        /\ Goes(c, "STATUS")' => Goes(c, "STATUS")
        /\ Goes(c, "FILE_DATA")' => Goes(c, "FILE_DATA")
        /\ Says(c, "AcceptFileTransfer")' => Says(c, "AcceptFileTransfer")
        /\ Closes(c)' => Closes(c)
    BY <1>4 DEF OutFewer, OutKinds, Answers
  <2>2. /\ Comes(c, "FILE_REQUEST")' => Comes(c, "FILE_REQUEST")
        /\ Comes(c, "FILE_DATA")' => Comes(c, "FILE_DATA")
        /\ Tells(c, "AcceptFileTransfer")' => Tells(c, "AcceptFileTransfer")
        /\ Concludes(c)' => Concludes(c)
        /\ Asked(c)' => Asked(c)
    BY <1>3, <1>4 DEF Comes, Tells, Concludes, Asked, InKinds, Answers
  <2>3. MayStart(c)' => MayStart(c)
    BY <1>4, <2>2 DEF MayStart
  <2>4. (Decided(c)' => Decided(c)) /\ (Accepted(c)' => Accepted(c))
    BY <1>0, <2>1, <2>3 DEF Decided, Accepted
  <2> QED BY <1>0, <1>4, <2>1, <2>2, <2>3, <2>4 DEF LessKnown
<1>6. TidyInv'
  <2>1. OutTidy(c)' /\ InTidy(c)'
    BY <1>3, <1>4 DEF TransferInv, TidyInv, OutFewer, InTidy
  <2> QED BY <1>1, <2>1 DEF TransferInv, TidyInv, QuietFor, OutFewer, InFewer
<1>7. \A e \in Clients : LessKnown(e)
  BY <1>1, <1>5
<1>8. HoldInv'
  BY <1>0, <1>7, LessStays DEF TransferInv, HoldInv
<1> QED BY <1>6, <1>7, <1>8, LessKeeps

\* An answer is taken while the transfer is active.
LEMMA AnswerIsTaken ==
  ASSUME SystemInv, TransferInv, UNCHANGED <<clientVars, requested>>, NEW c \in Clients,
         HandlerStep(c), TransferIdle, UNCHANGED sendingQueue, Reads(c, "STATUS"),
         Incoming(c).code \in Answers, fileTransferModeActive, GoesOn(c, "answering", Incoming(c))
  PROVE  TransferInv'
<1>0. /\ RequestInv /\ AnswerInv /\ VerdictInv /\ HoldInv /\ DataInv /\ TidyInv
      /\ RequestFits(c) /\ AnswerFits(c) /\ VerdictFits(c) /\ HoldFits(c) /\ DataFits(c)
      /\ UNCHANGED <<fileTransferModeActive, isFileTransferSender, fileTransferStatus, sessions>>
      /\ Owner(c)' <=> Owner(c)
  BY HandlersOwn DEF TransferInv, RequestInv, AnswerInv, VerdictInv, HoldInv, DataInv,
                     TransferIdle, Owner
<1>1. pc'[c] = "answering" /\ hand'[c] = Incoming(c)
  BY DEF GoesOn, SystemInv, MessengerInv, TypeInv, TypeOK
<1>2. /\ \A e \in Clients : InFewer(e)
      /\ \A e \in Clients \ {c} : QuietFor(e) /\ LessKnown(e)
      /\ Asked(c)' = Asked(c) /\ MayStart(c)' = MayStart(c) /\ Concludes(c)' = Concludes(c)
      /\ \A type : Comes(c, type)' = Comes(c, type)
  BY HandlersOnlyOwn
<1>3. /\ OutFewer(c) /\ pc[c] = "poll" /\ Goes(c, "STATUS") /\ Says(c, Incoming(c).code)
      /\ ~Goes(c, "STATUS")'
      /\ transfer'[c] = transfer[c] /\ task'[c] = task[c] /\ Current(c)' = Current(c)
  BY <1>0, HandlersTake, HandlersOwn DEF TidyInv
<1>4. /\ ~Untouched /\ ~Asked(c) /\ ~Owner(c)
      /\ fileTransferStatus[c] \notin Answers
  BY <1>0, <1>3 DEF Untouched, AnswerFits
<1>5. /\ Goes(c, "FILE_REQUEST")' => Goes(c, "FILE_REQUEST")
      /\ Goes(c, "FILE_DATA")' => Goes(c, "FILE_DATA")
      /\ Says(c, "AcceptFileTransfer")' => Says(c, "AcceptFileTransfer")
      /\ Closes(c)' => Closes(c)
  BY <1>3 DEF OutFewer, OutKinds, Answers
<1>6. RequestFits(c)' /\ AnswerFits(c)'
  <2>1. RequestFits(c)'
    BY <1>0, <1>1, <1>3, <1>4, <1>5 DEF RequestFits
  <2>2. AnswerFits(c)'
    BY <1>0, <1>1, <1>2, <1>3, <1>4, PlainMessages DEF AnswerFits, Answers, Verdicts
  <2> QED BY <2>1, <2>2
<1>7. VerdictInv'
  <2> SUFFICES ASSUME NEW e \in Clients, Decided(e)'
               PROVE  VerdictFits(e)'
    BY DEF VerdictInv, VerdictFits
  <2>1. Decided(e) /\ VerdictFits(e)
    BY <1>0, <1>2, <1>3, <1>5 DEF VerdictInv, LessKnown, Decided, MayStart
  <2>2. e # c /\ ~Current(c)
    BY <1>3, <1>4, <2>1 DEF VerdictFits
  <2>3. \A d \in Clients \ {c} : StillAnswered(d)
    BY <1>2, LessStays
  <2> QED BY <1>3, <2>1, <2>2, <2>3 DEF VerdictFits, StillAnswered, Owner
<1>8. HoldInv'
  <2>1. HoldFits(c)'
    BY <1>0, <1>1, <1>2, <1>3, <1>5 DEF HoldFits
  <2> QED BY <1>0, <1>2, <2>1, LessHolds
<1>9. Done => Done'
  BY <1>2, <1>3, <1>5, DoneStays DEF LessKnown
<1>10. DataFits(c)'
  <2>1. Accepted(c)' => Accepted(c)
    BY <1>0, <1>1, <1>3, <1>5 DEF Accepted
  <2> QED BY <1>0, <1>2, <1>3, <1>9, <2>1 DEF DataFits
<1>11. TidyInv'
  BY <1>0, <1>2, <1>3 DEF TidyInv, QuietFor, OutFewer, InFewer
<1> QED BY <1>2, <1>4, <1>6, <1>7, <1>8, <1>9, <1>10, <1>11, OneLearns

\* STATUS: an answer counts while a transfer is active, and else is refused.
LEMMA StatusHandler ==
  ASSUME SystemInv, TransferInv, UNCHANGED <<clientVars, requested>>, NEW c \in Clients,
         ReceiveStatus(c)
  PROVE  TransferInv'
<1>0. HandlerStep(c) /\ Reads(c, "STATUS") /\ TransferIdle
  BY DEF HandlerStep, ReceiveStatus
<1>1. CASE Incoming(c).code \in Answers /\ fileTransferModeActive
  BY <1>0, <1>1, AnswerIsTaken DEF ReceiveStatus
<1>2. CASE Incoming(c).code \in Answers /\ ~fileTransferModeActive
  <2>1. ~Untouched
    BY <1>0, HandlersTake DEF Untouched, UntouchedBy
  <2> QED BY <1>0, <1>2, <2>1, RefusalKeeps DEF ReceiveStatus
<1>3. CASE Incoming(c).code \notin Answers
  <2>1. UNCHANGED <<sendingQueue, pc, hand>>
    BY <1>3 DEF ReceiveStatus
  <2> QED BY <1>0, <2>1, HandlersOnlyOwn, QuietHandler, QuietKeeps
<1> QED BY <1>1, <1>2, <1>3

\* The answer is saved.
LEMMA AnswerIsSaved ==
  ASSUME SystemInv, TransferInv, UNCHANGED <<clientVars, requested>>, NEW c \in Clients,
         SaveAnswer(c)
  PROVE  TransferInv'
<1>0. /\ RequestInv /\ AnswerInv /\ VerdictInv /\ HoldInv /\ DataInv /\ TidyInv
      /\ RequestFits(c) /\ AnswerFits(c) /\ VerdictFits(c) /\ HoldFits(c) /\ DataFits(c)
      /\ HandlerStep(c) /\ (Owner(c)' <=> Owner(c))
  BY DEF TransferInv, RequestInv, AnswerInv, VerdictInv, HoldInv, DataInv, HandlerStep,
         SaveAnswer, Owner
<1>1. /\ UNCHANGED <<toServer, sendingQueue, fileTransferModeActive, isFileTransferSender, sessions>>
      /\ pc[c] = "answering" /\ pc'[c] = "scanning"
      /\ fileTransferStatus'[c] = hand[c].code
  BY DEF SaveAnswer, ServerIdle, GoesOn, SystemInv, MessengerInv, TypeInv, TypeOK
<1>2. /\ \A e \in Clients : InFewer(e)
      /\ \A e \in Clients \ {c} : QuietFor(e) /\ LessKnown(e)
      /\ Asked(c)' = Asked(c) /\ MayStart(c)' = MayStart(c) /\ Concludes(c)' = Concludes(c)
      /\ \A type : Comes(c, type)' = Comes(c, type)
  BY <1>0, <1>1, HandlersOnlyOwn
<1>3. /\ transfer'[c] = transfer[c] /\ task'[c] = task[c]
      /\ Current(c)' = Current(c) /\ Served(c)' = Served(c) /\ Outgoing(c)' = Outgoing(c)
  BY <1>0, <1>1, HandlersOwn DEF Outgoing, clientVars
<1>4. /\ \A type : Goes(c, type)' = Goes(c, type)
      /\ \A code : Says(c, code)' = Says(c, code)
      /\ Closes(c)' = Closes(c) /\ (OutTidy(c) => OutTidy(c)')
  BY <1>3 DEF Goes, Says, Closes, OutTidy
<1>5. /\ ~Untouched /\ ~Asked(c) /\ ~Owner(c) /\ ~Goes(c, "STATUS") /\ hand[c].code \in Answers
      /\ fileTransferStatus[c] \notin Answers
  BY <1>0, <1>1 DEF Untouched, UntouchedBy, Deciding, AnswerFits
<1>6. RequestFits(c)' /\ AnswerFits(c)'
  <2>1. RequestFits(c)'
    BY <1>0, <1>1, <1>3, <1>4, <1>5 DEF RequestFits
  <2>2. AnswerFits(c)'
    BY <1>0, <1>1, <1>2, <1>3, <1>4, <1>5 DEF AnswerFits, Answers, Verdicts
  <2> QED BY <2>1, <2>2
<1>7. VerdictInv'
  <2>1. StillAnswered(c)
    BY <1>1, <1>2, <1>3, <1>4 DEF StillAnswered
  <2>2. Decided(c)' => Decided(c)
    BY <1>2, <1>4 DEF Decided
  <2> QED BY <1>0, <1>2, <1>5, <2>1, <2>2, LessVerdicts DEF VerdictFits
<1>8. HoldInv'
  <2>1. HoldFits(c)'
    BY <1>0, <1>1, <1>2, <1>3, <1>4 DEF HoldFits
  <2> QED BY <1>0, <1>1, <1>2, <2>1, LessHolds
<1>9. Done => Done'
  BY <1>2, <1>3, <1>4, DoneStays DEF LessKnown
<1>10. DataFits(c)'
  <2>1. Accepted(c)' => Accepted(c)
    BY <1>1, <1>4 DEF Accepted
  <2>2. ~Comes(c, "FILE_DATA")
    BY <1>0, <1>5 DEF DataFits, Answers
  <2> QED BY <1>0, <1>2, <1>3, <1>9, <2>1, <2>2 DEF DataFits
<1>11. TidyInv'
  BY <1>0, <1>2, <1>4 DEF TidyInv, QuietFor, OutFewer, InFewer
<1> QED BY <1>2, <1>5, <1>6, <1>7, <1>8, <1>9, <1>10, <1>11, OneLearns

\* The last answer is there, and the sender is told the verdict: everybody else has
\* answered, for who is not registered has not been asked.
LEMMA VerdictIsTold ==
  ASSUME SystemInv, StrangerInv, TransferInv, UNCHANGED <<clientVars, requested>>,
         NEW c \in Clients, ScanAnswers(c), AllConfirmed(c), NEW p \in Clients, IsSender(c, p),
         sendingQueue' = Reply(p, Verdict(c))
  PROVE  TransferInv'
<1> DEFINE m == Verdict(c)
<1>0. /\ RequestInv /\ AnswerInv /\ VerdictInv /\ HoldInv /\ DataInv /\ TidyInv
      /\ RequestFits(p) /\ AnswerFits(p) /\ VerdictFits(p) /\ HoldFits(p) /\ DataFits(p)
      /\ AnswerFits(c) /\ HandlerStep(c) /\ MessengerInv
      /\ \A e \in Clients : Owner(e)' <=> Owner(e)
  BY DEF TransferInv, RequestInv, AnswerInv, VerdictInv, HoldInv, DataInv, HandlerStep, Owner,
         SystemInv
<1>1. /\ UNCHANGED <<toServer, fileTransferModeActive, isFileTransferSender, fileTransferStatus>>
      /\ UNCHANGED sessions /\ pc[c] = "scanning" /\ pc'[c] = "poll"
  BY DEF ScanAnswers, ServerIdle, TransferIdle, Finishes, GoesOn, SystemInv, MessengerInv,
         TypeInv, TypeOK
<1>2. /\ m \in Messages /\ m.type = "STATUS" /\ m.code \in Answers
      /\ sendingQueue \in [Clients -> Seq(Messages)]
  BY <1>0, MessageTypes DEF Verdict, Status, StatusCodes, Answers, MessengerInv, TypeInv, TypeOK
<1> HIDE DEF m
<1>3. /\ p \in sessions /\ p # c /\ isFileTransferSender[p] /\ Owner(p)
  BY <1>0 DEF IsSender, Flagged, Peers, RequestFits
<1>4. sendingQueue'[p] = Push(sendingQueue[p], m)
      /\ \A e \in Clients \ {p} : sendingQueue'[e] = sendingQueue[e]
  BY <1>2 DEF Reply, m
<1>5. ASSUME NEW e \in Clients \ {p} PROVE QuietFor(e) /\ LessKnown(e)
  <2>1. InFewer(e)
    BY <1>0, <1>4, HandlersTell
  <2>2. CASE e # c
    BY <1>0, <2>1, <2>2, HandlersSpareOthers, QuietIsLess
  <2>3. CASE e = c
    <3>1. Outgoing(c)' = Outgoing(c)
      BY <1>1 DEF Outgoing, clientVars
    <3>2. OutFewer(c)
      BY <1>0, <3>1, HandlersOwn, OutLess
    <3>3. QuietFor(c)
      BY <1>0, <1>1, <2>1, <2>3, <3>2, HandlersOwn DEF QuietFor, Deciding
    <3> QED BY <2>3, <3>3, QuietIsLess
  <2> QED BY <2>2, <2>3
<1>6. ToCome(p) \in Seq(Messages) /\ (ToCome(p)' = ToCome(p) \/ ToCome(p)' = Append(ToCome(p), m))
  <2>1. UNCHANGED toClient
    BY <1>0, HandlersLeaveClients
  <2> QED BY <1>0, <1>2, <1>4, <2>1, PushedLine, LinesType
<1>7. /\ \A type \in InKinds : Has(ToCome(p)', type) => Has(ToCome(p), type)
      /\ Once(ToCome(p), "FILE_REQUEST") => Once(ToCome(p)', "FILE_REQUEST")
      /\ Ending(ToCome(p)') => Ending(ToCome(p))
      /\ LastIsLast(ToCome(p)) => LastIsLast(ToCome(p)')
  <2>1. CASE ToCome(p)' = ToCome(p)
    BY <2>1
  <2>2. CASE ToCome(p)' = Append(ToCome(p), m)
    BY <1>2, <1>6, <2>2, LongerLine DEF InKinds
  <2> QED BY <1>6, <2>1, <2>2
<1>8. /\ pc'[p] = pc[p] /\ hand'[p] = hand[p] /\ Outgoing(p)' = Outgoing(p)
      /\ transfer'[p] = transfer[p] /\ task'[p] = task[p]
      /\ Current(p)' = Current(p) /\ Served(p)' = Served(p)
  BY <1>0, <1>3, HandlersOwn
<1>9. /\ \A type : Goes(p, type)' = Goes(p, type)
      /\ \A code : Says(p, code)' = Says(p, code)
      /\ Closes(p)' = Closes(p) /\ (OutTidy(p) => OutTidy(p)')
      /\ \A type \in InKinds : Comes(p, type)' => Comes(p, type)
      /\ Asked(p)' => Asked(p)
      /\ Concludes(p)' => Concludes(p)
      /\ InTidy(p) => InTidy(p)'
  BY <1>7, <1>8 DEF Goes, Says, Closes, OutTidy, Comes, Asked, Concludes, InTidy, InKinds
<1>10. RequestFits(p)' /\ AnswerFits(p)'
  <2>1. ~Untouched
    BY <1>1 DEF Untouched, UntouchedBy, Deciding
  <2>2. RequestFits(p)'
    BY <1>0, <1>1, <1>3, <1>8, <1>9, <2>1 DEF RequestFits
  <2>3. AnswerFits(p)'
    BY <1>0, <1>1, <1>8, <1>9 DEF AnswerFits, InKinds
  <2> QED BY <2>2, <2>3
<1>11. ASSUME NEW d \in Clients \ {p}, Current(d)
       PROVE  ~Asked(d) /\ ~Goes(d, "STATUS") /\ pc[d] # "answering"
  <2>1. CASE d \in sessions
    <3>1. fileTransferStatus[d] \in Answers
      BY <1>0, <1>1, <2>1 DEF AllConfirmed, Peers, AnswerInv, AnswerFits, Verdicts
    <3>2. ~Owner(d)
      BY <1>0, <1>3 DEF RequestInv
    <3> QED BY <1>0, <3>1, <3>2 DEF AnswerInv, AnswerFits
  <2>2. CASE d \notin sessions
    <3>1. /\ ToCome(d) = <<>> /\ task[d] # "asking" /\ ~Goes(d, "STATUS")
      BY <1>11, <2>2 DEF StrangerInv, StrangeFits, Stranger
    <3>2. ~Asked(d)
      BY <3>1, EmptyLine DEF Asked
    <3>3. pc[d] # "answering"
      BY <2>2 DEF SystemInv, IInv, ThreadsInv, HandlersRegistered
    <3> QED BY <3>1, <3>2, <3>3
  <2> QED BY <2>1, <2>2
<1>12. VerdictInv'
  <2>1. VerdictFits(p)'
    <3>1. \A d \in Clients \ {p} : StillAnswered(d)
      BY <1>5, LessStays
    <3> QED BY <1>0, <1>3, <1>11, <3>1 DEF VerdictFits, StillAnswered
  <2>2. StillAnswered(p)
    BY <1>8, <1>9 DEF StillAnswered
  <2> QED BY <1>0, <1>5, <2>1, <2>2, LessVerdicts
<1>13. HoldInv'
  <2>1. HoldFits(p)'
    BY <1>0, <1>1, <1>3, <1>8, <1>9 DEF HoldFits
  <2> QED BY <1>0, <1>1, <1>5, <2>1, LessHolds
<1>14. Done => Done'
  BY <1>5, <1>8, <1>9, DoneStays DEF LessKnown
<1>15. DataFits(p)'
  <2>1. Accepted(p)' => Accepted(p)
    BY <1>1, <1>8, <1>9 DEF Accepted
  <2> QED BY <1>0, <1>1, <1>8, <1>9, <1>14, <2>1 DEF DataFits, InKinds
<1>16. TidyInv'
  <2>1. OutTidy(p)' /\ InTidy(p)'
    BY <1>0, <1>9 DEF TidyInv
  <2>2. \A e \in Clients \ {p} : OutTidy(e)' /\ InTidy(e)'
    BY <1>0, <1>5 DEF TidyInv, QuietFor, OutFewer, InFewer
  <2> QED BY <2>1, <2>2 DEF TidyInv
<1>17. ~Untouched
  BY <1>1 DEF Untouched, UntouchedBy, Deciding
<1> QED BY <1>5, <1>10, <1>12, <1>13, <1>14, <1>15, <1>16, <1>17, OneLearns

\* Every answer is followed by a look whether it was the last.
LEMMA ScanKeeps ==
  ASSUME SystemInv, StrangerInv, TransferInv, UNCHANGED <<clientVars, requested>>,
         NEW c \in Clients, ScanAnswers(c)
  PROVE  TransferInv'
<1>1. CASE ~Alone(c) /\ AllConfirmed(c) /\ Flagged(c) # {}
  BY <1>1, VerdictIsTold DEF ScanAnswers
<1>2. CASE ~(~Alone(c) /\ AllConfirmed(c) /\ Flagged(c) # {})
  <2>1. /\ UNCHANGED <<toServer, sendingQueue>> /\ TransferIdle /\ HandlerStep(c)
        /\ pc'[c] = "poll"
    BY <1>2 DEF ScanAnswers, HandlerStep, Finishes, GoesOn, SystemInv, MessengerInv, TypeInv, TypeOK
  <2> QED BY <2>1, HandlersOnlyOwn, QuietHandler, QuietKeeps DEF Deciding
<1> QED BY <1>1, <1>2

\* FILE_REQUEST: the first is passed on, for no transfer is active yet.
LEMMA RequestHandler ==
  ASSUME SystemInv, TransferInv, UNCHANGED <<clientVars, requested>>, NEW c \in Clients,
         ReceiveFileRequest(c)
  PROVE  TransferInv'
<1>0. /\ RequestInv /\ AnswerInv /\ VerdictInv /\ HoldInv /\ DataInv /\ TidyInv
      /\ RequestFits(c) /\ AnswerFits(c) /\ VerdictFits(c) /\ HoldFits(c) /\ DataFits(c)
      /\ HandlerStep(c) /\ Reads(c, "FILE_REQUEST") /\ TransferIdle
      /\ Owner(c)' <=> Owner(c)
  BY DEF TransferInv, RequestInv, AnswerInv, VerdictInv, HoldInv, DataInv, HandlerStep,
         ReceiveFileRequest, Owner
<1>1. CASE fileTransferModeActive
  BY <1>0, <1>1, RefusalKeeps DEF ReceiveFileRequest, Untouched
<1>2. CASE ~fileTransferModeActive
  <2>1. /\ UNCHANGED <<fileTransferModeActive, isFileTransferSender, fileTransferStatus>>
        /\ UNCHANGED <<sendingQueue, sessions>> /\ pc'[c] = "requesting"
    BY <1>2 DEF ReceiveFileRequest, TransferIdle, ServerIdle, GoesOn, SystemInv, MessengerInv,
                TypeInv, TypeOK
  <2>2. /\ \A e \in Clients : InFewer(e)
        /\ \A e \in Clients \ {c} : QuietFor(e) /\ LessKnown(e)
        /\ Asked(c)' = Asked(c) /\ MayStart(c)' = MayStart(c) /\ Concludes(c)' = Concludes(c)
        /\ \A type : Comes(c, type)' = Comes(c, type)
    BY <1>0, <2>1, HandlersOnlyOwn
  <2>3. /\ OutFewer(c) /\ pc[c] = "poll" /\ Goes(c, "FILE_REQUEST")
        /\ ~Goes(c, "FILE_REQUEST")'
        /\ transfer'[c] = transfer[c] /\ task'[c] = task[c] /\ Current(c)' = Current(c)
    BY <1>0, HandlersTake, HandlersOwn DEF TidyInv
  <2>4. /\ Goes(c, "STATUS")' => Goes(c, "STATUS")
        /\ Goes(c, "FILE_DATA")' => Goes(c, "FILE_DATA")
        /\ Says(c, "AcceptFileTransfer")' => Says(c, "AcceptFileTransfer")
        /\ Closes(c)' => Closes(c)
    BY <2>3 DEF OutFewer, OutKinds, Answers
  <2>5. Owner(c) /\ Untouched
    BY <1>0, <2>3 DEF RequestFits
  <2>6. Untouched'
    <3>1. UntouchedBy(c)'
      <4>1. UntouchedBy(c)
        BY <2>5 DEF Untouched
      <4>2. \A code \in Verdicts : ~Tells(c, code)'
        BY <2>2, <4>1 DEF UntouchedBy, InFewer
      <4> QED BY <2>1, <2>2, <2>3, <2>4, <4>1, <4>2 DEF UntouchedBy, Deciding
    <3>2. ASSUME NEW e \in Clients \ {c} PROVE UntouchedBy(e)'
      <4>1. UntouchedBy(e) /\ LessKnown(e)
        BY <2>2, <2>5 DEF Untouched
      <4>2. \A code \in Verdicts : ~Tells(e, code)'
        BY <2>2, <4>1 DEF UntouchedBy, InFewer
      <4> QED BY <4>1, <4>2 DEF UntouchedBy, LessKnown, Deciding
    <3> QED BY <2>1, <2>5, <3>1, <3>2 DEF Untouched
  <2>7. RequestFits(c)'
    BY <1>0, <2>1, <2>3, <2>4, <2>5, <2>6 DEF RequestFits
  <2>8. AnswerFits(c)'
    BY <1>0, <2>1, <2>2, <2>3, <2>4 DEF AnswerFits
  <2>9. VerdictInv'
    <3>1. StillAnswered(c)
      BY <2>1, <2>2, <2>3, <2>4 DEF StillAnswered
    <3>2. VerdictFits(c)'
      <4>1. Decided(c)' => Decided(c)
        BY <2>2, <2>4 DEF Decided
      <4>2. \A d \in Clients \ {c} : StillAnswered(d)
        BY <2>2, LessStays
      <4> QED BY <1>0, <4>1, <4>2, VerdictStays
    <3> QED BY <1>0, <2>2, <3>1, <3>2, LessVerdicts
  <2>10. HoldInv'
    <3>1. HoldFits(c)'
      BY <1>0, <2>1, <2>2, <2>3, <2>4 DEF HoldFits
    <3> QED BY <1>0, <2>1, <2>2, <3>1, LessHolds
  <2>11. Done => Done'
    BY <2>2, <2>3, <2>4, DoneStays DEF LessKnown
  <2>12. DataFits(c)'
    <3>1. Accepted(c)' => Accepted(c)
      BY <2>1, <2>3, <2>4 DEF Accepted
    <3> QED BY <1>0, <2>1, <2>2, <2>3, <2>11, <3>1 DEF DataFits
  <2>13. TidyInv'
    <3>1. OutTidy(c)'
      BY <1>0, <2>3 DEF TidyInv, OutFewer
    <3> QED BY <1>0, <2>2, <3>1 DEF TidyInv, QuietFor, OutFewer, InFewer
  <2> QED BY <2>2, <2>6, <2>7, <2>8, <2>9, <2>10, <2>11, <2>12, <2>13, OneLearns
<1> QED BY <1>1, <1>2

\* The last block of a file is a block.
LEMMA EndingHas == \A line : Ending(line) => Has(line, "FILE_DATA")
BY DEF Ending, Has

\* As long as all is untouched, what else the invariants say is true of everybody.
LEMMA NothingYet ==
  ASSUME NEW c \in Clients, UntouchedBy(c)
  PROVE  /\ ~Asked(c) /\ ~MayStart(c) /\ ~Decided(c) /\ ~Accepted(c) /\ ~Closes(c)
         /\ ~Concludes(c)
         /\ AnswerFits(c) /\ VerdictFits(c) /\ HoldFits(c) /\ DataFits(c)
<1>1. /\ ~Comes(c, "FILE_REQUEST") /\ ~Comes(c, "FILE_DATA")
      /\ ~Tells(c, "AcceptFileTransfer")
      /\ Current(c) => task[c] # "asking" /\ ~transfer[c].isReceivingFile
      /\ ~transfer[c].hasFileTransferStarted
      /\ ~Goes(c, "STATUS") /\ ~Goes(c, "FILE_DATA")
      /\ fileTransferStatus[c] = "FileTransferCanceled"
      /\ ~isFileTransferSender[c]
      /\ pc[c] \notin Deciding
  BY DEF UntouchedBy, Verdicts, Answers
<1>2. ~Asked(c) /\ ~MayStart(c) /\ ~Decided(c)
  BY <1>1 DEF Asked, MayStart, Decided, Comes
<1>3. ~Says(c, "AcceptFileTransfer")
  BY <1>1 DEF Says, Goes, Gives, Has
<1>4. ~Accepted(c)
  BY <1>1, <1>3 DEF Accepted, Deciding
<1>5. ~Closes(c) /\ ~Concludes(c)
  BY <1>1, EndingHas DEF Closes, Concludes, Goes, Comes
<1>6. AnswerFits(c)
  BY <1>1, <1>2 DEF AnswerFits, Deciding, Answers, Verdicts
<1>7. VerdictFits(c) /\ HoldFits(c) /\ DataFits(c)
  BY <1>1, <1>2, <1>4, <1>5 DEF VerdictFits, HoldFits, DataFits, Deciding
<1> QED BY <1>2, <1>4, <1>5, <1>6, <1>7

\* The first request goes to everybody else, and the transfer is active.
LEMMA AnnounceKeeps ==
  ASSUME SystemInv, TransferInv, UNCHANGED <<clientVars, requested>>, NEW c \in Clients,
         AnnounceTransfer(c)
  PROVE  TransferInv'
<1>0. /\ RequestInv /\ RequestFits(c) /\ TidyInv /\ HandlerStep(c) /\ TypeOK /\ MessengerInv
      /\ sendingQueue \in [Clients -> Seq(Messages)] /\ UNCHANGED toClient
      /\ \A e \in Clients : Owner(e)' <=> Owner(e)
  BY HandlersLeaveClients DEF TransferInv, RequestInv, HandlerStep, Owner, SystemInv, MessengerInv, TypeInv, TypeOK
<1>1. CASE Alone(c)
  <2>1. /\ UNCHANGED toServer /\ TransferIdle /\ pc'[c] = "poll"
        /\ sendingQueue' = Reply(c, Status("ChattingAlone"))
    BY <1>0, <1>1 DEF AnnounceTransfer, TransferIdle, Finishes, GoesOn, TypeOK
  <2>2. \A e \in Clients : InFewer(e)
    BY <1>0, <2>1, HandlersTell, PlainMessages DEF Reply
  <2> QED BY <1>0, <2>1, <2>2, QuietHandler, QuietKeeps DEF Deciding
<1>2. CASE ~Alone(c)
  <2> DEFINE m == FileRequest(nickName[c], hand[c].file)
  <2>1. /\ UNCHANGED <<toServer, isFileTransferSender, fileTransferStatus, sessions>>
        /\ pc[c] = "requesting" /\ pc'[c] = "flagging" /\ fileTransferModeActive' = TRUE
        /\ sendingQueue' = Sent(Peers(c), m)
    BY <1>0, <1>2 DEF AnnounceTransfer, ServerIdle, GoesOn, TypeOK
  <2>2. m \in Messages /\ m.type = "FILE_REQUEST"
    <3>1. hand[c].file \in Files /\ nickName[c] \in Names
      BY <2>1, MessageFields DEF SystemInv, MessengerInv, TypeInv, TypeOK, HandsFit
    <3> QED BY <3>1, MessageTypes DEF FileRequest
  <2>3. Owner(c) /\ Untouched /\ ~Goes(c, "FILE_REQUEST")
    BY <1>0, <2>1 DEF RequestFits
  <2>4. \A e \in Clients : UntouchedBy(e)
    BY <2>3 DEF Untouched
  <2> HIDE DEF m
  <2>5. /\ \A e \in Clients \ {c} : pc'[e] = pc[e] /\ hand'[e] = hand[e]
        /\ \A e \in Clients : /\ Outgoing(e)' = Outgoing(e) /\ Served(e)' = Served(e)
                              /\ transfer'[e] = transfer[e] /\ task'[e] = task[e]
                              /\ Current(e)' = Current(e)
    BY <1>0, <2>1, HandlersOwn DEF Outgoing, clientVars
  <2>6. ASSUME NEW e \in Clients
        PROVE  /\ \A type : Goes(e, type)' = Goes(e, type)
               /\ \A code : Says(e, code)' = Says(e, code)
               /\ Closes(e)' = Closes(e)
               /\ OutTidy(e)' = OutTidy(e)
    BY <2>5 DEF Goes, Says, Closes, OutTidy
  <2>7. ASSUME NEW e \in Clients
        PROVE  /\ ~Comes(e, "FILE_DATA")' /\ ~Concludes(e)'
               /\ ~Tells(e, "AcceptFileTransfer")'
               /\ InTidy(e)'
               /\ e = c => ~Comes(e, "FILE_REQUEST")'
    <3>1. /\ ~Comes(e, "FILE_DATA") /\ ~Comes(e, "FILE_REQUEST")
          /\ ~Tells(e, "AcceptFileTransfer") /\ ~Concludes(e) /\ InTidy(e)
      BY <1>0, <2>4, NothingYet DEF UntouchedBy, Verdicts, Answers, TidyInv
    <3>2. CASE ToCome(e)' = ToCome(e)
      BY <2>5, <3>1, <3>2 DEF Comes, Tells, Concludes, InTidy
    <3>3. CASE ToCome(e)' = Append(ToCome(e), m) /\ e # c
      <4>1. ToCome(e) \in Seq(Messages)
        BY <1>0, LinesType
      <4>2. /\ Has(ToCome(e)', "FILE_DATA") => Has(ToCome(e), "FILE_DATA")
            /\ (Once(ToCome(e), "FILE_REQUEST") /\ ~Has(ToCome(e), "FILE_REQUEST"))
                 => Once(ToCome(e)', "FILE_REQUEST")
            /\ Gives(ToCome(e)', "AcceptFileTransfer") => Gives(ToCome(e), "AcceptFileTransfer")
            /\ Ending(ToCome(e)') => Ending(ToCome(e))
            /\ LastIsLast(ToCome(e)) => LastIsLast(ToCome(e)')
        BY <2>2, <3>3, <4>1, LongerLine
      <4> QED BY <2>5, <3>1, <3>3, <4>2 DEF Comes, Tells, Concludes, InTidy
    <3>4. CASE e \notin Peers(c)
      <4>1. sendingQueue'[e] = sendingQueue[e]
        BY <2>1, <3>4 DEF Sent
      <4>2. ToCome(e)' = ToCome(e)
        BY <1>0, <4>1 DEF ToCome
      <4> QED BY <3>2, <4>2
    <3>5. CASE e \in Peers(c)
      <4>1. sendingQueue'[e] = Push(sendingQueue[e], m) /\ e # c
        BY <2>1, <3>5 DEF Sent, Peers
      <4> QED BY <1>0, <2>2, <3>2, <3>3, <4>1, PushedLine
    <3> QED BY <3>4, <3>5
  <2>8. ASSUME NEW e \in Clients
        PROVE  /\ ~MayStart(e)' /\ ~Decided(e)' /\ ~Accepted(e)'
               /\ ~Closes(e)' /\ ~Goes(e, "FILE_DATA")' /\ ~Goes(e, "STATUS")'
               /\ pc'[e] \notin Deciding \ {"flagging"} /\ ~isFileTransferSender'[e]
               /\ fileTransferStatus'[e] = "FileTransferCanceled"
               /\ Current(e)' => task'[e] # "asking" /\ ~transfer'[e].isReceivingFile
               /\ ~Owner(e) => pc'[e] # "flagging"
    <3>1. UntouchedBy(e) /\ ~MayStart(e) /\ ~Decided(e) /\ ~Accepted(e) /\ ~Closes(e)
      BY <2>4, NothingYet
    <3>2. pc'[e] \notin Deciding \ {"flagging"} /\ (~Owner(e) => pc'[e] # "flagging")
      BY <2>1, <2>3, <2>5, <3>1 DEF UntouchedBy, Deciding
    <3>3. ~MayStart(e)'
      BY <2>5, <2>7, <3>1 DEF MayStart
    <3>4. ~Goes(e, "FILE_DATA")' /\ ~Goes(e, "STATUS")' /\ ~Closes(e)'
      BY <2>6, <3>1 DEF UntouchedBy
    <3>5. ~Accepted(e)'
      BY <2>1, <2>6, <3>1, <3>2 DEF Accepted, UntouchedBy, Deciding
    <3> QED BY <2>1, <2>5, <3>1, <3>2, <3>3, <3>4, <3>5 DEF UntouchedBy, Decided
  <2>9. RequestInv'
    <3>1. ASSUME NEW e \in Clients PROVE RequestFits(e)'
      <4>1. RequestFits(e) /\ (Owner(e) => e = c)
        BY <1>0, <2>3 DEF RequestInv
      <4>2. ~Goes(e, "FILE_REQUEST")' /\ pc'[e] # "requesting"
        BY <2>1, <2>3, <2>5, <2>6, <4>1 DEF RequestFits
      <4>3. pc'[e] \in {"flagging", "accepting", "resetting"} => Owner(e)
        BY <2>8 DEF Deciding
      <4> QED BY <1>0, <2>5, <2>8, <4>1, <4>2, <4>3 DEF RequestFits
    <3>2. requested # {}
      BY <2>3 DEF Owner
    <3> QED BY <1>0, <3>1, <3>2 DEF RequestInv
  <2>10. ASSUME NEW e \in Clients
         PROVE  AnswerFits(e)' /\ VerdictFits(e)' /\ HoldFits(e)' /\ DataFits(e)'
    <3>1. Owner(e) => ~Asked(e)'
      <4>1. Owner(e) => e = c
        BY <1>0, <2>3 DEF RequestInv
      <4> QED BY <2>7, <2>8, <4>1 DEF Asked, Comes
    <3>2. AnswerFits(e)'
      BY <1>0, <2>8, <3>1 DEF AnswerFits, Deciding, Answers, Verdicts
    <3>3. VerdictFits(e)' /\ DataFits(e)'
      BY <2>7, <2>8 DEF VerdictFits, DataFits
    <3>4. HoldFits(e)'
      BY <2>1, <2>8 DEF HoldFits
    <3> QED BY <3>2, <3>3, <3>4
  <2>11. TidyInv'
    BY <1>0, <2>6, <2>7 DEF TidyInv
  <2> QED BY <2>9, <2>10, <2>11 DEF TransferInv, AnswerInv, VerdictInv, HoldInv, DataInv
<1> QED BY <1>1, <1>2

\* The sender's session marks it, counts it among those who accept, and at the end
\* forgets that: nobody else is concerned.
LEMMA SenderHandlers ==
  ASSUME SystemInv, TransferInv, UNCHANGED <<clientVars, requested>>, NEW c \in Clients,
         FlagSender(c) \/ AcceptOwnTransfer(c) \/ ResetStatus(c)
  PROVE  TransferInv'
<1>0. /\ RequestInv /\ AnswerInv /\ VerdictInv /\ HoldInv /\ DataInv /\ TidyInv
      /\ RequestFits(c) /\ AnswerFits(c) /\ VerdictFits(c) /\ HoldFits(c) /\ DataFits(c)
      /\ HandlerStep(c) /\ (Owner(c)' <=> Owner(c)) /\ c \in sessions
  BY HandlersOwn DEF TransferInv, RequestInv, AnswerInv, VerdictInv, HoldInv, DataInv, HandlerStep,
                     Owner
<1>1. /\ UNCHANGED <<toServer, sendingQueue, fileTransferModeActive, sessions>>
      /\ pc[c] \in {"flagging", "accepting", "resetting"} /\ pc'[c] \in {"accepting", "poll"}
      /\ fileTransferStatus'[c]
           \in {fileTransferStatus[c], "AcceptFileTransfer", "FileTransferCanceled"}
      /\ isFileTransferSender[c] => isFileTransferSender'[c]
      /\ isFileTransferSender'[c] => isFileTransferSender[c] \/ pc[c] = "flagging"
  BY DEF FlagSender, AcceptOwnTransfer, ResetStatus, ServerIdle, Finishes, GoesOn, SystemInv,
         MessengerInv, TypeInv, TypeOK
<1>2. /\ \A e \in Clients : InFewer(e)
      /\ \A e \in Clients \ {c} : QuietFor(e) /\ LessKnown(e)
      /\ Asked(c)' = Asked(c) /\ MayStart(c)' = MayStart(c) /\ Concludes(c)' = Concludes(c)
      /\ \A type : Comes(c, type)' = Comes(c, type)
  BY <1>0, <1>1, HandlersOnlyOwn
<1>3. /\ transfer'[c] = transfer[c] /\ task'[c] = task[c]
      /\ Current(c)' = Current(c) /\ Served(c)' = Served(c) /\ Outgoing(c)' = Outgoing(c)
  BY <1>0, <1>1, HandlersOwn DEF Outgoing, clientVars
<1>4. /\ \A type : Goes(c, type)' = Goes(c, type)
      /\ Closes(c)' = Closes(c) /\ (OutTidy(c) => OutTidy(c)')
  BY <1>3 DEF Goes, Closes, OutTidy
<1>5. Owner(c) /\ ~Untouched
  BY <1>0, <1>1 DEF RequestFits, Untouched, UntouchedBy, Deciding
<1>6. RequestFits(c)' /\ AnswerFits(c)'
  <2>1. RequestFits(c)'
    BY <1>0, <1>1, <1>3, <1>4, <1>5 DEF RequestFits
  <2>2. AnswerFits(c)'
    BY <1>0, <1>1, <1>2, <1>3, <1>4, <1>5 DEF AnswerFits, Answers, Verdicts
  <2> QED BY <2>1, <2>2
<1>7. VerdictInv'
  <2>1. StillAnswered(c)
    BY <1>1, <1>2, <1>3, <1>4 DEF StillAnswered
  <2>2. Decided(c)' => Decided(c)
    BY <1>2, <1>4 DEF Decided
  <2>3. \A d \in Clients \ {c} : StillAnswered(d)
    BY <1>2, LessStays
  <2> QED BY <1>0, <1>2, <2>1, <2>2, <2>3, LessVerdicts, VerdictStays
<1>8. HoldInv'
  <2>1. HoldFits(c)'
    BY <1>0, <1>1, <1>2, <1>3, <1>4 DEF HoldFits
  <2> QED BY <1>0, <1>1, <1>2, <2>1, LessHolds
<1>9. Done => Done'
  BY <1>2, <1>3, <1>4, DoneStays DEF LessKnown
<1>10. DataFits(c)'
  BY <1>0, <1>2, <1>3, <1>5, <1>9 DEF DataFits
<1>11. TidyInv'
  BY <1>0, <1>2, <1>4 DEF TidyInv, QuietFor, OutFewer, InFewer
<1> QED BY <1>2, <1>5, <1>6, <1>7, <1>8, <1>9, <1>10, <1>11, OneLearns

\* FILE_DATA: a block goes to those who have accepted, who are receiving, and with the
\* last one, which is the last its sender has sent, the transfer is over.
LEMMA BlockHandler ==
  ASSUME SystemInv, TransferInv, UNCHANGED <<clientVars, requested>>, NEW c \in Clients,
         ReceiveFileData(c)
  PROVE  TransferInv'
<1> DEFINE m == Incoming(c)
<1>0. /\ RequestInv /\ AnswerInv /\ VerdictInv /\ HoldInv /\ DataInv /\ TidyInv
      /\ HandlerStep(c) /\ Reads(c, "FILE_DATA") /\ MessengerInv
      /\ sendingQueue \in [Clients -> Seq(Messages)] /\ pc \in [Clients -> Steps]
      /\ isFileTransferSender \in [Clients -> BOOLEAN] /\ TypeOK
      /\ \A e \in Clients : Owner(e)' <=> Owner(e)
  BY DEF TransferInv, HandlerStep, ReceiveFileData, Owner, SystemInv, MessengerInv, TypeInv, TypeOK
<1>1. /\ sendingQueue' = Sent(Peers(c) \cap Accepting, m)
      /\ UNCHANGED <<fileTransferStatus, toClient, sessions>> /\ c \in sessions
      /\ pc'[c] \in {"poll", "resetting"}
      /\ \A e \in Clients \ {c} : pc'[e] = pc[e] /\ hand'[e] = hand[e]
      /\ \A e \in Clients \ {c} : isFileTransferSender'[e] = isFileTransferSender[e]
      /\ isFileTransferSender'[c] => isFileTransferSender[c]
      /\ \A e \in Clients : /\ Served(e)' = Served(e) /\ Current(e)' = Current(e)
                            /\ transfer'[e] = transfer[e] /\ task'[e] = task[e]
  <2>1. /\ sendingQueue' = Sent(Peers(c) \cap Accepting, m)
        /\ UNCHANGED <<fileTransferStatus, toClient>> /\ pc[c] = "poll"
        /\ pc' = [pc EXCEPT ![c] = "resetting"] \/ UNCHANGED pc
        /\ \/ UNCHANGED isFileTransferSender
           \/ isFileTransferSender' = [isFileTransferSender EXCEPT ![c] = FALSE]
    BY DEF ReceiveFileData, GoesOn, NetworkIdle, Reads, CanRead
  <2> QED BY <1>0, <2>1, HandlersOwn
<1>2. \/ UNCHANGED <<fileTransferModeActive, isFileTransferSender>>
      \/ m.last /\ isFileTransferSender'[c] = FALSE
  <2>1. \/ UNCHANGED <<fileTransferModeActive, isFileTransferSender>>
        \/ m.last /\ isFileTransferSender' = [isFileTransferSender EXCEPT ![c] = FALSE]
    BY DEF ReceiveFileData
  <2> QED BY <1>0, <2>1
<1>3. /\ m \in Messages /\ m.type = "FILE_DATA" /\ Goes(c, "FILE_DATA") /\ OutFewer(c)
      /\ m.last => Closes(c) /\ ~Goes(c, "FILE_DATA")'
  BY <1>0, HandlersTake DEF TidyInv
<1> HIDE DEF m
<1>4. /\ Owner(c) /\ ~Untouched /\ ~Done /\ Decided(c)
      /\ \A e \in Clients \ {c} : ~Owner(e)
  BY <1>0, <1>3 DEF RequestInv, RequestFits, Untouched, UntouchedBy, Done, Decided
<1>5. ASSUME NEW e \in Clients
      PROVE  \/ ToCome(e)' = ToCome(e)
             \/ ToCome(e)' = Append(ToCome(e), m) /\ e # c
                /\ fileTransferStatus[e] = "AcceptFileTransfer"
  <2>1. CASE e \notin Peers(c) \cap Accepting
    <3>1. sendingQueue'[e] = sendingQueue[e]
      BY <1>1, <2>1 DEF Sent
    <3> QED BY <1>1, <3>1 DEF ToCome
  <2>2. CASE e \in Peers(c) \cap Accepting
    <3>1. /\ sendingQueue'[e] = Push(sendingQueue[e], m) /\ e # c
          /\ fileTransferStatus[e] = "AcceptFileTransfer"
      BY <1>1, <2>2 DEF Sent, Peers, Accepting
    <3> QED BY <1>0, <1>1, <1>3, <3>1, PushedLine
  <2> QED BY <2>1, <2>2
<1>6. ASSUME NEW e \in Clients
      PROVE  /\ Has(ToCome(e)', "FILE_REQUEST") <=> Has(ToCome(e), "FILE_REQUEST")
             /\ Once(ToCome(e)', "FILE_REQUEST") <=> Once(ToCome(e), "FILE_REQUEST")
             /\ \A code : Gives(ToCome(e)', code) <=> Gives(ToCome(e), code)
             /\ Has(ToCome(e)', "FILE_DATA") =>
                  \/ Has(ToCome(e), "FILE_DATA")
                  \/ e # c /\ fileTransferStatus[e] = "AcceptFileTransfer"
             /\ Ending(ToCome(e)') => Ending(ToCome(e)) \/ m.last
             /\ LastIsLast(ToCome(e)) /\ ~Ending(ToCome(e)) => LastIsLast(ToCome(e)')
  <2>1. CASE ToCome(e)' = ToCome(e)
    BY <2>1
  <2>2. CASE ToCome(e)' = Append(ToCome(e), m) /\ e # c
             /\ fileTransferStatus[e] = "AcceptFileTransfer"
    <3>1. ToCome(e) \in Seq(Messages)
      BY <1>0, LinesType
    <3> QED BY <1>3, <2>2, <3>1, LongerLine
  <2> QED BY <1>5, <2>1, <2>2
<1>7. ASSUME NEW e \in Clients
      PROVE  /\ Comes(e, "FILE_REQUEST")' <=> Comes(e, "FILE_REQUEST")
             /\ Asked(e)' <=> Asked(e)
             /\ MayStart(e)' <=> MayStart(e)
             /\ Comes(e, "FILE_DATA")' =>
                  \/ Comes(e, "FILE_DATA")
                  \/ Current(e) /\ e # c /\ fileTransferStatus[e] = "AcceptFileTransfer"
             /\ Concludes(e)' => m.last
             /\ ~Concludes(e) /\ InTidy(e)'
  <2>1. ~Concludes(e) /\ InTidy(e)
    BY <1>0, <1>4 DEF DataInv, DataFits, TidyInv
  <2> QED BY <1>1, <1>6, <2>1 DEF Comes, Asked, MayStart, Tells, Concludes, InTidy
<1>8. ASSUME NEW e \in Clients
      PROVE  /\ \A type \in OutKinds : Goes(e, type)' => Goes(e, type)
             /\ \A code \in Answers : Says(e, code)' => Says(e, code)
             /\ Closes(e)' => Closes(e)
             /\ OutTidy(e)'
  <2>1. OutFewer(e)
    <3>1. CASE e = c
      BY <1>3, <3>1
    <3>2. CASE e # c
      BY <1>0, <3>2, HandlersOwn, OutLess
    <3> QED BY <3>1, <3>2
  <2> QED BY <1>0, <2>1 DEF OutFewer, TidyInv
<1>9. ASSUME NEW e \in Clients
      PROVE  /\ Goes(e, "FILE_REQUEST")' => Goes(e, "FILE_REQUEST")
             /\ Goes(e, "STATUS")' => Goes(e, "STATUS")
             /\ Goes(e, "FILE_DATA")' => Goes(e, "FILE_DATA")
             /\ Decided(e)' => Decided(e)
             /\ Accepted(e)' => Accepted(e)
             /\ StillAnswered(e)
  <2>1. /\ Goes(e, "FILE_REQUEST")' => Goes(e, "FILE_REQUEST")
        /\ Goes(e, "STATUS")' => Goes(e, "STATUS")
        /\ Goes(e, "FILE_DATA")' => Goes(e, "FILE_DATA")
        /\ Says(e, "AcceptFileTransfer")' => Says(e, "AcceptFileTransfer")
    BY <1>8 DEF OutKinds, Answers
  <2> QED BY <1>1, <1>7, <2>1 DEF Decided, Accepted, StillAnswered
<1>10. ASSUME NEW e \in Clients
       PROVE  RequestFits(e)' /\ AnswerFits(e)'
  <2>1. RequestFits(e) /\ AnswerFits(e)
    BY <1>0 DEF RequestInv, AnswerInv
  <2>2. ~Goes(e, "FILE_REQUEST")' /\ pc'[e] # "requesting"
    BY <1>1, <1>4, <1>9, <2>1 DEF RequestFits
  <2>3. RequestFits(e)'
    BY <1>0, <1>1, <1>4, <1>9, <2>1, <2>2 DEF RequestFits
  <2>4. AnswerFits(e)'
    BY <1>0, <1>1, <1>4, <1>7, <1>9, <2>1 DEF AnswerFits
  <2> QED BY <2>3, <2>4
<1>11. RequestInv' /\ AnswerInv'
  <2>1. requested' # {}
    BY <1>4 DEF Owner
  <2> QED BY <1>0, <1>10, <2>1 DEF RequestInv, AnswerInv
<1>12. VerdictInv'
  BY <1>0, <1>9, VerdictStays DEF VerdictInv
<1>13. HoldInv'
  <2> SUFFICES ASSUME NEW e \in Clients PROVE HoldFits(e)'
    BY DEF HoldInv
  <2>1. /\ HoldFits(e) /\ (isFileTransferSender[e] \/ pc[e] = "flagging" => e = c)
        /\ m.last => ~transfer[c].isSendingFile
    BY <1>0, <1>3, <1>4 DEF HoldInv, HoldFits, RequestInv, RequestFits
  <2>2. CASE UNCHANGED <<fileTransferModeActive, isFileTransferSender>>
    BY <1>1, <1>7, <1>8, <2>1, <2>2 DEF HoldFits
  <2>3. CASE m.last /\ isFileTransferSender'[c] = FALSE
    BY <1>1, <1>7, <1>8, <2>1, <2>3 DEF HoldFits
  <2> QED BY <1>2, <2>2, <2>3
<1>14. DataInv'
  <2> SUFFICES ASSUME NEW e \in Clients PROVE DataFits(e)'
    BY DEF DataInv
  <2>1. /\ DataFits(e)
        /\ Current(e) /\ ~Owner(e) /\ Accepted(e) => transfer[e].isReceivingFile
        /\ fileTransferStatus[e] = "AcceptFileTransfer" => Accepted(e)
    BY <1>0, <1>4 DEF DataInv, DataFits, Accepted
  <2>2. m.last => Done'
    <3>1. m.last => ~Goes(c, "FILE_DATA")' /\ ~transfer[c].isSendingFile
      BY <1>0, <1>3 DEF HoldInv, HoldFits
    <3> QED BY <1>0, <1>1, <1>4, <3>1 DEF Done
  <2>3. Comes(e, "FILE_DATA")' => /\ fileTransferStatus[e] = "AcceptFileTransfer"
                                  /\ ~Owner(e)
                                  /\ transfer[e].isReceivingFile
    BY <1>4, <1>7, <2>1 DEF DataFits
  <2> QED BY <1>0, <1>1, <1>7, <1>9, <2>1, <2>2, <2>3 DEF DataFits
<1>15. TidyInv'
  BY <1>7, <1>8 DEF TidyInv
<1> QED BY <1>11, <1>12, <1>13, <1>14, <1>15 DEF TransferInv

\* A registered session ends: its client has gone, and nobody is told anything ...
LEMMA HangupQuiet ==
  ASSUME SystemInv, UNCHANGED <<clientVars, requested>>, NEW c \in sessions, Hangup(c),
         NEW e \in Clients
  PROVE  QuietFor(e)
<1>0. /\ MessengerInv /\ TypeOK /\ c \in Clients
      /\ sendingQueue \in [Clients -> Seq(Messages)] /\ toServer \in [Clients -> Seq(Messages)]
      /\ pc \in [Clients -> Steps] /\ serverEnd \in [Clients -> Ends]
  BY DEF SystemInv, MessengerInv, TypeInv, TypeOK, NetworkTypeOK
<1>1. /\ UNCHANGED <<toServer, toClient, isFileTransferSender, fileTransferStatus, hand>>
      /\ clientEnd[c] \in Gone
      /\ serverEnd' = [serverEnd EXCEPT ![c] = AfterClose(toServer[c])]
      /\ pc' = [pc EXCEPT ![c] = "none"] /\ sendingQueue' = [sendingQueue EXCEPT ![c] = <<>>]
  BY DEF Hangup, RemoveSession
<1>2. ~Current(c) /\ ~Served(c)'
  <2>1. ~Current(c)
    BY <1>0, <1>1 DEF MessengerInv, EndsFit, Current, ClientRuns, Gone
  <2>2. ~Served(c)'
    BY <1>0, <1>1 DEF Served, AfterClose, Gone
  <2> QED BY <2>1, <2>2
<1>3. /\ Current(e)' = Current(e) /\ transfer'[e] = transfer[e]
      /\ task'[e] = task[e] /\ Outgoing(e)' = Outgoing(e)
      /\ e # c => Served(e)' = Served(e) /\ ToCome(e)' = ToCome(e)
  BY <1>0, <1>1 DEF clientVars, Current, Served, Outgoing, ToCome
<1>4. OutFewer(e) /\ InFewer(e)
  BY <1>0, <1>2, <1>3, OutLess, InLess
<1>5. pc'[e] = pc[e] \/ pc'[e] = "none"
  BY <1>0, <1>1
<1> QED BY <1>1, <1>3, <1>4, <1>5 DEF QuietFor, Deciding

\* ... but it takes its transfer along.
LEMMA HangupKeeps ==
  ASSUME SystemInv, TransferInv, UNCHANGED <<clientVars, requested>>, NEW c \in sessions,
         Hangup(c)
  PROVE  TransferInv'
<1>0. RequestInv /\ HoldInv /\ TidyInv /\ c \in Clients
  BY DEF TransferInv, SystemInv, MessengerInv, TypeInv, TypeOK
<1>1. /\ sessions' = sessions \ {c}
      /\ fileTransferModeActive' = (fileTransferModeActive /\ ~isFileTransferSender[c])
  BY DEF Hangup, RemoveSession
<1>2. \A e \in Clients : QuietFor(e)
  BY HangupQuiet
<1>3. \A e \in Clients : LessKnown(e)
  BY <1>2, QuietIsLess
<1>4. Untouched => Untouched'
  BY <1>1, <1>2, UntouchedStays
<1>5. TidyInv'
  BY <1>0, <1>2 DEF TidyInv, QuietFor, OutFewer, InFewer
<1>6. HoldInv'
  <2> SUFFICES ASSUME NEW e \in Clients PROVE HoldFits(e)'
    BY DEF HoldInv
  <2>1. HoldFits(e) /\ LessKnown(e)
    BY <1>0, <1>3 DEF HoldInv
  <2>2. isFileTransferSender[e] \/ pc[e] = "flagging" => e = c \/ ~isFileTransferSender[c]
    BY <1>0 DEF RequestInv, RequestFits
  <2> QED BY <1>1, <2>1, <2>2 DEF HoldFits, LessKnown, Deciding
<1> QED BY <1>3, <1>4, <1>5, <1>6, LessKeeps

\* Every step of the server.
LEMMA ServerKeepsTransfer ==
  ASSUME SystemInv, LoginInv, StrangerInv, TransferInv, UNCHANGED <<clientVars, requested>>,
         ServerStep
  PROVE  TransferInv'
<1>1. CASE Register
  BY <1>1, RegisterKeeps
<1>2. ASSUME NEW c \in Clients, Accept(c) \/ SessionStep(c)
      PROVE  TransferInv'
  <2>1. CASE \/ Accept(c) \/ Write(c) \/ WriteInVain(c)
             \/ ReceiveUnknown(c) \/ WriteAfterReset(c)
             \/ c \notin sessions /\ Hangup(c)
    BY <2>1, PlainServerSteps, QuietKeeps
  <2>2. CASE \/ ReceiveHello(c) \/ ReceiveBye(c) \/ ReceiveNickname(c) \/ Rename(c)
             \/ ReceiveChat(c)
    BY <2>2, TalkHandlers, QuietKeeps
  <2>3. CASE ReceiveStatus(c) \/ SaveAnswer(c) \/ ScanAnswers(c)
    BY <2>3, StatusHandler, AnswerIsSaved, ScanKeeps
  <2>4. CASE ReceiveFileRequest(c) \/ AnnounceTransfer(c)
    BY <2>4, RequestHandler, AnnounceKeeps
  <2>5. CASE FlagSender(c) \/ AcceptOwnTransfer(c) \/ ResetStatus(c)
    BY <2>5, SenderHandlers
  <2>6. CASE ReceiveFileData(c)
    BY <2>6, BlockHandler
  <2>7. CASE c \in sessions /\ Hangup(c)
    BY <2>7, HangupKeeps
  <2> QED BY <1>2, <2>1, <2>2, <2>3, <2>4, <2>5, <2>6, <2>7, NobodyLeaves DEF SessionStep
<1> QED BY <1>1, <1>2 DEF ServerStep

-----------------------------------------------------------------------------
(* The steps of the clients that concern no transfer.                      *)

\* A client takes a message, or says something, that the transfer does not turn on.
LEMMA QuietClientStep ==
  ASSUME MessengerInv, UNCHANGED <<serverVars, transfer>>,
         \A e \in Clients :
            /\ Served(e)' => Served(e)
            /\ Current(e)' => Current(e)
            /\ \/ ~Served(e)'
               \/ Outgoing(e)' = Outgoing(e)
               \/ \E m \in Messages : /\ m.type \notin OutKinds
                                      /\ Outgoing(e)' = Append(Outgoing(e), m)
            /\ \/ ToCome(e)' = ToCome(e)
               \/ ToCome(e) # <<>> /\ ToCome(e)' = Tail(ToCome(e))
            /\ task'[e] = "asking" => task[e] = "asking"
  PROVE  QuietStep
<1>0. UNCHANGED <<sessions, fileTransferModeActive, fileTransferStatus, isFileTransferSender, pc, hand>>
  BY DEF serverVars, sessionVars
<1> SUFFICES ASSUME NEW e \in Clients PROVE QuietFor(e)
  BY <1>0 DEF QuietStep
<1>1. OutFewer(e)
  BY OutLess, OutMore
<1>2. InFewer(e)
  BY InLess
<1> QED BY <1>0, <1>1, <1>2 DEF QuietFor

\* Reading such a message.
LEMMA PlainReading ==
  ASSUME MessengerInv, UNCHANGED <<serverVars, transfer, clientQueue>>,
         NEW c \in Clients, NEW type, Takes(c, type),
         \A e \in Clients : Current(e)' => Current(e),
         \A e \in Clients : task'[e] = "asking" => task[e] = "asking"
  PROVE  QuietStep
<1>1. /\ ToCome(c) # <<>> /\ ToCome(c)' = Tail(ToCome(c))
      /\ \A e \in Clients \ {c} : ToCome(e)' = ToCome(e)
      /\ \A e \in Clients : Outgoing(e)' = Outgoing(e) /\ serverEnd'[e] = serverEnd[e]
  BY TakesLines
<1> QED BY <1>1, QuietClientStep DEF Served

\* Saying such a one.
LEMMA PlainSaying ==
  ASSUME MessengerInv, NEW c \in Clients, NEW m \in Messages, Queues(c, m),
         UNCHANGED <<serverVars, transfer, toServer, toClient, serverEnd, task>>,
         m.type \notin OutKinds, \A e \in Clients : Current(e)' => Current(e)
  PROVE  QuietStep
<1>1. /\ Outgoing(c)' = Outgoing(c) \/ Outgoing(c)' = Append(Outgoing(c), m)
      /\ \A e \in Clients \ {c} : Outgoing(e)' = Outgoing(e)
      /\ \A e \in Clients : ToCome(e)' = ToCome(e) /\ serverEnd'[e] = serverEnd[e]
  BY QueuesLines
<1> QED BY <1>1, QuietClientStep DEF Served

\* Doing neither.
LEMMA PlainRest ==
  ASSUME MessengerInv,
         UNCHANGED <<serverVars, transfer, networkVars, clientQueue, clientStatus>>,
         \A e \in Clients : task'[e] = "asking" => task[e] = "asking"
  PROVE  QuietStep
<1>1. \A e \in Clients : /\ Outgoing(e)' = Outgoing(e) /\ ToCome(e)' = ToCome(e)
                         /\ Served(e)' = Served(e) /\ Current(e)' = Current(e)
  BY DEF Outgoing, ToCome, Served, Current, networkVars, serverVars, sessionVars
<1> QED BY <1>1, QuietClientStep

\* Names, texts, the dialog of F4, writing and the end.
LEMMA PlainClientSteps ==
  ASSUME SystemInv, UNCHANGED serverVars, NEW c \in Clients,
         \/ ClientConnects(c) \/ TakesNickname(c) \/ TakesChat(c) \/ TakesBye(c)
         \/ ClientWrites(c) \/ ClientWritesInVain(c) \/ ClientEnds(c)
         \/ TypesText(c) \/ \E name \in TypedNames : TypesNickname(c, name)
         \/ OpensDialog(c) \/ ClosesDialog(c) \/ Quits(c)
  PROVE  QuietStep
<1>0. /\ MessengerInv /\ task \in [Clients -> {"poll", "asking", "read", "wrote"}]
      /\ clientStatus \in [Clients -> {"idle", "running", "ended", "fatal", "sigpipe"}]
      /\ typed \in [Clients -> 0..MaxTexts]
  BY DEF SystemInv, MessengerInv, ClientTypeOK
<1>1. CASE TakesNickname(c) \/ TakesChat(c) \/ TakesBye(c)
  <2>1. /\ \E type : Takes(c, type)
        /\ UNCHANGED <<transfer, clientQueue, clientStatus>> /\ \E w \in {"read", "poll"} : task' = [task EXCEPT ![c] = w]
    BY <1>1 DEF TakesNickname, TakesChat, TakesBye, GoesTo
  <2> QED BY <1>0, <2>1, PlainReading DEF Current
<1>2. CASE ClientWrites(c) \/ ClientWritesInVain(c) \/ ClientEnds(c)
  <2>1. /\ \A e \in Clients : Served(e)' => Served(e)
        /\ \A e \in Clients : Served(e)' => Outgoing(e)' = Outgoing(e)
        /\ \A e \in Clients : ToCome(e)' = ToCome(e)
        /\ \A e \in Clients : Current(e)' => Current(e)
    BY <1>0, <1>2, WritesLines
  <2>2. UNCHANGED transfer /\ \A e \in Clients : task'[e] = "asking" => task[e] = "asking"
    BY <1>0, <1>2 DEF ClientWrites, ClientWritesInVain, ClientEnds, GoesTo
  <2> QED BY <1>0, <2>1, <2>2, QuietClientStep
<1>3. CASE ClientConnects(c)
  <2>1. /\ Queues(c, Hello) /\ clientStatus[c] = "idle"
        /\ clientStatus' = [clientStatus EXCEPT ![c] = "running"]
        /\ UNCHANGED <<transfer, toServer, toClient, serverEnd, task>>
    BY <1>3 DEF ClientConnects
  <2>2. Hello \in Messages /\ Hello.type \notin OutKinds
    BY ClientMessages DEF Hello, OutKinds
  <2>3. \A e \in Clients : Current(e)' => Current(e)
    BY <1>0, <2>1 DEF Current
  <2> QED BY <1>0, <2>1, <2>2, <2>3, PlainSaying
<1>4. CASE TypesText(c)
  <2>1. /\ Queues(c, Chat(Anyone, <<c, typed[c] + 1>>)) /\ <<c, typed[c] + 1>> \in Texts
        /\ UNCHANGED <<transfer, networkVars, task, clientStatus>>
    BY <1>0, <1>4, TextsAssumption DEF TypesText, Texts
  <2>2. \A text \in Texts : Chat(Anyone, text) \in Messages /\ Chat(Anyone, text).type \notin OutKinds
    BY MessageTypes, ClientMessages DEF Chat, OutKinds
  <2> QED BY <1>0, <2>1, <2>2, PlainSaying DEF Current, networkVars
<1>5. ASSUME NEW name \in TypedNames, TypesNickname(c, name) PROVE QuietStep
  <2>1. Queues(c, Nickname(name)) /\ UNCHANGED <<transfer, networkVars, task, clientStatus>>
    BY <1>5 DEF TypesNickname
  <2>2. Nickname(name) \in Messages /\ Nickname(name).type \notin OutKinds
    BY MessageTypes DEF Nickname, Names, OutKinds
  <2> QED BY <1>0, <2>1, <2>2, PlainSaying DEF Current, networkVars
<1>6. CASE Quits(c)
  <2>1. Queues(c, Bye) /\ UNCHANGED <<transfer, networkVars, task, clientStatus>>
    BY <1>6 DEF Quits
  <2>2. Bye \in Messages /\ Bye.type \notin OutKinds
    BY MessageTypes DEF Bye, OutKinds
  <2> QED BY <1>0, <2>1, <2>2, PlainSaying DEF Current, networkVars
<1>7. CASE OpensDialog(c) \/ ClosesDialog(c)
  <2>1. UNCHANGED <<transfer, networkVars, clientQueue, clientStatus, task>>
    BY <1>7 DEF OpensDialog, ClosesDialog
  <2> QED BY <1>0, <2>1, PlainRest
<1> QED BY <1>1, <1>2, <1>3, <1>4, <1>5, <1>6, <1>7

-----------------------------------------------------------------------------
(* The steps of the clients in a transfer.                                 *)

\* A step of one client is nothing to the others.
LEMMA ClientsOnlyOwn ==
  ASSUME MessengerInv, UNCHANGED <<serverVars, requested>>, NEW c \in Clients,
         \A e \in Clients \ {c} :
            /\ Outgoing(e)' = Outgoing(e) /\ ToCome(e)' = ToCome(e)
            /\ serverEnd'[e] = serverEnd[e] /\ clientStatus'[e] = clientStatus[e]
            /\ transfer'[e] = transfer[e] /\ task'[e] = task[e]
  PROVE  \A e \in Clients \ {c} : QuietFor(e) /\ LessKnown(e)
<1> SUFFICES ASSUME NEW e \in Clients \ {c} PROVE QuietFor(e) /\ LessKnown(e)
  OBVIOUS
<1>1. UNCHANGED <<fileTransferStatus, isFileTransferSender, pc, hand>>
  BY DEF serverVars, sessionVars
<1>2. Served(e)' = Served(e) /\ Current(e)' = Current(e)
  BY DEF Served, Current
<1>3. OutFewer(e) /\ InFewer(e)
  BY <1>2, OutLess, InLess
<1>4. QuietFor(e)
  BY <1>1, <1>3 DEF QuietFor
<1> QED BY <1>4, QuietIsLess

\* What the sender learns concerns nobody else.
LEMMA SenderLearns ==
  ASSUME MessengerInv, TransferInv, UNCHANGED <<serverVars, requested>>, NEW c \in Clients,
         \A e \in Clients \ {c} : QuietFor(e) /\ LessKnown(e),
         OutFewer(c), InFewer(c), Owner(c), ~Untouched,
         transfer'[c].isSendingFile => transfer[c].isSendingFile,
         transfer'[c].isReceivingFile => transfer[c].isReceivingFile,
         MayStart(c)' => MayStart(c), task'[c] = "asking" => task[c] = "asking"
  PROVE  TransferInv'
<1>0. /\ RequestInv /\ AnswerInv /\ VerdictInv /\ HoldInv /\ DataInv /\ TidyInv
      /\ RequestFits(c) /\ AnswerFits(c) /\ VerdictFits(c) /\ HoldFits(c) /\ DataFits(c)
      /\ UNCHANGED <<sessions, fileTransferModeActive, fileTransferStatus,
                     isFileTransferSender, pc, hand>>
      /\ (Owner(c)' <=> Owner(c))
  BY DEF TransferInv, RequestInv, AnswerInv, VerdictInv, HoldInv, DataInv, Owner,
         serverVars, sessionVars
<1>1. /\ Goes(c, "FILE_REQUEST")' => Goes(c, "FILE_REQUEST")
      /\ Goes(c, "STATUS")' => Goes(c, "STATUS")
      /\ Goes(c, "FILE_DATA")' => Goes(c, "FILE_DATA")
      /\ Closes(c)' => Closes(c)
      /\ Current(c)' => Current(c)
      /\ Comes(c, "FILE_REQUEST")' => Comes(c, "FILE_REQUEST")
      /\ Comes(c, "FILE_DATA")' => Comes(c, "FILE_DATA")
      /\ Concludes(c)' => Concludes(c)
  BY DEF OutFewer, InFewer, OutKinds, InKinds
<1>2. Asked(c)' => Asked(c)
  BY <1>1 DEF Asked, Comes
<1>3. Decided(c)' => Decided(c)
  BY <1>1 DEF Decided
<1>4. RequestFits(c)' /\ AnswerFits(c)'
  <2>1. RequestFits(c)'
    BY <1>0, <1>1 DEF RequestFits
  <2>2. AnswerFits(c)'
    BY <1>0, <1>1, <1>2 DEF AnswerFits
  <2> QED BY <2>1, <2>2
<1>5. VerdictInv'
  <2>1. StillAnswered(c) /\ \A d \in Clients \ {c} : StillAnswered(d)
    BY <1>0, <1>1, <1>2, LessStays DEF StillAnswered
  <2> QED BY <1>0, <1>3, <2>1, LessVerdicts, VerdictStays
<1>6. HoldInv'
  <2>1. HoldFits(c)'
    BY <1>0, <1>1 DEF HoldFits
  <2> QED BY <1>0, <2>1, LessHolds
<1>7. Done => Done'
  BY <1>1, DoneStays DEF LessKnown
<1>8. DataFits(c)'
  BY <1>0, <1>1, <1>7 DEF DataFits
<1>9. TidyInv'
  BY <1>0 DEF TidyInv, QuietFor, OutFewer, InFewer
<1> QED BY <1>4, <1>5, <1>6, <1>7, <1>8, <1>9, OneLearns

\* STATUS: the sender starts, or the transfer is off.
LEMMA TakesStatusKeeps ==
  ASSUME SystemInv, TransferInv, UNCHANGED <<serverVars, requested>>, NEW c \in Clients,
         TakesStatus(c)
  PROVE  TransferInv'
<1> DEFINE m == Received(c)
           t == transfer[c]
<1>0. /\ MessengerInv /\ RequestFits(c) /\ transfer \in [Clients -> Transfers]
      /\ task \in [Clients -> {"poll", "asking", "read", "wrote"}]
      /\ clientStatus \in [Clients -> {"idle", "running", "ended", "fatal", "sigpipe"}]
      /\ Takes(c, "STATUS") /\ UNCHANGED clientQueue
  BY DEF SystemInv, MessengerInv, ClientTypeOK, TakesStatus, TransferInv, RequestInv
<1>1. CASE Aborts(c) \/ UNCHANGED <<transfer, clientStatus>>
  <2>1. UNCHANGED transfer /\ \A e \in Clients : Current(e)' => Current(e)
    BY <1>0, <1>1 DEF Aborts, Current
  <2>2. \A e \in Clients : task'[e] = "asking" => task[e] = "asking"
    BY <1>0, <1>1 DEF Aborts, TakesStatus, GoesTo
  <2> QED BY <1>0, <2>1, <2>2, PlainReading, QuietKeeps
<1>2. CASE ~Aborts(c) /\ m.code \notin Verdicts
  <2>1. transfer' = transfer /\ UNCHANGED clientStatus
    BY <1>0, <1>2 DEF TakesStatus, SetTransfer, Verdicts, Answers
  <2> QED BY <1>1, <2>1
<1>3. CASE ~Aborts(c) /\ m.code \in Verdicts
  <2>1. /\ t.isSendingFile /\ UNCHANGED clientStatus
        /\ \E w \in {"read", "poll"} : task' = [task EXCEPT ![c] = w]
        /\ \/ m.code = "AcceptFileTransfer"
              /\ SetTransfer(c, [t EXCEPT !.hasFileTransferStarted = TRUE])
           \/ SetTransfer(c, NoTransfer)
    BY <1>3 DEF TakesStatus, GoesTo, Verdicts, Answers
  <2>2. /\ transfer'[c].isSendingFile => t.isSendingFile
        /\ transfer'[c].isReceivingFile => t.isReceivingFile
        /\ transfer'[c].hasFileTransferStarted => m.code = "AcceptFileTransfer"
             \/ t.hasFileTransferStarted
        /\ \A e \in Clients \ {c} : transfer'[e] = transfer[e]
    <3>1. CASE SetTransfer(c, NoTransfer)
      BY <1>0, <3>1 DEF SetTransfer, NoTransfer
    <3>2. CASE /\ m.code = "AcceptFileTransfer"
               /\ SetTransfer(c, [t EXCEPT !.hasFileTransferStarted = TRUE])
      BY <1>0, <3>2 DEF SetTransfer, Transfers
    <3> QED BY <2>1, <3>1, <3>2
  <2>3. Owner(c)
    BY <1>0, <2>1 DEF RequestFits
  <2>4. /\ ToCome(c) # <<>> /\ Head(ToCome(c)) = m /\ m.type = "STATUS"
        /\ ToCome(c)' = Tail(ToCome(c)) /\ Current(c) /\ task[c] = "poll"
        /\ \A e \in Clients \ {c} : ToCome(e)' = ToCome(e)
        /\ \A e \in Clients : Outgoing(e)' = Outgoing(e) /\ serverEnd'[e] = serverEnd[e]
    BY <1>0, TakesLines
  <2>5. Tells(c, m.code)
    <3>1. ToCome(c) \in Seq(Messages)
      BY <1>0, LinesType
    <3> QED BY <2>4, <3>1, ShorterLine DEF Tells
  <2>6. ~Untouched
    BY <1>3, <2>5 DEF Untouched, UntouchedBy
  <2>7. \A e \in Clients \ {c} : QuietFor(e) /\ LessKnown(e)
    BY <1>0, <2>1, <2>2, <2>4, ClientsOnlyOwn
  <2>8. OutFewer(c) /\ InFewer(c)
    <3>1. Served(c)' = Served(c) /\ Current(c)' = Current(c)
      BY <2>1, <2>4 DEF Served, Current
    <3> QED BY <1>0, <2>4, <3>1, OutLess, InLess
  <2>9. MayStart(c)' => MayStart(c)
    <3>1. Tells(c, "AcceptFileTransfer")' => Tells(c, "AcceptFileTransfer")
      BY <2>8 DEF InFewer, Verdicts, Answers
    <3> QED BY <2>2, <2>5, <3>1 DEF MayStart
  <2>10. task'[c] = "asking" => task[c] = "asking"
    BY <1>0, <2>1
  <2> QED BY <1>0, <2>2, <2>3, <2>6, <2>7, <2>8, <2>9, <2>10, SenderLearns
<1> QED BY <1>1, <1>2, <1>3

\* FILE_REQUEST: what was on its way is now before the user.
LEMMA TakesRequestKeeps ==
  ASSUME SystemInv, TransferInv, UNCHANGED <<serverVars, requested>>, NEW c \in Clients,
         TakesFileRequest(c)
  PROVE  TransferInv'
<1>0. /\ RequestInv /\ AnswerInv /\ VerdictInv /\ HoldInv /\ DataInv /\ TidyInv /\ MessengerInv
      /\ RequestFits(c) /\ AnswerFits(c) /\ VerdictFits(c) /\ HoldFits(c) /\ DataFits(c)
      /\ UNCHANGED <<sessions, fileTransferModeActive, fileTransferStatus,
                     isFileTransferSender, pc, hand>>
      /\ (Owner(c)' <=> Owner(c))
      /\ task \in [Clients -> {"poll", "asking", "read", "wrote"}]
  BY DEF TransferInv, RequestInv, AnswerInv, VerdictInv, HoldInv, DataInv, Owner,
         serverVars, sessionVars, SystemInv, MessengerInv, ClientTypeOK
<1>1. /\ Takes(c, "FILE_REQUEST") /\ task' = [task EXCEPT ![c] = "asking"]
      /\ UNCHANGED <<clientStatus, clientQueue, transfer>>
  BY DEF TakesFileRequest
<1>2. /\ ToCome(c) # <<>> /\ Head(ToCome(c)) = Received(c) /\ Received(c).type = "FILE_REQUEST"
      /\ ToCome(c)' = Tail(ToCome(c)) /\ Current(c) /\ ToCome(c) \in Seq(Messages)
      /\ \A e \in Clients \ {c} : ToCome(e)' = ToCome(e)
      /\ \A e \in Clients : Outgoing(e)' = Outgoing(e) /\ serverEnd'[e] = serverEnd[e]
  BY <1>0, <1>1, TakesLines, LinesType
<1>3. Comes(c, "FILE_REQUEST") /\ Asked(c) /\ ~Comes(c, "FILE_REQUEST")'
  <2>1. Has(ToCome(c), "FILE_REQUEST") /\ (Once(ToCome(c), "FILE_REQUEST")
          => ~Has(ToCome(c)', "FILE_REQUEST"))
    BY <1>2, ShorterLine
  <2> QED BY <1>0, <1>2, <2>1 DEF Comes, Asked, TidyInv, InTidy
<1>4. \A e \in Clients \ {c} : QuietFor(e) /\ LessKnown(e)
  BY <1>0, <1>1, <1>2, ClientsOnlyOwn
<1>5. OutFewer(c) /\ InFewer(c) /\ Current(c)' = Current(c)
  <2>1. Served(c)' = Served(c) /\ Current(c)' = Current(c)
    BY <1>1, <1>2 DEF Served, Current
  <2> QED BY <1>0, <1>2, <2>1, OutLess, InLess
<1>6. /\ Goes(c, "FILE_REQUEST")' => Goes(c, "FILE_REQUEST")
      /\ Goes(c, "STATUS")' => Goes(c, "STATUS")
      /\ Goes(c, "FILE_DATA")' => Goes(c, "FILE_DATA")
      /\ Says(c, "AcceptFileTransfer")' => Says(c, "AcceptFileTransfer")
      /\ Closes(c)' => Closes(c)
      /\ Comes(c, "FILE_DATA")' => Comes(c, "FILE_DATA")
      /\ Tells(c, "AcceptFileTransfer")' => Tells(c, "AcceptFileTransfer")
      /\ Concludes(c)' => Concludes(c)
  BY <1>5 DEF OutFewer, InFewer, OutKinds, InKinds, Verdicts, Answers
<1>7. /\ MayStart(c)' => MayStart(c)
      /\ Decided(c)' => Decided(c)
      /\ Accepted(c)' => Accepted(c)
  BY <1>0, <1>1, <1>6 DEF MayStart, Decided, Accepted
<1>8. ~Untouched
  BY <1>3 DEF Untouched, UntouchedBy
<1>9. RequestFits(c)' /\ AnswerFits(c)'
  <2>1. RequestFits(c)'
    BY <1>0, <1>1, <1>6, <1>8 DEF RequestFits
  <2>2. AnswerFits(c)'
    BY <1>0, <1>1, <1>3, <1>5, <1>6 DEF AnswerFits
  <2> QED BY <2>1, <2>2
<1>10. VerdictInv'
  <2>1. StillAnswered(c) /\ \A d \in Clients \ {c} : StillAnswered(d)
    BY <1>0, <1>3, <1>4, <1>5, <1>6, LessStays DEF StillAnswered
  <2> QED BY <1>0, <1>4, <1>7, <2>1, LessVerdicts, VerdictStays
<1>11. HoldInv'
  <2>1. HoldFits(c)'
    BY <1>0, <1>1, <1>6, <1>7 DEF HoldFits
  <2> QED BY <1>0, <1>4, <2>1, LessHolds
<1>12. Done => Done'
  BY <1>1, <1>4, <1>5, <1>6, DoneStays DEF LessKnown
<1>13. DataFits(c)'
  BY <1>0, <1>1, <1>5, <1>6, <1>7, <1>12 DEF DataFits
<1>14. TidyInv'
  BY <1>0, <1>4, <1>5 DEF TidyInv, QuietFor, OutFewer, InFewer
<1> QED BY <1>4, <1>8, <1>9, <1>10, <1>11, <1>12, <1>13, <1>14, OneLearns

\* The user answers: whoever is asked has not answered before.
LEMMA UserAnswersKeeps ==
  ASSUME SystemInv, TransferInv, UNCHANGED <<serverVars, requested>>, NEW c \in Clients,
         UserAnswers(c)
  PROVE  TransferInv'
<1>0. /\ RequestInv /\ AnswerInv /\ VerdictInv /\ HoldInv /\ DataInv /\ TidyInv /\ MessengerInv
      /\ RequestFits(c) /\ AnswerFits(c) /\ VerdictFits(c) /\ HoldFits(c) /\ DataFits(c)
      /\ UNCHANGED <<sessions, fileTransferModeActive, fileTransferStatus,
                     isFileTransferSender, pc, hand>>
      /\ (Owner(c)' <=> Owner(c))
      /\ task \in [Clients -> {"poll", "asking", "read", "wrote"}]
      /\ transfer \in [Clients -> Transfers]
  BY DEF TransferInv, RequestInv, AnswerInv, VerdictInv, HoldInv, DataInv, Owner,
         serverVars, sessionVars, SystemInv, MessengerInv, ClientTypeOK
<1>1. PICK answer \in {"yes", "no", "escape"} :
        /\ SetTransfer(c, Answered(transfer[c], request[c].file, answer))
        /\ Queues(c, Status(IF answer = "yes" THEN "AcceptFileTransfer"
                                              ELSE "RejectFileTransfer"))
  BY DEF UserAnswers
<1> DEFINE m == Status(IF answer = "yes" THEN "AcceptFileTransfer" ELSE "RejectFileTransfer")
<1>2. /\ ClientRuns(c) /\ task[c] = "asking" /\ UNCHANGED <<networkVars, clientStatus>>
      /\ \E w \in {"read", "poll"} : task' = [task EXCEPT ![c] = w]
  BY DEF UserAnswers, GoesTo
<1>3. /\ m \in Messages /\ m.type = "STATUS"
      /\ m.code = "AcceptFileTransfer" => answer = "yes"
  BY MessageTypes DEF Status, StatusCodes
<1>4. /\ transfer'[c].isReceivingFile = (answer = "yes")
      /\ transfer'[c].isSendingFile = transfer[c].isSendingFile
      /\ transfer'[c].hasFileTransferStarted = transfer[c].hasFileTransferStarted
      /\ \A e \in Clients \ {c} : transfer'[e] = transfer[e]
  BY <1>0, <1>1 DEF SetTransfer, Answered, Transfers
<1> HIDE DEF m
<1>5. /\ Outgoing(c)' = Outgoing(c) \/ Outgoing(c)' = Append(Outgoing(c), m)
      /\ \A e \in Clients \ {c} : Outgoing(e)' = Outgoing(e)
      /\ \A e \in Clients : ToCome(e)' = ToCome(e) /\ serverEnd'[e] = serverEnd[e]
      /\ Outgoing(c) \in Seq(Messages)
  BY <1>0, <1>1, <1>2, <1>3, QueuesLines, LinesType DEF m, networkVars
<1>6. /\ Current(c) /\ Current(c)' = Current(c) /\ Served(c)' = Served(c)
      /\ task'[c] # "asking" /\ \A e \in Clients \ {c} : task'[e] = task[e]
  BY <1>0, <1>2, <1>5 DEF Current, Served, ClientRuns
<1>7. /\ Asked(c) /\ ~Asked(c)' /\ ~Untouched /\ ~Owner(c) /\ ~Goes(c, "STATUS")
      /\ pc[c] \notin {"answering", "scanning"} /\ fileTransferStatus[c] \notin Answers
  BY <1>0, <1>2, <1>5, <1>6 DEF AnswerFits, Asked, Comes, Untouched, UntouchedBy
<1>8. /\ Has(Outgoing(c)', "FILE_REQUEST") <=> Has(Outgoing(c), "FILE_REQUEST")
      /\ Has(Outgoing(c)', "FILE_DATA") <=> Has(Outgoing(c), "FILE_DATA")
      /\ Gives(Outgoing(c)', "AcceptFileTransfer") =>
           Gives(Outgoing(c), "AcceptFileTransfer") \/ answer = "yes"
      /\ Ending(Outgoing(c)') <=> Ending(Outgoing(c))
      /\ Once(Outgoing(c), "FILE_REQUEST") => Once(Outgoing(c)', "FILE_REQUEST")
      /\ Once(Outgoing(c), "STATUS") /\ ~Has(Outgoing(c), "STATUS") => Once(Outgoing(c)', "STATUS")
      /\ LastIsLast(Outgoing(c)) => LastIsLast(Outgoing(c)')
  <2>1. CASE Outgoing(c)' = Outgoing(c)
    BY <2>1
  <2>2. CASE Outgoing(c)' = Append(Outgoing(c), m)
    BY <1>3, <1>5, <2>2, LongerLine
  <2> QED BY <1>5, <2>1, <2>2
<1>9. /\ Goes(c, "FILE_REQUEST")' <=> Goes(c, "FILE_REQUEST")
      /\ Goes(c, "FILE_DATA")' <=> Goes(c, "FILE_DATA")
      /\ Closes(c)' <=> Closes(c)
      /\ Says(c, "AcceptFileTransfer")' => answer = "yes"
      /\ OutTidy(c)'
  <2>1. ~Says(c, "AcceptFileTransfer")
    BY <1>7 DEF Says, Goes, Gives, Has
  <2> QED BY <1>0, <1>6, <1>7, <1>8, <2>1 DEF Goes, Closes, Says, OutTidy, TidyInv
<1>10. /\ \A type : Comes(c, type)' = Comes(c, type)
       /\ MayStart(c)' = MayStart(c) /\ Concludes(c)' = Concludes(c)
       /\ InTidy(c) => InTidy(c)'
  BY <1>4, <1>5, <1>6 DEF Comes, MayStart, Tells, Concludes, InTidy
<1>11. \A e \in Clients \ {c} : QuietFor(e) /\ LessKnown(e)
  BY <1>0, <1>2, <1>4, <1>5, <1>6, ClientsOnlyOwn
<1>12. RequestFits(c)' /\ AnswerFits(c)'
  <2>1. RequestFits(c)'
    BY <1>0, <1>4, <1>7, <1>9 DEF RequestFits
  <2>2. AnswerFits(c)'
    BY <1>0, <1>6, <1>7 DEF AnswerFits
  <2> QED BY <2>1, <2>2
<1>13. VerdictInv'
  <2> SUFFICES ASSUME NEW e \in Clients PROVE ~Decided(e)'
    BY DEF VerdictInv, VerdictFits
  <2>1. ~Decided(e)
    BY <1>0, <1>6, <1>7 DEF VerdictInv, VerdictFits
  <2> QED BY <1>9, <1>10, <1>11, <2>1 DEF LessKnown, Decided
<1>14. HoldInv'
  <2>1. HoldFits(c)'
    BY <1>0, <1>4, <1>9, <1>10 DEF HoldFits
  <2> QED BY <1>0, <1>11, <2>1, LessHolds
<1>15. Done => Done'
  BY <1>4, <1>6, <1>9, <1>11, DoneStays DEF LessKnown
<1>16. DataFits(c)'
  <2>1. ~Comes(c, "FILE_DATA")
    BY <1>0, <1>7 DEF DataFits, Answers
  <2>2. Accepted(c)' => transfer'[c].isReceivingFile
    BY <1>0, <1>4, <1>7, <1>9 DEF Accepted, Answers
  <2> QED BY <1>0, <1>10, <1>15, <2>1, <2>2 DEF DataFits
<1>17. TidyInv'
  BY <1>0, <1>9, <1>10, <1>11 DEF TidyInv, QuietFor, OutFewer, InFewer
<1> QED BY <1>7, <1>11, <1>12, <1>13, <1>14, <1>15, <1>16, <1>17, OneLearns

\* FILE_DATA: whoever is sent a block receives, until the last.
LEMMA TakesBlockKeeps ==
  ASSUME SystemInv, TransferInv, UNCHANGED <<serverVars, requested>>, NEW c \in Clients,
         TakesFileData(c)
  PROVE  TransferInv'
<1> DEFINE m == Received(c)
<1>0. /\ RequestInv /\ AnswerInv /\ VerdictInv /\ HoldInv /\ DataInv /\ TidyInv /\ MessengerInv
      /\ RequestFits(c) /\ AnswerFits(c) /\ VerdictFits(c) /\ HoldFits(c) /\ DataFits(c)
      /\ UNCHANGED <<sessions, fileTransferModeActive, fileTransferStatus,
                     isFileTransferSender, pc, hand>>
      /\ (Owner(c)' <=> Owner(c))
      /\ task \in [Clients -> {"poll", "asking", "read", "wrote"}]
      /\ transfer \in [Clients -> Transfers]
  BY DEF TransferInv, RequestInv, AnswerInv, VerdictInv, HoldInv, DataInv, Owner,
         serverVars, sessionVars, SystemInv, MessengerInv, ClientTypeOK
<1>1. /\ Takes(c, "FILE_DATA") /\ UNCHANGED <<clientStatus, clientQueue>>
      /\ \E w \in {"read", "poll"} : task' = [task EXCEPT ![c] = w]
  BY DEF TakesFileData, GoesTo
<1>2. /\ ToCome(c) # <<>> /\ Head(ToCome(c)) = m /\ m.type = "FILE_DATA"
      /\ ToCome(c)' = Tail(ToCome(c)) /\ Current(c) /\ ToCome(c) \in Seq(Messages)
      /\ \A e \in Clients \ {c} : ToCome(e)' = ToCome(e)
      /\ \A e \in Clients : Outgoing(e)' = Outgoing(e) /\ serverEnd'[e] = serverEnd[e]
  BY <1>0, <1>1, TakesLines, LinesType
<1>3. /\ Comes(c, "FILE_DATA") /\ (m.last => Concludes(c))
      /\ m.last => ~Comes(c, "FILE_DATA")'
  <2>1. /\ Has(ToCome(c), "FILE_DATA") /\ (m.last => Ending(ToCome(c)))
        /\ (LastIsLast(ToCome(c)) /\ m.last) => ~Has(ToCome(c)', "FILE_DATA")
    BY <1>2, ShorterLine
  <2> QED BY <1>0, <1>2, <2>1 DEF Comes, Concludes, TidyInv, InTidy
<1>4. /\ transfer[c].isReceivingFile /\ ~Owner(c) /\ ~Untouched /\ (m.last => Done)
      /\ fileTransferStatus[c] = "AcceptFileTransfer"
  BY <1>0, <1>3 DEF DataFits, Untouched, UntouchedBy
<1>5. /\ transfer'[c].isSendingFile => transfer[c].isSendingFile
      /\ transfer'[c].hasFileTransferStarted => transfer[c].hasFileTransferStarted
      /\ transfer'[c].isReceivingFile \/ m.last
      /\ \A e \in Clients \ {c} : transfer'[e] = transfer[e]
  <2>1. \/ m.last /\ SetTransfer(c, NoTransfer)
        \/ \E h : SetTransfer(c, [transfer[c] EXCEPT !.handle = h])
    BY <1>4 DEF TakesFileData
  <2>2. CASE m.last /\ SetTransfer(c, NoTransfer)
    BY <1>0, <2>2 DEF SetTransfer, NoTransfer
  <2>3. ASSUME NEW h, SetTransfer(c, [transfer[c] EXCEPT !.handle = h])
        PROVE  /\ transfer'[c].isSendingFile => transfer[c].isSendingFile
               /\ transfer'[c].hasFileTransferStarted => transfer[c].hasFileTransferStarted
               /\ transfer'[c].isReceivingFile
               /\ \A e \in Clients \ {c} : transfer'[e] = transfer[e]
    BY <1>0, <1>4, <2>3 DEF SetTransfer, Transfers
  <2> QED BY <2>1, <2>2, <2>3
<1> HIDE DEF m
<1>6. \A e \in Clients \ {c} : QuietFor(e) /\ LessKnown(e)
  BY <1>0, <1>1, <1>2, <1>5, ClientsOnlyOwn
<1>7. OutFewer(c) /\ InFewer(c) /\ Current(c)' = Current(c) /\ task'[c] # "asking"
  <2>1. Served(c)' = Served(c) /\ Current(c)' = Current(c)
    BY <1>1, <1>2 DEF Served, Current
  <2> QED BY <1>0, <1>1, <1>2, <2>1, OutLess, InLess
<1>8. /\ Goes(c, "FILE_REQUEST")' => Goes(c, "FILE_REQUEST")
      /\ Goes(c, "STATUS")' => Goes(c, "STATUS")
      /\ Goes(c, "FILE_DATA")' => Goes(c, "FILE_DATA")
      /\ Says(c, "AcceptFileTransfer")' => Says(c, "AcceptFileTransfer")
      /\ Closes(c)' => Closes(c)
      /\ Comes(c, "FILE_REQUEST")' => Comes(c, "FILE_REQUEST")
      /\ Comes(c, "FILE_DATA")' => Comes(c, "FILE_DATA")
      /\ Tells(c, "AcceptFileTransfer")' => Tells(c, "AcceptFileTransfer")
      /\ Concludes(c)' => Concludes(c)
  BY <1>7 DEF OutFewer, InFewer, OutKinds, InKinds, Verdicts, Answers
<1>9. /\ MayStart(c)' => MayStart(c)
      /\ Decided(c)' => Decided(c)
      /\ Asked(c)' => Asked(c)
  BY <1>5, <1>7, <1>8 DEF MayStart, Decided, Asked, Comes
<1>10. RequestFits(c)' /\ AnswerFits(c)'
  <2>1. RequestFits(c)'
    BY <1>0, <1>4, <1>5, <1>8 DEF RequestFits
  <2>2. AnswerFits(c)'
    BY <1>0, <1>4, <1>7, <1>8, <1>9 DEF AnswerFits
  <2> QED BY <2>1, <2>2
<1>11. VerdictInv'
  <2>1. StillAnswered(c) /\ \A d \in Clients \ {c} : StillAnswered(d)
    BY <1>0, <1>6, <1>7, <1>8, <1>9, LessStays DEF StillAnswered
  <2> QED BY <1>0, <1>6, <1>9, <2>1, LessVerdicts, VerdictStays
<1>12. HoldInv'
  <2>1. HoldFits(c)'
    BY <1>0, <1>5, <1>8, <1>9 DEF HoldFits
  <2> QED BY <1>0, <1>6, <2>1, LessHolds
<1>13. Done => Done'
  BY <1>5, <1>6, <1>7, <1>8, DoneStays DEF LessKnown
<1>14. DataFits(c)'
  BY <1>0, <1>3, <1>4, <1>5, <1>8, <1>13 DEF DataFits
<1>15. TidyInv'
  BY <1>0, <1>6, <1>7 DEF TidyInv, QuietFor, OutFewer, InFewer
<1> QED BY <1>4, <1>6, <1>10, <1>11, <1>12, <1>13, <1>14, <1>15, OneLearns

\* cycle(): the sender, who may, sends the next block.
LEMMA SendsBlockKeeps ==
  ASSUME SystemInv, TransferInv, UNCHANGED <<serverVars, requested>>, NEW c \in Clients,
         Cycle(c)
  PROVE  TransferInv'
<1>0. /\ RequestInv /\ AnswerInv /\ VerdictInv /\ HoldInv /\ DataInv /\ TidyInv /\ MessengerInv
      /\ RequestFits(c) /\ AnswerFits(c) /\ VerdictFits(c) /\ HoldFits(c) /\ DataFits(c)
      /\ UNCHANGED <<sessions, fileTransferModeActive, fileTransferStatus,
                     isFileTransferSender, pc, hand>>
      /\ (Owner(c)' <=> Owner(c))
      /\ task \in [Clients -> {"poll", "asking", "read", "wrote"}]
      /\ transfer \in [Clients -> Transfers]
  BY DEF TransferInv, RequestInv, AnswerInv, VerdictInv, HoldInv, DataInv, Owner,
         serverVars, sessionVars, SystemInv, MessengerInv, ClientTypeOK
<1>1. /\ ClientRuns(c) /\ UNCHANGED <<networkVars, clientStatus>>
      /\ task' = [task EXCEPT ![c] = "poll"]
  BY DEF Cycle
<1>2. /\ Current(c) /\ task'[c] # "asking"
      /\ \A e \in Clients : /\ Current(e)' = Current(e) /\ Served(e)' = Served(e)
                            /\ ToCome(e)' = ToCome(e)
      /\ \A e \in Clients \ {c} : task'[e] = task[e]
  BY <1>0, <1>1 DEF Current, ClientRuns, Served, ToCome, networkVars, serverVars, sessionVars
<1>3. CASE UNCHANGED <<clientQueue, transfer>>
  BY <1>0, <1>1, <1>2, <1>3, PlainRest, QuietKeeps
<1>4. ASSUME IsTransmitting(transfer[c])
      PROVE  /\ Owner(c) /\ ~Untouched /\ MayStart(c) /\ Decided(c) /\ ~Done
             /\ transfer[c].isSendingFile /\ transfer[c].hasFileTransferStarted
  <2>1. transfer[c].isSendingFile /\ transfer[c].hasFileTransferStarted
    BY <1>4 DEF IsTransmitting
  <2> QED BY <1>0, <1>2, <2>1 DEF RequestFits, Untouched, UntouchedBy, MayStart, Decided, Done
<1>5. ASSUME \/ SetTransfer(c, NoTransfer)
             \/ \E h : SetTransfer(c, [transfer[c] EXCEPT !.handle = h])
             \/ \E h, n : SetTransfer(c, [transfer[c] EXCEPT !.handle = h, !.offset = n])
      PROVE  /\ transfer'[c].isSendingFile => transfer[c].isSendingFile
             /\ transfer'[c].isReceivingFile => transfer[c].isReceivingFile
             /\ transfer'[c].hasFileTransferStarted => transfer[c].hasFileTransferStarted
             /\ \A e \in Clients \ {c} : transfer'[e] = transfer[e]
             /\ SetTransfer(c, NoTransfer) => ~transfer'[c].isSendingFile
  <2>1. ASSUME SetTransfer(c, NoTransfer)
        PROVE  /\ ~transfer'[c].isSendingFile /\ ~transfer'[c].isReceivingFile
               /\ ~transfer'[c].hasFileTransferStarted
               /\ \A e \in Clients \ {c} : transfer'[e] = transfer[e]
    BY <1>0, <2>1 DEF SetTransfer, NoTransfer
  <2> DEFINE Flags(t) == <<t.isSendingFile, t.isReceivingFile, t.hasFileTransferStarted>>
  <2>2. ASSUME NEW t, SetTransfer(c, t), Flags(t) = Flags(transfer[c])
        PROVE  /\ Flags(transfer'[c]) = Flags(transfer[c])
               /\ \A e \in Clients \ {c} : transfer'[e] = transfer[e]
    BY <1>0, <2>2 DEF SetTransfer
  <2>3. ASSUME NEW h, SetTransfer(c, [transfer[c] EXCEPT !.handle = h])
        PROVE  /\ Flags(transfer'[c]) = Flags(transfer[c])
               /\ \A e \in Clients \ {c} : transfer'[e] = transfer[e]
    BY <1>0, <2>2, <2>3 DEF Transfers
  <2>4. ASSUME NEW h, NEW n, SetTransfer(c, [transfer[c] EXCEPT !.handle = h, !.offset = n])
        PROVE  /\ Flags(transfer'[c]) = Flags(transfer[c])
               /\ \A e \in Clients \ {c} : transfer'[e] = transfer[e]
    BY <1>0, <2>2, <2>4 DEF Transfers
  <2> QED BY <1>5, <2>1, <2>3, <2>4
<1>6. CASE /\ IsTransmitting(transfer[c]) /\ UNCHANGED clientQueue
           /\ \/ SetTransfer(c, NoTransfer)
              \/ \E h : SetTransfer(c, [transfer[c] EXCEPT !.handle = h])
  <2>1. \A e \in Clients : Outgoing(e)' = Outgoing(e) /\ serverEnd'[e] = serverEnd[e]
    BY <1>1, <1>6 DEF Outgoing, networkVars
  <2>2. \A e \in Clients \ {c} : QuietFor(e) /\ LessKnown(e)
    BY <1>0, <1>1, <1>2, <1>5, <1>6, <2>1, ClientsOnlyOwn
  <2>3. OutFewer(c) /\ InFewer(c)
    BY <1>0, <1>2, <2>1, OutLess, InLess
  <2>4. MayStart(c)' => MayStart(c)
    BY <1>4, <1>6
  <2> QED BY <1>0, <1>2, <1>4, <1>5, <1>6, <2>2, <2>3, <2>4, SenderLearns
<1>7. ASSUME IsTransmitting(transfer[c]), NEW m \in Messages, m.type = "FILE_DATA", Queues(c, m),
             \/ SetTransfer(c, NoTransfer)
             \/ /\ ~m.last
                /\ \E h, n : SetTransfer(c, [transfer[c] EXCEPT !.handle = h, !.offset = n])
      PROVE  TransferInv'
  <2>1. /\ Outgoing(c)' = Outgoing(c) \/ Outgoing(c)' = Append(Outgoing(c), m)
        /\ \A e \in Clients \ {c} : Outgoing(e)' = Outgoing(e)
        /\ \A e \in Clients : serverEnd'[e] = serverEnd[e]
        /\ Outgoing(c) \in Seq(Messages)
    BY <1>0, <1>1, <1>7, QueuesLines, LinesType DEF networkVars
  <2>2. \A e \in Clients \ {c} : QuietFor(e) /\ LessKnown(e)
    BY <1>0, <1>1, <1>2, <1>5, <1>7, <2>1, ClientsOnlyOwn
  <2>3. /\ Has(Outgoing(c)', "FILE_REQUEST") <=> Has(Outgoing(c), "FILE_REQUEST")
        /\ Has(Outgoing(c)', "STATUS") <=> Has(Outgoing(c), "STATUS")
        /\ Ending(Outgoing(c)') => Ending(Outgoing(c)) \/ m.last
        /\ Once(Outgoing(c), "FILE_REQUEST") => Once(Outgoing(c)', "FILE_REQUEST")
        /\ Once(Outgoing(c), "STATUS") => Once(Outgoing(c)', "STATUS")
        /\ LastIsLast(Outgoing(c)) /\ ~Ending(Outgoing(c)) => LastIsLast(Outgoing(c)')
    <3>1. CASE Outgoing(c)' = Outgoing(c)
      BY <3>1
    <3>2. CASE Outgoing(c)' = Append(Outgoing(c), m)
      <4>1. m.type = "FILE_DATA"
        BY <1>7
      <4> QED BY <2>1, <3>2, <4>1, LongerLine
    <3> QED BY <2>1, <3>1, <3>2
  <2>4. /\ Goes(c, "FILE_REQUEST")' <=> Goes(c, "FILE_REQUEST")
        /\ Goes(c, "STATUS")' <=> Goes(c, "STATUS")
        /\ ~Closes(c) /\ (Closes(c)' => m.last)
        /\ OutTidy(c)'
    <3>1. ~Closes(c) /\ OutTidy(c)
      BY <1>0, <1>4, <1>7 DEF HoldFits, TidyInv
    <3> QED BY <1>2, <2>3, <3>1 DEF Goes, Closes, OutTidy
  <2>5. /\ \A type : Comes(c, type)' = Comes(c, type)
        /\ Concludes(c)' = Concludes(c) /\ (InTidy(c) => InTidy(c)')
        /\ Asked(c)' => Asked(c)
    BY <1>2 DEF Comes, Concludes, InTidy, Asked
  <2>6. RequestFits(c)' /\ AnswerFits(c)'
    <3>1. RequestFits(c)'
      BY <1>0, <1>4, <1>7, <2>4 DEF RequestFits
    <3>2. AnswerFits(c)'
      BY <1>0, <1>2, <1>4, <1>5, <1>7, <2>4, <2>5 DEF AnswerFits
    <3> QED BY <3>1, <3>2
  <2>7. VerdictInv'
    <3>1. StillAnswered(c) /\ \A d \in Clients \ {c} : StillAnswered(d)
      BY <1>0, <1>2, <2>2, <2>4, <2>5, LessStays DEF StillAnswered
    <3>2. Decided(c)' => Decided(c)
      BY <1>4, <1>7
    <3> QED BY <1>0, <2>2, <3>1, <3>2, LessVerdicts, VerdictStays
  <2>8. HoldInv'
    <3>1. m.last => ~transfer'[c].isSendingFile
      BY <1>5, <1>7
    <3>2. transfer'[c].isSendingFile => transfer[c].isSendingFile
      BY <1>5, <1>7
    <3>3. HoldFits(c)'
      BY <1>0, <1>4, <1>7, <2>4, <3>1, <3>2 DEF HoldFits
    <3> QED BY <1>0, <2>2, <3>3, LessHolds
  <2>9. ~Done /\ ~Untouched
    BY <1>4, <1>7
  <2>10. DataFits(c)'
    BY <1>0, <1>4, <1>7, <2>5, <2>9 DEF DataFits
  <2>11. TidyInv'
    BY <1>0, <2>2, <2>4, <2>5 DEF TidyInv, QuietFor, OutFewer, InFewer
  <2> QED BY <2>2, <2>6, <2>7, <2>8, <2>9, <2>10, <2>11, OneLearns
<1> QED BY <1>3, <1>6, <1>7, CycleCases

\* The request is made: nobody knows of it yet.
LEMMA RequestsFileKeeps ==
  ASSUME SystemInv, TransferInv, NEW c \in Clients, NEW file \in Files, RequestsFile(c, file)
  PROVE  TransferInv'
<1> DEFINE m == FileRequest(Anyone, file)
<1>0. /\ RequestInv /\ TidyInv /\ MessengerInv /\ UNCHANGED serverVars
      /\ UNCHANGED <<sessions, fileTransferModeActive, fileTransferStatus,
                     isFileTransferSender, pc, hand>>
      /\ requested = {} /\ requested' = {<<c, file>>} /\ transfer \in [Clients -> Transfers]
      /\ UNCHANGED <<networkVars, clientStatus, task>> /\ Queues(c, m)
      /\ SetTransfer(c, [transfer[c] EXCEPT !.isSendingFile = TRUE, !.fileName = file])
  BY DEF TransferInv, SystemInv, MessengerInv, ClientTypeOK, RequestsFile, SendsFile,
         serverVars, sessionVars
<1>1. m \in Messages /\ m.type = "FILE_REQUEST"
  BY ClientMessages, MessageTypes DEF FileRequest
<1> HIDE DEF m
<1>2. /\ \A e \in Clients : UntouchedBy(e) /\ ~Owner(e) /\ RequestFits(e)
      /\ \A e \in Clients : Owner(e)' <=> e = c
      /\ ~fileTransferModeActive
  BY <1>0 DEF RequestInv, Owner, Untouched
<1>3. \A e \in Clients : /\ transfer'[e].isReceivingFile = transfer[e].isReceivingFile
                         /\ transfer'[e].hasFileTransferStarted = transfer[e].hasFileTransferStarted
                         /\ transfer'[e].isSendingFile => e = c
  <2>1. \A e \in Clients : ~transfer[e].isSendingFile
    BY <1>2 DEF RequestFits
  <2> QED BY <1>0, <2>1 DEF SetTransfer, Transfers
<1>4. /\ Outgoing(c)' = Outgoing(c) \/ Outgoing(c)' = Append(Outgoing(c), m)
      /\ \A e \in Clients \ {c} : Outgoing(e)' = Outgoing(e)
      /\ \A e \in Clients : ToCome(e)' = ToCome(e) /\ serverEnd'[e] = serverEnd[e]
      /\ Outgoing(c) \in Seq(Messages)
  BY <1>0, <1>1, QueuesLines, LinesType DEF networkVars
<1>5. \A e \in Clients : Current(e)' = Current(e) /\ Served(e)' = Served(e)
  BY <1>0, <1>4 DEF Current, Served
<1>6. ASSUME NEW e \in Clients
      PROVE  /\ Has(Outgoing(e)', "STATUS") <=> Has(Outgoing(e), "STATUS")
             /\ Has(Outgoing(e)', "FILE_DATA") <=> Has(Outgoing(e), "FILE_DATA")
             /\ Has(Outgoing(e)', "FILE_REQUEST") => Has(Outgoing(e), "FILE_REQUEST") \/ e = c
             /\ Gives(Outgoing(e)', "AcceptFileTransfer") <=> Gives(Outgoing(e), "AcceptFileTransfer")
             /\ Ending(Outgoing(e)') <=> Ending(Outgoing(e))
             /\ (Once(Outgoing(e), "FILE_REQUEST") /\ ~Has(Outgoing(e), "FILE_REQUEST"))
                  => Once(Outgoing(e)', "FILE_REQUEST")
             /\ Once(Outgoing(e), "STATUS") => Once(Outgoing(e)', "STATUS")
             /\ LastIsLast(Outgoing(e)) => LastIsLast(Outgoing(e)')
  <2>1. CASE Outgoing(e)' = Outgoing(e)
    BY <2>1
  <2>2. CASE e = c /\ Outgoing(c)' = Append(Outgoing(c), m)
    BY <1>1, <1>4, <2>2, LongerLine
  <2> QED BY <1>4, <2>1, <2>2
<1>7. ASSUME NEW e \in Clients
      PROVE  /\ Goes(e, "STATUS")' <=> Goes(e, "STATUS")
             /\ Goes(e, "FILE_DATA")' <=> Goes(e, "FILE_DATA")
             /\ Goes(e, "FILE_REQUEST")' => e = c
             /\ Says(e, "AcceptFileTransfer")' <=> Says(e, "AcceptFileTransfer")
             /\ Closes(e)' <=> Closes(e)
             /\ OutTidy(e)'
  <2>1. ~Goes(e, "FILE_REQUEST") /\ OutTidy(e)
    BY <1>0, <1>2 DEF RequestFits, TidyInv
  <2> QED BY <1>5, <1>6, <2>1 DEF Goes, Says, Closes, OutTidy
<1>8. ASSUME NEW e \in Clients
      PROVE  /\ \A type : Comes(e, type)' <=> Comes(e, type)
             /\ \A code : Tells(e, code)' <=> Tells(e, code)
             /\ Asked(e)' <=> Asked(e)
             /\ Concludes(e)' <=> Concludes(e)
             /\ InTidy(e)'
  <2>1. InTidy(e)
    BY <1>0 DEF TidyInv
  <2> QED BY <1>0, <1>4, <1>5, <2>1 DEF Comes, Tells, Asked, Concludes, InTidy
<1>9. ASSUME NEW e \in Clients
      PROVE  /\ UntouchedBy(e)' /\ ~Asked(e)' /\ ~MayStart(e)' /\ ~Decided(e)' /\ ~Accepted(e)'
             /\ ~Closes(e)' /\ ~Concludes(e)'
  <2>1. /\ UntouchedBy(e) /\ ~Asked(e) /\ ~MayStart(e) /\ ~Decided(e) /\ ~Accepted(e)
        /\ ~Closes(e) /\ ~Concludes(e)
    BY <1>2, NothingYet
  <2>2. UntouchedBy(e)'
    BY <1>0, <1>3, <1>5, <1>7, <1>8, <2>1 DEF UntouchedBy
  <2>3. ~MayStart(e)' /\ ~Decided(e)' /\ ~Accepted(e)'
    BY <1>0, <1>3, <1>7, <1>8, <2>1 DEF MayStart, Decided, Accepted
  <2> QED BY <1>7, <1>8, <2>1, <2>2, <2>3
<1>10. Untouched'
  BY <1>0, <1>2, <1>9 DEF Untouched
<1>11. RequestInv'
  <2>1. ASSUME NEW e \in Clients PROVE RequestFits(e)'
    <3>1. pc'[e] # "requesting"
      BY <1>0, <1>2 DEF RequestFits
    <3> QED BY <1>0, <1>2, <1>3, <1>7, <1>9, <1>10, <3>1 DEF RequestFits, UntouchedBy, Deciding
  <2>2. requested' # {}
    BY <1>0
  <2> QED BY <1>2, <2>1, <2>2 DEF RequestInv
<1>12. ASSUME NEW e \in Clients
       PROVE  AnswerFits(e)' /\ VerdictFits(e)' /\ HoldFits(e)' /\ DataFits(e)'
  <2>1. AnswerFits(e)'
    BY <1>9 DEF AnswerFits, UntouchedBy, Deciding, Answers, Verdicts
  <2>2. VerdictFits(e)' /\ HoldFits(e)' /\ DataFits(e)'
    BY <1>9 DEF VerdictFits, HoldFits, DataFits, UntouchedBy, Deciding
  <2> QED BY <2>1, <2>2
<1>13. TidyInv'
  BY <1>7, <1>8 DEF TidyInv
<1> QED BY <1>11, <1>12, <1>13 DEF TransferInv, AnswerInv, VerdictInv, HoldInv, DataInv

-----------------------------------------------------------------------------
(* Who is not registered has no part in a transfer.                        *)

\* A step of one client leaves the others where they are.
LEMMA ClientsOwn ==
  ASSUME MessengerInv, NEW c \in Clients, ClientProgram(c), NEW e \in Clients \ {c}
  PROVE  /\ toServer'[e] = toServer[e] /\ clientQueue'[e] = clientQueue[e]
         /\ task'[e] = task[e] /\ transfer'[e] = transfer[e]
         /\ clientStatus'[e] = clientStatus[e]
<1>0. /\ toServer \in [Clients -> Seq(Messages)] /\ clientQueue \in [Clients -> Seq(Messages)]
      /\ task \in [Clients -> {"poll", "asking", "read", "wrote"}]
      /\ transfer \in [Clients -> Transfers]
      /\ clientStatus \in [Clients -> {"idle", "running", "ended", "fatal", "sigpipe"}]
  BY DEF MessengerInv, ClientTypeOK, NetworkTypeOK
<1>1. CASE ClientConnects(c) \/ TakesStatus(c)
  BY <1>0, <1>1 DEF ClientConnects, TakesStatus, Takes, Queues, SetTransfer, GoesTo, Aborts
<1>2. CASE TakesNickname(c) \/ TakesChat(c) \/ TakesBye(c) \/ TakesFileRequest(c)
  BY <1>0, <1>2 DEF TakesNickname, TakesChat, TakesBye, TakesFileRequest, Takes, GoesTo
<1>3. CASE TakesFileData(c) \/ UserAnswers(c)
  BY <1>0, <1>3 DEF TakesFileData, UserAnswers, Takes, Queues, SetTransfer, GoesTo, networkVars
<1>4. CASE Cycle(c)
  BY <1>0, <1>4 DEF Cycle, Queues, SetTransfer, networkVars
<1>5. CASE ClientWrites(c) \/ ClientWritesInVain(c) \/ ClientEnds(c)
  BY <1>0, <1>5 DEF ClientWrites, ClientWritesInVain, ClientEnds, GoesTo
<1>6. CASE \/ TypesText(c) \/ \E name \in TypedNames : TypesNickname(c, name)
           \/ OpensDialog(c) \/ ClosesDialog(c) \/ Quits(c)
  BY <1>0, <1>6 DEF TypesText, TypesNickname, OpensDialog, ClosesDialog, Quits, Queues, networkVars
<1>7. CASE \E file \in Files : SendsFile(c, file)
  BY <1>0, <1>7 DEF SendsFile, Queues, SetTransfer, networkVars
<1> QED BY <1>1, <1>2, <1>3, <1>4, <1>5, <1>6, <1>7 DEF ClientProgram, NetworkThread

\* Without a message from the server, it goes on like that.
LEMMA StrangersOwn ==
  ASSUME SystemInv, UNCHANGED serverVars, NEW c \in Clients, ClientProgram(c),
         toClient[c] = <<>>, task[c] # "asking", ~transfer[c].hasFileTransferStarted,
         ~transfer[c].isReceivingFile
  PROVE  /\ Goes(c, "STATUS")' => Has(Outgoing(c), "STATUS")
         /\ task'[c] # "asking" /\ ~transfer'[c].hasFileTransferStarted
         /\ ~transfer'[c].isReceivingFile
<1>0. /\ MessengerInv /\ Outgoing(c) \in Seq(Messages)
      /\ task \in [Clients -> {"poll", "asking", "read", "wrote"}]
      /\ transfer \in [Clients -> Transfers] /\ typed \in [Clients -> 0..MaxTexts]
  BY LinesType DEF SystemInv, MessengerInv, ClientTypeOK
<1>1. ASSUME NEW m \in Messages, m.type # "STATUS", Queues(c, m),
             UNCHANGED <<toServer, toClient, serverEnd>>
      PROVE  Has(Outgoing(c)', "STATUS") => Has(Outgoing(c), "STATUS")
  <2>1. Outgoing(c)' = Outgoing(c) \/ Outgoing(c)' = Append(Outgoing(c), m)
    BY <1>0, <1>1, QueuesLines
  <2>2. CASE Outgoing(c)' = Append(Outgoing(c), m)
    BY <1>0, <1>1, <2>2, LongerLine
  <2> QED BY <2>1, <2>2
<1>2. CASE ClientConnects(c)
  <2>1. Hello \in Messages /\ Hello.type # "STATUS"
    BY ClientMessages DEF Hello
  <2> QED BY <1>1, <1>2, <2>1 DEF ClientConnects, Goes
<1>3. CASE ClientWrites(c) \/ ClientWritesInVain(c) \/ ClientEnds(c)
  <2>1. Served(c)' => Outgoing(c)' = Outgoing(c)
    BY <1>0, <1>3, WritesLines
  <2> QED BY <1>0, <1>3, <2>1 DEF Goes, ClientWrites, ClientWritesInVain, ClientEnds, GoesTo
<1>4. CASE Cycle(c)
  <2>1. UNCHANGED <<transfer, clientQueue, networkVars>> /\ task'[c] = "poll"
    BY <1>0, <1>4 DEF Cycle, IsTransmitting
  <2> QED BY <2>1 DEF Goes, Outgoing, networkVars
<1>5. CASE TypesText(c)
  <2>1. /\ Queues(c, Chat(Anyone, <<c, typed[c] + 1>>)) /\ <<c, typed[c] + 1>> \in Texts
        /\ UNCHANGED <<transfer, networkVars, task>>
    BY <1>0, <1>5, TextsAssumption DEF TypesText, Texts
  <2>2. \A text \in Texts : Chat(Anyone, text) \in Messages /\ Chat(Anyone, text).type # "STATUS"
    BY MessageTypes, ClientMessages DEF Chat
  <2> QED BY <1>1, <2>1, <2>2 DEF networkVars, Goes
<1>6. ASSUME NEW name \in TypedNames, TypesNickname(c, name)
      PROVE  /\ Has(Outgoing(c)', "STATUS") => Has(Outgoing(c), "STATUS")
             /\ UNCHANGED <<task, transfer>>
  <2>1. Nickname(name) \in Messages /\ Nickname(name).type # "STATUS"
    BY MessageTypes DEF Nickname, Names
  <2> QED BY <1>1, <1>6, <2>1 DEF TypesNickname, networkVars
<1>7. CASE Quits(c)
  <2>1. Bye \in Messages /\ Bye.type # "STATUS"
    BY MessageTypes DEF Bye
  <2> QED BY <1>1, <1>7, <2>1 DEF Quits, networkVars, Goes
<1>8. CASE OpensDialog(c) \/ ClosesDialog(c)
  BY <1>8 DEF OpensDialog, ClosesDialog, Goes, Outgoing, networkVars
<1>9. ASSUME NEW file \in Files, SendsFile(c, file)
      PROVE  /\ Has(Outgoing(c)', "STATUS") => Has(Outgoing(c), "STATUS")
             /\ UNCHANGED task /\ ~transfer'[c].hasFileTransferStarted
             /\ ~transfer'[c].isReceivingFile
  <2>1. FileRequest(Anyone, file) \in Messages /\ FileRequest(Anyone, file).type # "STATUS"
    BY MessageTypes, ClientMessages DEF FileRequest
  <2>2. SetTransfer(c, [transfer[c] EXCEPT !.isSendingFile = TRUE, !.fileName = file])
    BY <1>9 DEF SendsFile
  <2>3. ~transfer'[c].hasFileTransferStarted /\ ~transfer'[c].isReceivingFile
    BY <1>0, <2>2 DEF SetTransfer, Transfers
  <2> QED BY <1>1, <1>9, <2>1, <2>3 DEF SendsFile, networkVars
<1>10. \A type : ~Takes(c, type)
  BY DEF Takes
<1> QED BY <1>2, <1>3, <1>4, <1>5, <1>6, <1>7, <1>8, <1>9, <1>10
        DEF Goes, ClientProgram, NetworkThread, TakesStatus, TakesNickname, TakesChat, TakesBye,
            TakesFileRequest, TakesFileData, UserAnswers

\* Only a client that has not ended does anything.
LEMMA OnlyCurrent ==
  ASSUME NEW c \in Clients, ClientProgram(c) PROVE Current(c)
<1>1. CASE ClientConnects(c)
  BY <1>1 DEF ClientConnects, Current
<1>2. CASE NetworkThread(c)
  BY <1>2 DEF NetworkThread, TakesStatus, TakesNickname, TakesChat, TakesBye, TakesFileRequest,
              TakesFileData, Cycle, ClientWrites, ClientWritesInVain, ClientEnds, Takes,
              ClientRuns, Current
<1>3. CASE \/ UserAnswers(c) \/ TypesText(c) \/ \E name \in TypedNames : TypesNickname(c, name)
           \/ OpensDialog(c) \/ \E file \in Files : SendsFile(c, file)
           \/ ClosesDialog(c) \/ Quits(c)
  BY <1>3 DEF UserAnswers, TypesText, TypesNickname, OpensDialog, SendsFile, ClosesDialog, Quits,
              AtPrompt, ClientRuns, Current
<1> QED BY <1>1, <1>2, <1>3 DEF ClientProgram

\* What the server does of a session that is not registered.
LEMMA ServersStrangers ==
  ASSUME SystemInv, LoginInv, UNCHANGED clientVars, ServerStep, NEW e \in Clients,
         Stranger(e)'
  PROVE  /\ e \notin sessions
         /\ isFileTransferSender'[e] => isFileTransferSender[e]
         /\ fileTransferStatus'[e] = fileTransferStatus[e]
         /\ Outgoing(e)' = Outgoing(e)
<1>0. /\ TypeOK /\ MessengerInv /\ sessions \in SUBSET Clients
      /\ isFileTransferSender \in [Clients -> BOOLEAN] /\ UNCHANGED clientQueue
      /\ serverEnd \in [Clients -> Ends] /\ toServer \in [Clients -> Seq(Messages)]
  BY DEF SystemInv, MessengerInv, TypeInv, TypeOK, NetworkTypeOK, clientVars
<1>1. CASE Register
  BY <1>0, <1>1 DEF Register, networkVars, sessionVars, Stranger, Outgoing
<1>2. ASSUME NEW c \in Clients, HandlerStep(c)
      PROVE  /\ e \notin sessions /\ fileTransferStatus'[e] = fileTransferStatus[e]
             /\ isFileTransferSender'[e] = isFileTransferSender[e]
             /\ Outgoing(e)' = Outgoing(e)
  BY <1>2, HandlersOwn DEF Stranger
<1>3. ASSUME NEW c \in Clients,
             \/ Accept(c) \/ Write(c) \/ WriteInVain(c)
             \/ ReceiveUnknown(c) \/ WriteAfterReset(c)
             \/ c \notin sessions /\ Hangup(c)
      PROVE  /\ e \notin sessions /\ fileTransferStatus'[e] = fileTransferStatus[e]
             /\ isFileTransferSender'[e] => isFileTransferSender[e]
             /\ Outgoing(e)' = Outgoing(e)
  <2>1. /\ UNCHANGED <<sessions, fileTransferStatus, toServer>>
        /\ \/ UNCHANGED isFileTransferSender
           \/ isFileTransferSender' = [isFileTransferSender EXCEPT ![c] = FALSE]
    BY <1>3 DEF Accept, Write, WriteInVain, ReceiveUnknown, WriteAfterReset, Hangup, RemoveSession,
                ServerIdle, TransferIdle, sessionVars
  <2> QED BY <1>0, <2>1 DEF Stranger, Outgoing
<1>4. ASSUME NEW c \in sessions, Hangup(c)
      PROVE  /\ e \notin sessions /\ fileTransferStatus'[e] = fileTransferStatus[e]
             /\ isFileTransferSender'[e] = isFileTransferSender[e]
             /\ Outgoing(e)' = Outgoing(e)
  <2>1. /\ UNCHANGED <<toServer, fileTransferStatus, isFileTransferSender>>
        /\ sessions' = sessions \ {c} /\ clientEnd[c] \in Gone
        /\ serverEnd' = [serverEnd EXCEPT ![c] = AfterClose(toServer[c])]
    BY <1>4 DEF Hangup, RemoveSession
  <2>2. e # c
    <3>1. ~Served(c)'
      BY <1>0, <2>1 DEF Served, AfterClose, Gone
    <3>2. ~Current(c)'
      BY <1>0, <2>1 DEF MessengerInv, EndsFit, Current, ClientRuns, Gone, clientVars
    <3> QED BY <3>1, <3>2 DEF Stranger
  <2> QED BY <1>0, <2>1, <2>2 DEF Stranger, Outgoing
<1> QED BY <1>1, <1>2, <1>3, <1>4, NobodyLeaves DEF ServerStep, SessionStep, HandlerStep

\* Every step.
LEMMA StrangerStep ==
  ASSUME SystemInv, PresenceInv, LoginInv, StrangerInv, [MessengerNext]_messengerVars
  PROVE  StrangerInv'
<1>0. EndsMeet /\ MessengerInv
  BY DEF PresenceInv, SystemInv
<1> SUFFICES ASSUME NEW e \in Clients, Stranger(e)'
             PROVE  /\ ToCome(e)' = <<>>
                    /\ task'[e] # "asking"
                    /\ ~transfer'[e].hasFileTransferStarted
                    /\ ~transfer'[e].isReceivingFile
                    /\ ~isFileTransferSender'[e]
                    /\ fileTransferStatus'[e] = "FileTransferCanceled"
                    /\ ~Goes(e, "STATUS")'
  BY DEF StrangerInv, StrangeFits
<1>1. Stranger(e) => /\ toClient[e] = <<>> /\ sendingQueue[e] = <<>>
                     /\ task[e] # "asking"
                     /\ ~transfer[e].hasFileTransferStarted
                     /\ ~transfer[e].isReceivingFile
                     /\ ~isFileTransferSender[e]
                     /\ fileTransferStatus[e] = "FileTransferCanceled"
                     /\ ~Goes(e, "STATUS")
  <2>1. toClient[e] \in Seq(Messages) /\ sendingQueue[e] \in Seq(Messages)
    BY <1>0, LinesType
  <2>2. ToCome(e) = <<>> => toClient[e] = <<>> /\ sendingQueue[e] = <<>>
    BY <2>1 DEF ToCome
  <2> QED BY <2>2 DEF StrangerInv, StrangeFits
<1>2. CASE UNCHANGED messengerVars
  <2>1. /\ UNCHANGED <<toClient, toServer, serverEnd, sendingQueue, clientQueue, clientStatus>>
        /\ UNCHANGED <<sessions, task, transfer, isFileTransferSender, fileTransferStatus>>
    BY <1>2 DEF messengerVars, vars, networkVars, serverVars, sessionVars, clientVars
  <2> QED BY <1>1, <2>1 DEF Stranger, Current, Served, ToCome, Goes, Outgoing
<1>3. CASE ServerStep /\ UNCHANGED clientVars
  <2>1. Spared(e)
    BY <1>0, <1>3, ServerSpares
  <2>2. Current(e)' = Current(e) /\ task'[e] = task[e] /\ transfer'[e] = transfer[e]
    BY <1>3 DEF Current, clientVars
  <2>3. /\ e \notin sessions /\ (isFileTransferSender'[e] => isFileTransferSender[e])
        /\ fileTransferStatus'[e] = fileTransferStatus[e] /\ Outgoing(e)' = Outgoing(e)
    BY <1>3, <2>1, ServersStrangers DEF Spared, Stranger
  <2>4. Stranger(e) /\ (Served(e)' => Served(e))
    BY <2>1, <2>2, <2>3 DEF Stranger, Spared
  <2>5. ToCome(e)' = <<>>
    BY <1>1, <2>1, <2>3, <2>4 DEF Spared, ToCome
  <2> QED BY <1>1, <2>2, <2>3, <2>4, <2>5 DEF Goes
<1>4. ASSUME NEW c \in Clients, ClientProgram(c), UNCHANGED serverVars
      PROVE  /\ ToCome(e)' = <<>>
             /\ task'[e] # "asking"
             /\ ~transfer'[e].hasFileTransferStarted
             /\ ~transfer'[e].isReceivingFile
             /\ ~isFileTransferSender'[e]
             /\ fileTransferStatus'[e] = "FileTransferCanceled"
             /\ ~Goes(e, "STATUS")'
  <2>1. Untold(e)
    BY <1>0, <1>4, ClientsSpare
  <2>2. UNCHANGED <<sessions, sendingQueue, isFileTransferSender, fileTransferStatus>>
    BY <1>4 DEF serverVars, sessionVars
  <2>3. Current(e)' => Current(e)
    BY <1>0, <1>4, OnlyCurrent, ClientsOwn DEF Current
  <2>4. Stranger(e) /\ (Served(e)' => Served(e))
    BY <2>1, <2>2, <2>3 DEF Stranger, Untold
  <2>5. ToCome(e)' = <<>>
    BY <1>1, <2>1, <2>2, <2>4 DEF Untold, ToCome
  <2>6. CASE e # c
    <3>1. /\ Outgoing(e)' = Outgoing(e) /\ task'[e] = task[e] /\ transfer'[e] = transfer[e]
      BY <1>0, <1>4, <2>6, ClientsOwn DEF Outgoing
    <3> QED BY <1>1, <2>2, <2>4, <2>5, <3>1 DEF Goes
  <2>7. CASE e = c
    <3>1. /\ Goes(c, "STATUS")' => Has(Outgoing(c), "STATUS")
          /\ task'[c] # "asking" /\ ~transfer'[c].hasFileTransferStarted
          /\ ~transfer'[c].isReceivingFile
      BY <1>1, <1>4, <2>4, <2>7, StrangersOwn
    <3> QED BY <1>1, <2>2, <2>4, <2>5, <2>7, <3>1 DEF Goes
  <2> QED BY <2>6, <2>7
<1> QED BY <1>2, <1>3, <1>4 DEF MessengerNext

LEMMA StrangerInit == MessengerInit => StrangerInv
<1> SUFFICES ASSUME MessengerInit, NEW c \in Clients PROVE StrangeFits(c)
  BY DEF StrangerInv
<1>1. /\ toClient[c] = <<>> /\ sendingQueue[c] = <<>>
      /\ toServer[c] = <<>> /\ clientQueue[c] = <<>>
      /\ task[c] = "poll" /\ transfer[c] = NoTransfer /\ ~isFileTransferSender[c]
      /\ fileTransferStatus[c] = "FileTransferCanceled"
  BY DEF MessengerInit, Init, NetworkInit, ServerInit, ClientInit
<1>2. ToCome(c) = <<>> /\ Outgoing(c) = <<>>
  BY <1>1 DEF ToCome, Outgoing
<1> QED BY <1>1, <1>2, EmptyLine DEF StrangeFits, NoTransfer, Goes

LEMMA AlwaysStranger == MessengerSpec => []StrangerInv
<1>1. /\ SystemInv /\ PresenceInv /\ LoginInv /\ StrangerInv /\ [MessengerNext]_messengerVars
      => StrangerInv'
  BY StrangerStep
<1> QED BY <1>1, StrangerInit, AlwaysSystemInv, AlwaysPresence, AlwaysLogin, PTL
        DEF MessengerSpec

-----------------------------------------------------------------------------
(* What holds of the first transfer.                                       *)

\* At the start nobody has asked for anything ...
LEMMA TransferInit == OneRequestInit => TransferInv
<1> SUFFICES ASSUME OneRequestInit PROVE TransferInv
  OBVIOUS
<1>1. ASSUME NEW c \in Clients
      PROVE  /\ ToCome(c) = <<>> /\ Outgoing(c) = <<>> /\ task[c] = "poll"
             /\ ~transfer[c].isSendingFile /\ ~transfer[c].isReceivingFile
             /\ ~transfer[c].hasFileTransferStarted /\ ~isFileTransferSender[c]
             /\ fileTransferStatus[c] = "FileTransferCanceled" /\ pc[c] = "none"
             /\ ~fileTransferModeActive /\ ~Owner(c)
  <2>1. transfer[c] = NoTransfer
    BY DEF OneRequestInit, MessengerInit, ClientInit
  <2> QED BY <2>1 DEF OneRequestInit, MessengerInit, Init, NetworkInit, ServerInit, ClientInit,
                      ToCome, Outgoing, Owner, NoTransfer
<1>2. ASSUME NEW c \in Clients
      PROVE  /\ \A type : ~Goes(c, type) /\ ~Comes(c, type)
             /\ \A code : ~Says(c, code) /\ ~Tells(c, code)
             /\ ~Closes(c) /\ ~Concludes(c) /\ OutTidy(c) /\ InTidy(c)
  BY <1>1, EmptyLine DEF Goes, Comes, Says, Tells, Closes, Concludes, OutTidy, InTidy
<1>3. ~fileTransferModeActive
  BY DEF OneRequestInit, MessengerInit, Init, ServerInit
<1>4. \A c \in Clients : UntouchedBy(c)
  BY <1>1, <1>2 DEF UntouchedBy, Deciding
<1>5. \A c \in Clients : /\ ~MayStart(c) /\ ~Decided(c) /\ ~Asked(c) /\ ~Accepted(c)
  BY <1>1, <1>2 DEF MayStart, Decided, Asked, Accepted, Comes
<1>6. RequestInv
  BY <1>1, <1>2, <1>3, <1>4 DEF RequestInv, RequestFits, Untouched
<1>7. AnswerInv
  BY <1>1, <1>2, <1>5 DEF AnswerInv, AnswerFits, Answers, Verdicts
<1>8. VerdictInv /\ HoldInv
  BY <1>1, <1>2, <1>5 DEF VerdictInv, VerdictFits, HoldInv, HoldFits
<1>9. DataInv
  BY <1>1, <1>2, <1>5 DEF DataInv, DataFits
<1> QED BY <1>2, <1>6, <1>7, <1>8, <1>9 DEF TransferInv, TidyInv

\* ... and every step keeps to it.
LEMMA TransferStep ==
  ASSUME SystemInv, LoginInv, StrangerInv, TransferInv, [OneRequestNext]_oneRequestVars
  PROVE  TransferInv'
<1>1. CASE UNCHANGED oneRequestVars
  <2>1. /\ UNCHANGED <<serverVars, requested, transfer, networkVars, clientQueue, clientStatus>>
        /\ UNCHANGED task
    BY <1>1 DEF oneRequestVars, messengerVars, vars, clientVars
  <2> QED BY <2>1, PlainRest, QuietKeeps DEF SystemInv
<1>2. CASE \E c \in Clients, file \in Files : RequestsFile(c, file)
  BY <1>2, RequestsFileKeeps
<1>3. CASE ServerStep /\ UNCHANGED <<clientVars, requested>>
  BY <1>3, ServerKeepsTransfer
<1>4. ASSUME NEW c \in Clients, ClientProgram(c), UNCHANGED <<serverVars, requested>>,
             ~SomeSendsFile
      PROVE  TransferInv'
  <2>1. \A file \in Files : ~SendsFile(c, file)
    BY <1>4 DEF SomeSendsFile
  <2>2. CASE \/ ClientConnects(c) \/ TakesNickname(c) \/ TakesChat(c) \/ TakesBye(c)
             \/ ClientWrites(c) \/ ClientWritesInVain(c) \/ ClientEnds(c)
             \/ TypesText(c) \/ \E name \in TypedNames : TypesNickname(c, name)
             \/ OpensDialog(c) \/ ClosesDialog(c) \/ Quits(c)
    BY <1>4, <2>2, PlainClientSteps, QuietKeeps
  <2>3. CASE TakesStatus(c)
    BY <1>4, <2>3, TakesStatusKeeps
  <2>4. CASE TakesFileRequest(c)
    BY <1>4, <2>4, TakesRequestKeeps
  <2>5. CASE UserAnswers(c)
    BY <1>4, <2>5, UserAnswersKeeps
  <2>6. CASE TakesFileData(c)
    BY <1>4, <2>6, TakesBlockKeeps
  <2>7. CASE Cycle(c)
    BY <1>4, <2>7, SendsBlockKeeps
  <2> QED BY <1>4, <2>1, <2>2, <2>3, <2>4, <2>5, <2>6, <2>7 DEF ClientProgram, NetworkThread
<1> QED BY <1>1, <1>2, <1>3, <1>4 DEF OneRequestNext, MessengerNext

\* The system in which one file is asked for is the system.
LEMMA RequestIsStep ==
  ASSUME [OneRequestNext]_oneRequestVars PROVE [MessengerNext]_messengerVars
<1>1. ASSUME NEW c \in Clients, NEW file \in Files, RequestsFile(c, file) PROVE MessengerNext
  BY <1>1 DEF RequestsFile, MessengerNext, ClientProgram
<1>2. CASE UNCHANGED oneRequestVars
  BY <1>2 DEF oneRequestVars
<1> QED BY <1>1, <1>2 DEF OneRequestNext

\* Nothing is assumed of it but that one file is asked for: each of its behaviours
\* is one of the whole system, and keeps what is proved of that.
THEOREM OneRequestIsMessenger == OneRequestSpec => MessengerSpec
<1>1. OneRequestInit => MessengerInit
  BY DEF OneRequestInit
<1>2. [OneRequestNext]_oneRequestVars => [MessengerNext]_messengerVars
  BY RequestIsStep
<1> QED BY <1>1, <1>2, PTL DEF OneRequestSpec, MessengerSpec

LEMMA AlwaysTransfer == OneRequestSpec => [](SystemInv /\ TransferInv)
<1>1. /\ SystemInv /\ LoginInv /\ StrangerInv /\ TransferInv /\ [OneRequestNext]_oneRequestVars
      => TransferInv'
  BY TransferStep
<1> QED BY <1>1, TransferInit, OneRequestIsMessenger, AlwaysSystemInv, AlwaysLogin,
           AlwaysStranger, PTL DEF OneRequestSpec

\* What is in the connection or in the queue is on its way to the client.
LEMMA JoinedHas ==
  ASSUME MessengerInv, NEW c \in Clients, NEW type
  PROVE  Has(ToCome(c), type) <=> (Has(toClient[c], type) \/ Has(sendingQueue[c], type))
<1> DEFINE s == toClient[c]
           r == sendingQueue[c]
           line == s \o r
<1>1. s \in Seq(Messages) /\ r \in Seq(Messages)
  BY LinesType
<1> HIDE DEF s, r
<1>2. /\ Len(s) \in Nat /\ Len(r) \in Nat /\ Len(line) = Len(s) + Len(r)
      /\ \A i \in 1..Len(s) : line[i] = s[i]
      /\ \A i \in 1..Len(r) : line[i + Len(s)] = r[i]
  BY <1>1
<1> HIDE DEF line
<1>3. /\ \A i \in 1..Len(s) : i \in 1..Len(line)
      /\ \A i \in 1..Len(r) : i + Len(s) \in 1..Len(line)
  BY <1>2
<1>4. Has(s, type) \/ Has(r, type) => Has(line, type)
  BY <1>2, <1>3 DEF Has
<1>5. ASSUME NEW i \in 1..Len(line), line[i].type = type
      PROVE  Has(s, type) \/ Has(r, type)
  <2>1. CASE i \in 1..Len(s)
    BY <1>2, <1>5, <2>1 DEF Has
  <2>2. CASE i \notin 1..Len(s)
    <3> DEFINE k == i - Len(s)
    <3>1. i \in Int /\ Len(s) + 1 <= i /\ i <= Len(s) + Len(r)
      BY <1>2, <2>2
    <3>2. k \in 1..Len(r) /\ k + Len(s) = i
      BY <1>2, <3>1
    <3> HIDE DEF k
    <3>3. r[k].type = type
      BY <1>2, <1>5, <3>2
    <3> QED BY <3>2, <3>3 DEF Has
  <2> QED BY <2>1, <2>2
<1>6. Has(line, type) => Has(s, type) \/ Has(r, type)
  BY <1>5 DEF Has
<1> QED BY <1>4, <1>6 DEF ToCome, line, s, r

\* A file is on its way only when everybody has answered: the sender starts only once
\* scanFileTransferResponses() has found an answer in every session, and none is asked
\* again before the transfer is over (section 3.2.5).
THEOREM AnsweredBeforeTransmitted == OneRequestSpec => []TransmitsAfterAnswers
<1>1. ASSUME SystemInv, TransferInv PROVE TransmitsAfterAnswers
  <2> SUFFICES ASSUME NEW c \in Clients, IsTransmitting(transfer[c]),
                      NEW d \in Clients \ {c}, ClientRuns(d)
               PROVE  ~Unanswered(d)
    BY DEF TransmitsAfterAnswers
  <2>1. Decided(c)
    BY DEF IsTransmitting, Decided, MayStart
  <2>2. Current(d) /\ ~Asked(d)
    BY <1>1, <2>1 DEF TransferInv, VerdictInv, VerdictFits, ClientRuns, Current
  <2>3. task[d] # "asking" /\ ~Has(ToCome(d), "FILE_REQUEST")
    BY <2>2 DEF Asked
  <2> QED BY <1>1, <2>3, JoinedHas DEF SystemInv, Unanswered, Has
<1> QED BY <1>1, AlwaysTransfer, PTL

\* As long as a client transmits, the server keeps the transfer for it: only its own
\* last block, or its end, frees fileTransferModeActive_ and the session's sender flag.
THEOREM TransmitterKeepsTransfer == OneRequestSpec => []TransmitterHoldsTransfer
<1>1. ASSUME SystemInv, TransferInv PROVE TransmitterHoldsTransfer
  <2>1. sessions \subseteq Clients
    BY <1>1 DEF SystemInv, MessengerInv, TypeInv, TypeOK
  <2> QED BY <1>1, <2>1 DEF TransferInv, HoldInv, HoldFits, MayStart, IsTransmitting,
                            TransmitterHoldsTransfer
<1> QED BY <1>1, AlwaysTransfer, PTL

\* Blocks are on their way only to clients that are receiving: the server passes them
\* on only to those whose answer was yes, and a client that has had the last is sent
\* no more, so that changeFileData() never drops one.
THEOREM DataReachesReceivers == OneRequestSpec => []DataForReceiversOnly
<1>1. ASSUME SystemInv, TransferInv PROVE DataForReceiversOnly
  <2> SUFFICES ASSUME NEW d \in Clients, ClientRuns(d), ~transfer[d].isReceivingFile,
                      NEW m \in Range(sendingQueue[d]) \cup Range(toClient[d])
               PROVE  m.type # "FILE_DATA"
    BY DEF DataForReceiversOnly
  <2>1. ~Has(ToCome(d), "FILE_DATA")
    BY <1>1 DEF TransferInv, DataInv, DataFits, Comes, ClientRuns, Current
  <2>2. \/ \E i \in 1..Len(toClient[d]) : m = toClient[d][i]
        \/ \E i \in 1..Len(sendingQueue[d]) : m = sendingQueue[d][i]
    BY <1>1, LinesType DEF SystemInv, Range
  <2>3. ~Has(toClient[d], "FILE_DATA") /\ ~Has(sendingQueue[d], "FILE_DATA")
    BY <1>1, <2>1, JoinedHas DEF SystemInv
  <2> QED BY <2>2, <2>3 DEF Has
<1> QED BY <1>1, AlwaysTransfer, PTL

-----------------------------------------------------------------------------
(* What becomes of the first file.                                         *)

\* Block k of the file, as its sender reads it.
BlockOf(f, k) == FileData(k, <<f, k>>, k = Blocks[f] - 1)

\* The blocks in the line are those of the file from a up to b, in order.
Stream(line, f, a, b) ==
  /\ a <= b
  /\ \A i \in 1..Len(line) : line[i].type = "FILE_DATA" =>
        line[i].offset \in a..(b - 1) /\ line[i] = BlockOf(f, line[i].offset)
  /\ \A k \in a..(b - 1) : \E i \in 1..Len(line) : line[i] = BlockOf(f, k)
  /\ \A i, j \in 1..Len(line) :
        (i < j /\ line[i].type = "FILE_DATA" /\ line[j].type = "FILE_DATA")
          => line[i].offset < line[j].offset

\* Every request in the line is for the file.
AsksFor(line, f) ==
  \A i \in 1..Len(line) : line[i].type = "FILE_REQUEST" => line[i].file = f

\* The blocks up to k, and how many of them a client that receives has saved.
Part(f, k) == {<<j, <<f, j>>>> : j \in 0..(k - 1)}
Count(d) == IF transfer[d].handle.mode = "closed" THEN 0 ELSE transfer[d].handle.pos + 1

\* What is on the disks is whole before a transfer, and the sender's stays so.
HasWhole(c) ==
  requested = {} \/ Owner(c) => \A f \in Files : disk[c][f] \in {Absent, Whole(f)}

\* Outside of a transfer no file is open.
RestFits(c) ==
  ~transfer[c].isSendingFile =>
     /\ transfer[c].offset = 0
     /\ ~transfer[c].isReceivingFile => transfer[c].handle.mode = "closed"

\* Whoever is asked is asked about the file.
RequestIs(d, f) ==
  /\ Served(d) => AsksFor(Outgoing(d), f)
  /\ Current(d) => AsksFor(ToCome(d), f)
  /\ pc[d] = "requesting" => hand[d].file = f
  /\ Current(d) /\ task[d] = "asking" => request[d].file = f

\* The sender is at the block it has announced as its offset.
SourceFits(c, f) ==
  LET t == transfer[c]
  IN  t.isSendingFile =>
        /\ t.fileName = f
        /\ t.offset < Blocks[f]
        /\ t.handle.mode = "closed" => t.offset = 0
        /\ t.handle.mode # "closed" => /\ t.handle = [mode |-> "r", file |-> f, pos |-> t.offset]
                                       /\ t.hasFileTransferStarted
                                       /\ disk[c][f] = Whole(f)

\* From block n on, what the sender has queued is on its way to the server.
Sends(c, f, n) ==
  Served(c) => \E k \in Nat : /\ Stream(Outgoing(c), f, n, k)
                              /\ transfer[c].isSendingFile => k = transfer[c].offset

\* Who receives has saved the first blocks ...
Receives(d) == Current(d) /\ transfer[d].isReceivingFile
ReceiverFits(d, f) ==
  LET t == transfer[d]
  IN  Receives(d) =>
        /\ ~Asked(d)
        /\ t.fileName = f
        /\ t.handle.mode # "closed" => /\ t.handle.mode = "w" /\ t.handle.file = f
                                       /\ disk[d][f] = Part(f, Count(d))
                                       /\ fileTransferStatus[d] = "AcceptFileTransfer"

\* ... and the others are on their way, first from the server, then from the sender.
Pipe(c, d, f) ==
  Receives(d) /\ fileTransferStatus[d] = "AcceptFileTransfer" =>
     \E n \in Nat : Stream(ToCome(d), f, Count(d), n) /\ Sends(c, f, n)

\* Who shows a file as received has all of it.
RowsWhole(c) ==
  \A i \in 1..Len(chatHistory[c]) :
     chatHistory[c][i].kind = "received"
       => chatHistory[c][i].content = Whole(chatHistory[c][i].file)

\* There is at most one request.
OneRequested == requested \subseteq Clients \X Files /\ \A x, y \in requested : x = y

FileInv ==
  /\ OneRequested
  /\ \A c \in Clients : HasWhole(c) /\ RestFits(c) /\ RowsWhole(c)
  /\ \A c \in Clients, f \in Files : <<c, f>> \in requested =>
       /\ SourceFits(c, f)
       /\ \A d \in Clients : RequestIs(d, f)
       /\ \A d \in Clients \ {c} : ReceiverFits(d, f) /\ Pipe(c, d, f)

-----------------------------------------------------------------------------
(* Lines with the blocks of the file.                                      *)

\* What a step does to a line when it is neither asked about the file nor sent a block.
Steady(s, r) ==
  /\ Has(r, "FILE_REQUEST") => Has(s, "FILE_REQUEST")
  /\ \A f : AsksFor(s, f) => AsksFor(r, f)
  /\ \A f : \A a, b \in Nat : Stream(s, f, a, b) => Stream(r, f, a, b)

\* Neither a request nor a block.
Aside(m) == m.type \notin {"FILE_REQUEST", "FILE_DATA"}

LEMMA SteadyTwice ==
  ASSUME NEW s, NEW r, NEW q, Steady(s, r), Steady(r, q) PROVE Steady(s, q)
BY DEF Steady

LEMMA SteadyItself == \A s : Steady(s, s)
BY DEF Steady

\* A line without a block.
LEMMA StreamOfNone ==
  ASSUME NEW s, NEW f, ~Has(s, "FILE_DATA"), NEW a \in Nat, NEW b \in Nat
  PROVE  Stream(s, f, a, b) <=> a = b
<1>1. \A i \in 1..Len(s) : s[i].type # "FILE_DATA"
  BY DEF Has
<1>2. \A k : BlockOf(f, k).type = "FILE_DATA"
  BY DEF BlockOf, FileData
<1>3. Stream(s, f, a, b) => a = b
  <2> SUFFICES ASSUME Stream(s, f, a, b), a < b PROVE FALSE
    BY DEF Stream
  <2>1. a \in a..(b - 1)
    OBVIOUS
  <2> QED BY <1>1, <1>2, <2>1 DEF Stream
<1>4. Stream(s, f, a, a)
  BY <1>1 DEF Stream
<1> QED BY <1>3, <1>4

\* One message more ...
LEMMA StreamLonger ==
  ASSUME NEW s \in Seq(Messages), NEW m \in Messages, NEW f,
         NEW a \in Nat, NEW b \in Nat, Stream(s, f, a, b)
  PROVE  /\ m.type # "FILE_DATA" => Stream(Append(s, m), f, a, b)
         /\ m = BlockOf(f, b) => Stream(Append(s, m), f, a, b + 1)
<1> DEFINE r == Append(s, m)
           n == Len(s)
<1>1. /\ n \in Nat /\ Len(r) = n + 1 /\ r[n + 1] = m /\ (\A i \in 1..n : r[i] = s[i])
      /\ \A i \in 1..(n + 1) : i \in 1..n \/ i = n + 1
      /\ \A i \in 1..n : i \in 1..(n + 1) /\ ~(n + 1 < i)
      /\ n + 1 \in 1..(n + 1) /\ ~(n + 1 < n + 1)
  OBVIOUS
<1> HIDE DEF r
<1>2. /\ a <= b
      /\ \A i \in 1..n : s[i].type = "FILE_DATA" =>
            s[i].offset \in a..(b - 1) /\ s[i] = BlockOf(f, s[i].offset)
      /\ \A k \in a..(b - 1) : \E i \in 1..n : s[i] = BlockOf(f, k)
      /\ \A i, j \in 1..n : (i < j /\ s[i].type = "FILE_DATA" /\ s[j].type = "FILE_DATA")
                              => s[i].offset < s[j].offset
  BY DEF Stream
<1> HIDE DEF n
<1>3. ASSUME m.type # "FILE_DATA"
      PROVE  Stream(r, f, a, b)
  <2>1. \A k \in a..(b - 1) : \E i \in 1..(n + 1) : r[i] = BlockOf(f, k)
    BY <1>1, <1>2
  <2>2. \A i \in 1..(n + 1) : r[i].type = "FILE_DATA" => i \in 1..n /\ r[i] = s[i]
    BY <1>1, <1>3
  <2> QED BY <1>1, <1>2, <2>1, <2>2 DEF Stream
<1>4. ASSUME m = BlockOf(f, b)
      PROVE  Stream(r, f, a, b + 1)
  <2>0. m.type = "FILE_DATA" /\ m.offset = b
    BY <1>4 DEF BlockOf, FileData
  <2>1. \A k \in a..(b - 1) : k \in a..((b + 1) - 1)
    OBVIOUS
  <2>2. b \in a..((b + 1) - 1) /\ \A k \in a..((b + 1) - 1) : k \in a..(b - 1) \/ k = b
    BY <1>2
  <2>3. \A i \in 1..(n + 1) : r[i].type = "FILE_DATA" =>
            r[i].offset \in a..((b + 1) - 1) /\ r[i] = BlockOf(f, r[i].offset)
    <3> SUFFICES ASSUME NEW i \in 1..(n + 1), r[i].type = "FILE_DATA"
                 PROVE  r[i].offset \in a..((b + 1) - 1) /\ r[i] = BlockOf(f, r[i].offset)
      OBVIOUS
    <3>1. CASE i \in 1..n
      BY <1>1, <1>2, <2>1, <3>1
    <3>2. CASE i = n + 1
      BY <1>1, <1>4, <2>0, <2>2, <3>2
    <3> QED BY <1>1, <3>1, <3>2
  <2>4. \A k \in a..((b + 1) - 1) : \E i \in 1..(n + 1) : r[i] = BlockOf(f, k)
    BY <1>1, <1>2, <1>4, <2>2
  <2>5. \A i, j \in 1..(n + 1) : (i < j /\ r[i].type = "FILE_DATA" /\ r[j].type = "FILE_DATA")
                                   => r[i].offset < r[j].offset
    <3> SUFFICES ASSUME NEW i \in 1..(n + 1), NEW j \in 1..(n + 1), i < j,
                        r[i].type = "FILE_DATA", r[j].type = "FILE_DATA"
                 PROVE  r[i].offset < r[j].offset
      OBVIOUS
    <3>1. i \in 1..n /\ r[i] = s[i]
      BY <1>1
    <3>2. CASE j \in 1..n
      BY <1>1, <1>2, <3>1, <3>2
    <3>3. CASE j = n + 1
      <4>1. s[i].offset \in a..(b - 1) /\ r[j].offset = b
        BY <1>1, <1>2, <2>0, <3>1, <3>3
      <4> QED BY <3>1, <4>1
    <3> QED BY <1>1, <3>2, <3>3
  <2> QED BY <1>1, <1>2, <2>3, <2>4, <2>5 DEF Stream
<1> QED BY <1>3, <1>4 DEF r

\* ... and the first message less.
LEMMA StreamShorter ==
  ASSUME NEW s \in Seq(Messages), s # <<>>, NEW f, NEW a \in Nat, NEW b \in Nat,
         Stream(s, f, a, b)
  PROVE  /\ Head(s).type # "FILE_DATA" => Stream(Tail(s), f, a, b)
         /\ Head(s).type = "FILE_DATA" =>
              Head(s) = BlockOf(f, a) /\ a < b /\ Stream(Tail(s), f, a + 1, b)
<1> DEFINE r == Tail(s)
           n == Len(r)
           m == Head(s)
<1>1. /\ n \in Nat /\ Len(s) = n + 1 /\ s[1] = m /\ (\A i \in 1..n : s[i + 1] = r[i])
      /\ \A i \in 1..(n + 1) : i = 1 \/ \E k \in 1..n : i = k + 1
      /\ \A i, j \in 1..n : i < j <=> i + 1 < j + 1
      /\ \A i \in 1..n : i + 1 \in 1..(n + 1) /\ 1 < i + 1
      /\ 1 \in 1..(n + 1)
  <2>1. \A i \in 1..(n + 1) : i # 1 => i - 1 \in 1..n /\ i = (i - 1) + 1
    OBVIOUS
  <2> QED BY <2>1
<1> HIDE DEF r, m, n
<1>2. /\ a <= b
      /\ \A i \in 1..(n + 1) : s[i].type = "FILE_DATA" =>
            s[i].offset \in a..(b - 1) /\ s[i] = BlockOf(f, s[i].offset)
      /\ \A k \in a..(b - 1) : \E i \in 1..(n + 1) : s[i] = BlockOf(f, k)
      /\ \A i, j \in 1..(n + 1) :
            (i < j /\ s[i].type = "FILE_DATA" /\ s[j].type = "FILE_DATA")
              => s[i].offset < s[j].offset
  BY <1>1 DEF Stream
<1>3. \A i, j \in 1..n : (i < j /\ r[i].type = "FILE_DATA" /\ r[j].type = "FILE_DATA")
                           => r[i].offset < r[j].offset
  <2> SUFFICES ASSUME NEW i \in 1..n, NEW j \in 1..n, i < j,
                      r[i].type = "FILE_DATA", r[j].type = "FILE_DATA"
               PROVE  r[i].offset < r[j].offset
    OBVIOUS
  <2>1. i + 1 \in 1..(n + 1) /\ j + 1 \in 1..(n + 1) /\ i + 1 < j + 1
        /\ s[i + 1] = r[i] /\ s[j + 1] = r[j]
    BY <1>1
  <2> QED BY <1>2, <2>1
<1>4. \A i \in 1..n : r[i].type = "FILE_DATA" =>
          r[i].offset \in a..(b - 1) /\ r[i] = BlockOf(f, r[i].offset)
  BY <1>1, <1>2
<1>5. \A k : BlockOf(f, k).type = "FILE_DATA" /\ BlockOf(f, k).offset = k
  BY DEF BlockOf, FileData
<1>6. \A k \in a..(b - 1) : m # BlockOf(f, k) => \E i \in 1..n : r[i] = BlockOf(f, k)
  <2> SUFFICES ASSUME NEW k \in a..(b - 1), m # BlockOf(f, k)
               PROVE  \E i \in 1..n : r[i] = BlockOf(f, k)
    OBVIOUS
  <2>1. PICK i \in 1..(n + 1) : s[i] = BlockOf(f, k)
    BY <1>2
  <2>2. PICK j \in 1..n : i = j + 1
    BY <1>1, <2>1
  <2> QED BY <1>1, <2>1, <2>2
<1>7. ASSUME m.type # "FILE_DATA"
      PROVE  Stream(r, f, a, b)
  <2>1. \A k \in a..(b - 1) : \E i \in 1..n : r[i] = BlockOf(f, k)
    BY <1>5, <1>6, <1>7
  <2> QED BY <1>2, <1>3, <1>4, <2>1 DEF Stream, n
<1>8. ASSUME m.type = "FILE_DATA"
      PROVE  m = BlockOf(f, a) /\ a < b /\ Stream(r, f, a + 1, b)
  <2>1. m.offset \in a..(b - 1) /\ m = BlockOf(f, m.offset)
    BY <1>1, <1>2, <1>8
  <2>2. \A i \in 1..n : r[i].type = "FILE_DATA" => m.offset < r[i].offset
    BY <1>1, <1>2, <1>8
  <2>3. m.offset = a
    <3> SUFFICES ASSUME m.offset # a PROVE FALSE
      OBVIOUS
    <3>1. a \in a..(b - 1) /\ a < m.offset /\ m.offset \in Int
      BY <2>1
    <3>2. m # BlockOf(f, a)
      BY <1>5, <3>1
    <3>3. PICK i \in 1..n : r[i] = BlockOf(f, a)
      BY <1>6, <3>1, <3>2
    <3>4. r[i].type = "FILE_DATA" /\ r[i].offset = a
      BY <1>5, <3>3
    <3>5. m.offset < a
      BY <2>2, <3>4
    <3>6. \A x, y \in Int : ~(x < y /\ y < x)
      OBVIOUS
    <3> QED BY <3>1, <3>5, <3>6
  <2>4. \A i \in 1..n : r[i].type = "FILE_DATA" =>
            r[i].offset \in (a + 1)..(b - 1) /\ r[i] = BlockOf(f, r[i].offset)
    <3> SUFFICES ASSUME NEW i \in 1..n, r[i].type = "FILE_DATA"
                 PROVE  r[i].offset \in (a + 1)..(b - 1) /\ r[i] = BlockOf(f, r[i].offset)
      OBVIOUS
    <3>1. r[i].offset \in a..(b - 1) /\ a < r[i].offset /\ r[i] = BlockOf(f, r[i].offset)
      BY <1>4, <2>2, <2>3
    <3> QED BY <3>1
  <2>5. \A k \in (a + 1)..(b - 1) : \E i \in 1..n : r[i] = BlockOf(f, k)
    <3> SUFFICES ASSUME NEW k \in (a + 1)..(b - 1) PROVE \E i \in 1..n : r[i] = BlockOf(f, k)
      OBVIOUS
    <3>1. k \in a..(b - 1) /\ k # a
      OBVIOUS
    <3>2. m # BlockOf(f, k)
      BY <1>5, <2>3, <3>1
    <3> QED BY <1>6, <3>1, <3>2
  <2>6. a < b
    BY <2>1
  <2>7. a + 1 <= b
    BY <2>6
  <2>8. Stream(r, f, a + 1, b)
    BY <1>3, <2>4, <2>5, <2>7 DEF Stream, n
  <2> QED BY <2>1, <2>3, <2>6, <2>8
<1> QED BY <1>7, <1>8 DEF r, m

\* Requests in a line with one more message, and in one without its first.
LEMMA AsksLonger ==
  ASSUME NEW s \in Seq(Messages), NEW m \in Messages, NEW f, AsksFor(s, f),
         m.type = "FILE_REQUEST" => m.file = f
  PROVE  AsksFor(Append(s, m), f)
<1>1. \A i \in 1..Len(Append(s, m)) :
          (i \in 1..Len(s) /\ Append(s, m)[i] = s[i]) \/ Append(s, m)[i] = m
  OBVIOUS
<1> QED BY <1>1 DEF AsksFor

LEMMA AsksShorter ==
  ASSUME NEW s \in Seq(Messages), s # <<>>, NEW f, AsksFor(s, f)
  PROVE  /\ AsksFor(Tail(s), f)
         /\ Head(s).type = "FILE_REQUEST" => Head(s).file = f
<1>1. /\ \A i \in 1..Len(Tail(s)) : i + 1 \in 1..Len(s) /\ Tail(s)[i] = s[i + 1]
      /\ 1 \in 1..Len(s) /\ Head(s) = s[1]
  OBVIOUS
<1> QED BY <1>1 DEF AsksFor

\* A line without a request.
LEMMA AsksNone ==
  ASSUME NEW s, ~Has(s, "FILE_REQUEST"), NEW f PROVE AsksFor(s, f)
BY DEF AsksFor, Has

LEMMA SteadyLonger ==
  ASSUME NEW s \in Seq(Messages), NEW m \in Messages, Aside(m)
  PROVE  Steady(s, Append(s, m))
<1>1. Has(Append(s, m), "FILE_REQUEST") => Has(s, "FILE_REQUEST")
  BY LongerLine DEF Aside
<1>2. \A f : AsksFor(s, f) => AsksFor(Append(s, m), f)
  BY AsksLonger DEF Aside
<1>3. \A f : \A a, b \in Nat : Stream(s, f, a, b) => Stream(Append(s, m), f, a, b)
  BY StreamLonger DEF Aside
<1> QED BY <1>1, <1>2, <1>3 DEF Steady

LEMMA SteadyPush ==
  ASSUME NEW s \in Seq(Messages), NEW m \in Messages, Aside(m)
  PROVE  Steady(s, Push(s, m)) /\ Push(s, m) \in Seq(Messages)
BY SteadyLonger, SteadyItself DEF Push

LEMMA SteadyShorter ==
  ASSUME NEW s \in Seq(Messages), s # <<>>, Head(s).type # "FILE_DATA"
  PROVE  Steady(s, Tail(s))
<1>1. Has(Tail(s), "FILE_REQUEST") => Has(s, "FILE_REQUEST")
  BY ShorterLine
<1>2. \A f : AsksFor(s, f) => AsksFor(Tail(s), f)
  BY AsksShorter
<1>3. \A f : \A a, b \in Nat : Stream(s, f, a, b) => Stream(Tail(s), f, a, b)
  BY StreamShorter
<1> QED BY <1>1, <1>2, <1>3 DEF Steady

-----------------------------------------------------------------------------
(* Steps that do nothing to the file.                                      *)

\* The step brings e and its session nothing of the file.
NotInvolved(e) ==
  /\ Served(e)' => Served(e) /\ Steady(Outgoing(e), Outgoing(e)')
  /\ Current(e)' => Current(e) /\ Steady(ToCome(e), ToCome(e)')
  /\ transfer'[e] = transfer[e] /\ disk'[e] = disk[e]
  /\ Owner(e) \/ fileTransferStatus'[e] = fileTransferStatus[e]
  /\ pc'[e] = "requesting" => pc[e] = "requesting" /\ hand'[e] = hand[e]
  /\ Current(e)' /\ task'[e] = "asking" => task[e] = "asking" /\ request'[e] = request[e]
  /\ \A i \in 1..Len(chatHistory'[e]) : chatHistory'[e][i].kind = "received" =>
        \E j \in 1..Len(chatHistory[e]) : chatHistory[e][j] = chatHistory'[e][i]

\* Then what is said of it alone still holds ...
LEMMA UndisturbedOwn ==
  ASSUME UNCHANGED requested, NEW e \in Clients, NotInvolved(e),
         HasWhole(e), RestFits(e), RowsWhole(e)
  PROVE  HasWhole(e)' /\ RestFits(e)' /\ RowsWhole(e)'
<1>1. HasWhole(e)' /\ RestFits(e)'
  BY DEF NotInvolved, HasWhole, RestFits, Owner
<1>2. RowsWhole(e)'
  BY DEF NotInvolved, RowsWhole
<1> QED BY <1>1, <1>2

\* ... and what is said of it as a sender, and as one of the others.
LEMMA UndisturbedFile ==
  ASSUME NEW e \in Clients, NotInvolved(e), NEW f
  PROVE  /\ RequestIs(e, f) => RequestIs(e, f)'
         /\ SourceFits(e, f) => SourceFits(e, f)'
         /\ \A n \in Nat : Sends(e, f, n) => Sends(e, f, n)'
         /\ ~Owner(e) /\ ReceiverFits(e, f) => ReceiverFits(e, f)'
<1>1. RequestIs(e, f) => RequestIs(e, f)'
  BY DEF NotInvolved, RequestIs, Steady
<1>2. SourceFits(e, f) => SourceFits(e, f)'
  BY DEF NotInvolved, SourceFits
<1>3. \A n \in Nat : Sends(e, f, n) => Sends(e, f, n)'
  BY DEF NotInvolved, Sends, Steady
<1>4. (Asked(e)' /\ Current(e)) => Asked(e)
  BY DEF NotInvolved, Asked, Steady
<1>5. ~Owner(e) /\ ReceiverFits(e, f) => ReceiverFits(e, f)'
  BY <1>4 DEF NotInvolved, ReceiverFits, Receives, Count
<1> QED BY <1>1, <1>2, <1>3, <1>5

\* What was on its way to one of the others still is, if it is from the sender.
LEMMA UndisturbedPipe ==
  ASSUME NEW c \in Clients, NEW d \in Clients, NotInvolved(d), ~Owner(d), NEW f,
         Pipe(c, d, f), MessengerInv,
         \A n \in Nat : Sends(c, f, n) => Sends(c, f, n)'
  PROVE  Pipe(c, d, f)'
<1> SUFFICES ASSUME Receives(d)', fileTransferStatus'[d] = "AcceptFileTransfer"
             PROVE  \E n \in Nat : Stream(ToCome(d), f, Count(d), n)' /\ Sends(c, f, n)'
  BY DEF Pipe
<1>1. /\ Receives(d) /\ fileTransferStatus[d] = "AcceptFileTransfer"
      /\ transfer'[d] = transfer[d] /\ Steady(ToCome(d), ToCome(d)')
  BY DEF NotInvolved, Receives
<1>2. Count(d)' = Count(d) /\ Count(d) \in Nat
  <2>1. transfer[d].handle.pos \in Nat
    BY DEF MessengerInv, ClientTypeOK, Transfers, Handles
  <2> QED BY <1>1, <2>1 DEF Count
<1>3. PICK n \in Nat : Stream(ToCome(d), f, Count(d), n) /\ Sends(c, f, n)
  BY <1>1 DEF Pipe
<1>4. Stream(ToCome(d)', f, Count(d), n)
  BY <1>1, <1>2, <1>3 DEF Steady
<1>5. Stream(ToCome(d), f, Count(d), n)'
  BY <1>2, <1>4 DEF Stream, BlockOf
<1> QED BY <1>3, <1>5

\* A step that concerns one client, or its session.
LEMMA OneDisturbed ==
  ASSUME MessengerInv, RequestInv, FileInv, UNCHANGED requested, NEW x \in Clients,
         \A e \in Clients \ {x} : NotInvolved(e),
         HasWhole(x)', RestFits(x)', RowsWhole(x)',
         \A c \in Clients, f \in Files : <<c, f>> \in requested =>
            /\ RequestIs(x, f)'
            /\ x = c => SourceFits(c, f)' /\ \A n \in Nat : Sends(c, f, n) => Sends(c, f, n)'
            /\ x # c => ReceiverFits(x, f)'
            /\ x # c /\ (\A n \in Nat : Sends(c, f, n) => Sends(c, f, n)') => Pipe(c, x, f)'
  PROVE  FileInv'
<1>1. OneRequested'
  BY DEF FileInv, OneRequested
<1>2. \A e \in Clients : HasWhole(e)' /\ RestFits(e)' /\ RowsWhole(e)'
  BY UndisturbedOwn DEF FileInv
<1>3. ASSUME NEW c \in Clients, NEW f \in Files, <<c, f>> \in requested
      PROVE  /\ SourceFits(c, f)'
             /\ \A d \in Clients : RequestIs(d, f)'
             /\ \A d \in Clients \ {c} : ReceiverFits(d, f)' /\ Pipe(c, d, f)'
  <2>1. \A d \in Clients \ {c} : ~Owner(d)
    BY <1>3 DEF Owner, RequestInv
  <2>2. \A d \in Clients : RequestIs(d, f)'
    BY <1>3, UndisturbedFile DEF FileInv
  <2>3. SourceFits(c, f)' /\ \A n \in Nat : Sends(c, f, n) => Sends(c, f, n)'
    <3>1. CASE c = x
      BY <1>3, <3>1
    <3>2. CASE c # x
      BY <1>3, <3>2, UndisturbedFile DEF FileInv
    <3> QED BY <3>1, <3>2
  <2>4. ASSUME NEW d \in Clients \ {c} PROVE ReceiverFits(d, f)' /\ Pipe(c, d, f)'
    <3>1. CASE d = x
      BY <1>3, <2>3, <3>1
    <3>2. CASE d # x
      BY <1>3, <2>1, <2>3, <3>2, UndisturbedFile, UndisturbedPipe DEF FileInv
    <3> QED BY <3>1, <3>2
  <2> QED BY <2>2, <2>3, <2>4
<1> QED BY <1>1, <1>2, <1>3 DEF FileInv

\* One that concerns nobody.
LEMMA NoneDisturbed ==
  ASSUME MessengerInv, RequestInv, FileInv, UNCHANGED requested,
         \A e \in Clients : NotInvolved(e)
  PROVE  FileInv'
<1>1. OneRequested'
  BY DEF FileInv, OneRequested
<1>2. \A e \in Clients : HasWhole(e)' /\ RestFits(e)' /\ RowsWhole(e)'
  BY UndisturbedOwn DEF FileInv
<1>3. ASSUME NEW c \in Clients, NEW f \in Files, <<c, f>> \in requested
      PROVE  /\ SourceFits(c, f)'
             /\ \A d \in Clients : RequestIs(d, f)'
             /\ \A d \in Clients \ {c} : ReceiverFits(d, f)' /\ Pipe(c, d, f)'
  <2>1. \A d \in Clients \ {c} : ~Owner(d)
    BY <1>3 DEF Owner, RequestInv
  <2> QED BY <1>3, <2>1, UndisturbedFile, UndisturbedPipe DEF FileInv
<1> QED BY <1>1, <1>2, <1>3 DEF FileInv

\* What a session may be told aside from requests and blocks.
LEMMA AsideMessages ==
  /\ Bye \in Messages /\ Aside(Bye)
  /\ \A name \in Names : Nickname(name) \in Messages /\ Aside(Nickname(name))
  /\ \A sender \in Names, text \in Texts :
        Chat(sender, text) \in Messages /\ Aside(Chat(sender, text))
  /\ \A code \in StatusCodes : Status(code) \in Messages /\ Aside(Status(code))
BY MessageTypes DEF Aside, Bye, Nickname, Chat, Status

\* A session is told nothing, or something aside.
TellsAside(e) ==
  \/ sendingQueue'[e] = sendingQueue[e]
  \/ \E m \in Messages : Aside(m) /\ sendingQueue'[e] = Push(sendingQueue[e], m)
  \/ \E m, n \in Messages : /\ Aside(m) /\ Aside(n)
                            /\ sendingQueue'[e] = Push(Push(sendingQueue[e], m), n)

\* Behind what is in the connection, a message aside stays aside.
LEMMA SteadyBehind ==
  ASSUME NEW s \in Seq(Messages), NEW q \in Seq(Messages), NEW m \in Messages, Aside(m)
  PROVE  Steady(s \o q, s \o Push(q, m))
<1>1. s \o q \in Seq(Messages) /\ s \o Append(q, m) = Append(s \o q, m)
  BY LinePushed
<1> DEFINE r == s \o q
<1>2. Steady(r, Append(r, m))
  BY <1>1, SteadyLonger
<1> QED BY <1>1, <1>2, SteadyItself DEF Push

LEMMA ToldSteady ==
  ASSUME MessengerInv, UNCHANGED toClient, NEW e \in Clients, TellsAside(e)
  PROVE  Steady(ToCome(e), ToCome(e)')
<1>1. toClient[e] \in Seq(Messages) /\ sendingQueue[e] \in Seq(Messages)
  BY LinesType
<1>2. CASE sendingQueue'[e] = sendingQueue[e]
  BY <1>2, SteadyItself DEF ToCome
<1>3. ASSUME NEW m \in Messages, Aside(m), sendingQueue'[e] = Push(sendingQueue[e], m)
      PROVE  Steady(ToCome(e), ToCome(e)')
  BY <1>1, <1>3, SteadyBehind DEF ToCome
<1>4. ASSUME NEW m \in Messages, NEW n \in Messages, Aside(m), Aside(n),
             sendingQueue'[e] = Push(Push(sendingQueue[e], m), n)
      PROVE  Steady(ToCome(e), ToCome(e)')
  <2> DEFINE q == Push(sendingQueue[e], m)
  <2>1. q \in Seq(Messages) /\ Steady(ToCome(e), toClient[e] \o q)
    BY <1>1, <1>4, SteadyPush, SteadyBehind DEF ToCome
  <2> HIDE DEF q
  <2>2. Steady(toClient[e] \o q, toClient[e] \o Push(q, n))
    BY <1>1, <1>4, <2>1, SteadyBehind
  <2>3. ToCome(e)' = toClient[e] \o Push(q, n)
    BY <1>4 DEF ToCome, q
  <2> QED BY <2>1, <2>2, <2>3, SteadyTwice
<1> QED BY <1>2, <1>3, <1>4 DEF TellsAside

\* What a handler leaves to the other clients ...
LEMMA HandlersDisturb ==
  ASSUME SystemInv, UNCHANGED clientVars, NEW c \in Clients, HandlerStep(c),
         NEW e \in Clients, TellsAside(e)
  PROVE  /\ e # c => NotInvolved(e)
         /\ ( /\ \/ UNCHANGED toServer
                 \/ \E type : type # "FILE_DATA" /\ Reads(c, type)
              /\ Owner(c) \/ fileTransferStatus'[c] = fileTransferStatus[c]
              /\ pc'[c] = "requesting" => pc[c] = "requesting" /\ hand'[c] = hand[c] )
            => NotInvolved(c) \/ e # c
<1>0. MessengerInv /\ UNCHANGED <<toClient, transfer, disk, chatHistory, task, request>>
  BY HandlersLeaveClients DEF SystemInv, clientVars
<1>1. Served(e)' = Served(e) /\ Current(e)' = Current(e) /\ Steady(ToCome(e), ToCome(e)')
  BY <1>0, HandlersOwn, ToldSteady
<1>2. ASSUME e # c PROVE NotInvolved(e)
  <2>1. /\ Outgoing(e)' = Outgoing(e) /\ pc'[e] = pc[e] /\ hand'[e] = hand[e]
        /\ fileTransferStatus'[e] = fileTransferStatus[e]
    BY <1>2, HandlersOwn
  <2> QED BY <1>0, <1>1, <2>1, SteadyItself DEF NotInvolved
<1>3. ASSUME e = c, Owner(c) \/ fileTransferStatus'[c] = fileTransferStatus[c],
             pc'[c] = "requesting" => pc[c] = "requesting" /\ hand'[c] = hand[c],
             \/ UNCHANGED toServer
             \/ \E type : type # "FILE_DATA" /\ Reads(c, type)
      PROVE  NotInvolved(c)
  <2>1. Steady(Outgoing(c), Outgoing(c)')
    <3>1. CASE UNCHANGED toServer
      <4>1. Outgoing(c)' = Outgoing(c)
        BY <3>1 DEF Outgoing, clientVars
      <4> QED BY <4>1, SteadyItself
    <3>2. ASSUME NEW type, type # "FILE_DATA", Reads(c, type)
          PROVE  Steady(Outgoing(c), Outgoing(c)')
      <4>1. /\ Outgoing(c) # <<>> /\ Head(Outgoing(c)).type = type
            /\ Outgoing(c)' = Tail(Outgoing(c)) /\ Outgoing(c) \in Seq(Messages)
        BY <1>0, <3>2, ReadsLines, LinesType
      <4> QED BY <3>2, <4>1, SteadyShorter
    <3> QED BY <1>3, <3>1, <3>2
  <2> QED BY <1>0, <1>1, <1>3, <2>1 DEF NotInvolved
<1> QED BY <1>2, <1>3

\* ... and to its own.
LEMMA AsideHandler ==
  ASSUME SystemInv, TransferInv, FileInv, UNCHANGED <<clientVars, requested>>,
         NEW c \in Clients, HandlerStep(c), \A e \in Clients : TellsAside(e),
         Owner(c) \/ fileTransferStatus'[c] = fileTransferStatus[c],
         pc'[c] = "requesting" => pc[c] = "requesting" /\ hand'[c] = hand[c],
         \/ UNCHANGED toServer
         \/ \E type : type # "FILE_DATA" /\ Reads(c, type)
  PROVE  FileInv'
<1>1. MessengerInv /\ RequestInv
  BY DEF SystemInv, TransferInv
<1>2. \A e \in Clients : NotInvolved(e)
  BY HandlersDisturb
<1> QED BY <1>1, <1>2, NoneDisturbed

\* What checkSessionStateChange() leaves in the queue, and the answer.
LEMMA CheckedAside ==
  ASSUME SystemInv, NEW c \in Clients, NEW type,
         \/ sendingQueue' = [sendingQueue EXCEPT ![c] = Checked(c, type)]
         \/ \E m \in Messages :
              Aside(m) /\ sendingQueue' = [sendingQueue EXCEPT ![c] = Push(Checked(c, type), m)]
  PROVE  \A e \in Clients : TellsAside(e)
<1>0. sendingQueue \in [Clients -> Seq(Messages)]
  BY DEF SystemInv, MessengerInv, TypeInv, TypeOK
<1>1. Checked(c, type) = sendingQueue[c] \/ Checked(c, type) = Push(sendingQueue[c], Bye)
  BY DEF Checked
<1>2. TellsAside(c)
  BY <1>0, <1>1, AsideMessages DEF TellsAside
<1> QED BY <1>0, <1>2 DEF TellsAside

\* A reply aside, or a message aside to others.
LEMMA RepliesAside ==
  ASSUME SystemInv, NEW m \in Messages, Aside(m),
         \/ UNCHANGED sendingQueue
         \/ \E p \in Clients : sendingQueue' = Reply(p, m)
         \/ \E to : sendingQueue' = Sent(to, m)
  PROVE  \A e \in Clients : TellsAside(e)
<1>0. sendingQueue \in [Clients -> Seq(Messages)]
  BY DEF SystemInv, MessengerInv, TypeInv, TypeOK
<1>1. ASSUME NEW p \in Clients, sendingQueue' = Reply(p, m)
      PROVE  \A e \in Clients : TellsAside(e)
  BY <1>0, <1>1 DEF Reply, TellsAside
<1>2. ASSUME NEW to, sendingQueue' = Sent(to, m)
      PROVE  \A e \in Clients : TellsAside(e)
  BY <1>2 DEF Sent, TellsAside
<1>3. CASE UNCHANGED sendingQueue
  BY <1>3 DEF TellsAside
<1> QED BY <1>1, <1>2, <1>3

\* The handlers that have nothing to do with the file.
LEMMA HandlersAside ==
  ASSUME SystemInv, TransferInv, FileInv, UNCHANGED <<clientVars, requested>>,
         NEW c \in Clients,
         \/ ReceiveHello(c) \/ ReceiveBye(c) \/ ReceiveNickname(c) \/ Rename(c)
         \/ ReceiveChat(c) \/ ReceiveStatus(c) \/ ScanAnswers(c) \/ FlagSender(c)
         \/ AcceptOwnTransfer(c) \/ ResetStatus(c)
  PROVE  FileInv'
<1>0. /\ sendingQueue \in [Clients -> Seq(Messages)] /\ nickName \in [Clients -> Names]
      /\ pc \in [Clients -> Steps] /\ HandsFit /\ TypeOK /\ HandlerStep(c)
      /\ fileTransferStatus \in [Clients -> StatusCodes] /\ RequestFits(c)
  BY DEF SystemInv, MessengerInv, TypeInv, TypeOK, HandlerStep, TransferInv, RequestInv
<1>1. CASE ReceiveHello(c)
  <2>1. /\ TransferIdle /\ UNCHANGED <<pc, hand>> /\ Reads(c, "HELLO")
        /\ sendingQueue' =
             [sendingQueue EXCEPT ![c] = Push(Checked(c, "HELLO"), Nickname(nickName[c]))]
    BY <1>1 DEF ReceiveHello
  <2>2. \A e \in Clients : TellsAside(e)
    BY <1>0, <2>1, CheckedAside, AsideMessages
  <2> QED BY <1>0, <2>1, <2>2, AsideHandler DEF TransferIdle
<1>2. CASE ReceiveBye(c)
  <2>1. /\ TransferIdle /\ UNCHANGED <<pc, hand>> /\ Reads(c, "BYE")
        /\ sendingQueue' = [sendingQueue EXCEPT ![c] = Checked(c, "BYE")]
    BY <1>2 DEF ReceiveBye
  <2>2. \A e \in Clients : TellsAside(e)
    BY <1>0, <2>1, CheckedAside
  <2> QED BY <1>0, <2>1, <2>2, AsideHandler DEF TransferIdle
<1>3. CASE ReceiveNickname(c)
  <2>1. /\ TransferIdle /\ Reads(c, "NICKNAME")
        /\ pc'[c] = "renaming" \/ UNCHANGED <<pc, hand>>
        /\ \/ sendingQueue' = [sendingQueue EXCEPT ![c] = Checked(c, "NICKNAME")]
           \/ sendingQueue' = [sendingQueue EXCEPT ![c] =
                                 Push(Checked(c, "NICKNAME"), Status("NickNameAlreadyRegistered"))]
    BY <1>0, <1>3 DEF ReceiveNickname, GoesOn
  <2>2. "NickNameAlreadyRegistered" \in StatusCodes
    BY DEF StatusCodes
  <2>3. \A e \in Clients : TellsAside(e)
    BY <1>0, <2>1, <2>2, CheckedAside, AsideMessages
  <2> QED BY <1>0, <2>1, <2>3, AsideHandler DEF TransferIdle
<1>4. CASE Rename(c)
  <2>1. /\ TransferIdle /\ UNCHANGED toServer /\ pc'[c] = "poll" /\ hand[c].name \in Names
        /\ sendingQueue' = Reply(c, Nickname(hand[c].name))
    BY <1>0, <1>4, MessageFields DEF Rename, Finishes, GoesOn, HandsFit
  <2>2. \A e \in Clients : TellsAside(e)
    BY <1>0, <2>1, RepliesAside, AsideMessages
  <2> QED BY <1>0, <2>1, <2>2, AsideHandler DEF TransferIdle
<1>5. CASE ReceiveChat(c)
  <2>1. /\ TransferIdle /\ UNCHANGED <<pc, hand>> /\ Reads(c, "CHAT")
        /\ \/ sendingQueue' = Reply(c, Status("ChattingAlone"))
           \/ sendingQueue' = Sent(Peers(c), Chat(nickName[c], Incoming(c).text))
    BY <1>5 DEF ReceiveChat
  <2>2. Incoming(c).text \in Texts /\ "ChattingAlone" \in StatusCodes
    BY <1>0, <2>1, ReadsType, MessageFields DEF StatusCodes
  <2>3. \A e \in Clients : TellsAside(e)
    BY <1>0, <2>1, <2>2, RepliesAside, AsideMessages
  <2> QED BY <1>0, <2>1, <2>3, AsideHandler DEF TransferIdle
<1>6. CASE ReceiveStatus(c)
  <2>1. /\ TransferIdle /\ Reads(c, "STATUS")
        /\ pc'[c] = "answering" \/ UNCHANGED <<pc, hand>>
        /\ UNCHANGED sendingQueue \/ sendingQueue' = Reply(c, Status("FileTransferCanceled"))
    BY <1>0, <1>6 DEF ReceiveStatus, GoesOn
  <2>2. "FileTransferCanceled" \in StatusCodes
    BY DEF StatusCodes
  <2>3. \A e \in Clients : TellsAside(e)
    BY <1>0, <2>1, <2>2, RepliesAside, AsideMessages
  <2> QED BY <1>0, <2>1, <2>3, AsideHandler DEF TransferIdle
<1>7. CASE ScanAnswers(c)
  <2>1. /\ TransferIdle /\ UNCHANGED toServer /\ pc'[c] = "poll"
        /\ \/ UNCHANGED sendingQueue
           \/ \E p \in Clients : sendingQueue' = Reply(p, Verdict(c))
    BY <1>0, <1>7 DEF ScanAnswers, Finishes, GoesOn
  <2>2. Verdict(c) \in Messages /\ Aside(Verdict(c))
    BY AsideMessages DEF Verdict, StatusCodes
  <2>3. \A e \in Clients : TellsAside(e)
    BY <1>0, <2>1, <2>2, RepliesAside
  <2> QED BY <1>0, <2>1, <2>3, AsideHandler DEF TransferIdle
<1>8. CASE FlagSender(c) \/ AcceptOwnTransfer(c) \/ ResetStatus(c)
  <2>1. /\ UNCHANGED <<toServer, sendingQueue>> /\ Owner(c)
        /\ pc'[c] # "requesting"
    BY <1>0, <1>8 DEF FlagSender, AcceptOwnTransfer, ResetStatus, Finishes, GoesOn, RequestFits
  <2>2. \A e \in Clients : TellsAside(e)
    BY <2>1 DEF TellsAside
  <2> QED BY <1>0, <2>1, <2>2, AsideHandler
<1> QED BY <1>1, <1>2, <1>3, <1>4, <1>5, <1>6, <1>7, <1>8

\* The other steps of the server move no message from its place in the lines.
LEMMA QuietServerFile ==
  ASSUME MessengerInv, TransferInv, FileInv,
         UNCHANGED <<clientVars, requested, toServer, fileTransferStatus, hand>>,
         \A e \in Clients :
            /\ Served(e)' => Served(e)
            /\ ~Current(e) \/ ToCome(e)' = ToCome(e)
            /\ pc'[e] = pc[e] \/ pc'[e] \in {"poll", "none"}
  PROVE  FileInv'
<1>0. RequestInv
  BY DEF TransferInv
<1> SUFFICES ASSUME NEW e \in Clients PROVE NotInvolved(e)
  BY <1>0, NoneDisturbed
<1>1. /\ UNCHANGED <<transfer, disk, chatHistory, task, request>>
      /\ Current(e)' = Current(e) /\ Outgoing(e)' = Outgoing(e)
  BY DEF clientVars, Current, Outgoing
<1> QED BY <1>1, SteadyItself DEF NotInvolved

LEMMA ServerAside ==
  ASSUME SystemInv, LoginInv, TransferInv, FileInv, UNCHANGED <<clientVars, requested>>,
         NEW c \in Clients,
         \/ Register \/ Accept(c) \/ Write(c) \/ WriteInVain(c)
         \/ ReceiveUnknown(c) \/ WriteAfterReset(c) \/ Hangup(c)
  PROVE  FileInv'
<1>0. /\ MessengerInv /\ TypeOK /\ serverEnd \in [Clients -> Ends]
      /\ sendingQueue \in [Clients -> Seq(Messages)] /\ toClient \in [Clients -> Seq(Messages)]
      /\ pc \in [Clients -> Steps]
  BY DEF SystemInv, MessengerInv, TypeInv, TypeOK, NetworkTypeOK
<1>1. CASE Accept(c)
  <2>1. /\ serverEnd[c] = "idle" /\ serverEnd' = [serverEnd EXCEPT ![c] = "open"]
        /\ pc' = [pc EXCEPT ![c] = "poll"]
        /\ UNCHANGED <<toServer, toClient, sendingQueue, fileTransferStatus, hand>>
    BY <1>1 DEF Accept
  <2>2. \A e \in Clients : Served(e)' => Served(e)
    BY <1>0, <2>1 DEF Served, Gone
  <2> QED BY <1>0, <2>1, <2>2, QuietServerFile DEF ToCome
<1>2. CASE Write(c)
  <2>1. /\ sendingQueue[c] # <<>>
        /\ toClient' = [toClient EXCEPT ![c] = Append(@, Head(sendingQueue[c]))]
        /\ sendingQueue' = [sendingQueue EXCEPT ![c] = Tail(@)]
        /\ UNCHANGED <<toServer, serverEnd, fileTransferStatus, pc, hand>>
    BY <1>2 DEF Write, TransferIdle
  <2>2. ToCome(c)' = ToCome(c)
    <3>1. /\ toClient'[c] = Append(toClient[c], Head(sendingQueue[c]))
          /\ sendingQueue'[c] = Tail(sendingQueue[c])
      BY <1>0, <2>1
    <3> QED BY <1>0, <2>1, <3>1, LinesType, LineMoved DEF ToCome
  <2>3. \A e \in Clients : ToCome(e)' = ToCome(e)
    BY <1>0, <2>1, <2>2 DEF ToCome
  <2> QED BY <1>0, <2>1, <2>3, QuietServerFile DEF Served
<1>3. CASE WriteInVain(c)
  <2>1. /\ clientEnd[c] = "closed" /\ sendingQueue' = [sendingQueue EXCEPT ![c] = Tail(@)]
        /\ UNCHANGED <<toServer, toClient, serverEnd, fileTransferStatus, pc, hand>>
    BY <1>3 DEF WriteInVain, TransferIdle
  <2>2. ~Current(c)
    BY <1>0, <2>1 DEF MessengerInv, EndsFit, Current, ClientRuns
  <2>3. \A e \in Clients : ~Current(e) \/ ToCome(e)' = ToCome(e)
    BY <1>0, <2>1, <2>2 DEF ToCome
  <2> QED BY <1>0, <2>1, <2>3, QuietServerFile DEF Served
<1>4. CASE \/ ReceiveUnknown(c) \/ WriteAfterReset(c)
           \/ c \notin sessions /\ Hangup(c)
  <2>1. /\ \E cause : Dies(cause)
        /\ UNCHANGED <<toServer, toClient, sendingQueue, fileTransferStatus, pc, hand>>
    BY <1>4 DEF ReceiveUnknown, WriteAfterReset, Hangup, RemoveSession, sessionVars
  <2>2. \A e \in Clients : Served(e)' => Served(e)
    BY <1>0, <2>1, DeathServes
  <2>3. \A e \in Clients : ToCome(e)' = ToCome(e)
    BY <2>1 DEF ToCome
  <2> QED BY <1>0, <2>1, <2>2, <2>3, QuietServerFile
<1>5. CASE c \in sessions /\ Hangup(c)
  <2>1. /\ UNCHANGED <<toServer, toClient, fileTransferStatus, hand>> /\ clientEnd[c] \in Gone
        /\ serverEnd' = [serverEnd EXCEPT ![c] = AfterClose(toServer[c])]
        /\ pc' = [pc EXCEPT ![c] = "none"]
        /\ sendingQueue' = [sendingQueue EXCEPT ![c] = <<>>]
    BY <1>5 DEF Hangup, RemoveSession
  <2>2. ~Current(c)
    BY <1>0, <2>1 DEF MessengerInv, EndsFit, Current, ClientRuns, Gone
  <2>3. \A e \in Clients : ~Current(e) \/ ToCome(e)' = ToCome(e)
    BY <1>0, <2>1, <2>2 DEF ToCome
  <2>4. \A e \in Clients : Served(e)' => Served(e)
    BY <1>0, <2>1 DEF Served, AfterClose, Gone
  <2> QED BY <1>0, <2>1, <2>3, <2>4, QuietServerFile
<1>6. CASE Register
  <2>1. UNCHANGED <<toServer, toClient, serverEnd, sendingQueue, fileTransferStatus, pc, hand>>
    BY <1>6 DEF Register, networkVars, sessionVars
  <2> QED BY <1>0, <2>1, QuietServerFile DEF Served, ToCome
<1> QED BY <1>1, <1>2, <1>3, <1>4, <1>5, <1>6

\* The steps of the clients that have nothing to do with the file.
LEMMA QuietClientFile ==
  ASSUME MessengerInv, TransferInv, FileInv,
         UNCHANGED <<serverVars, requested, transfer, disk, request>>,
         \A e \in Clients :
            /\ Served(e)' => Served(e) /\ Steady(Outgoing(e), Outgoing(e)')
            /\ Current(e)' => Current(e)
            /\ Steady(ToCome(e), ToCome(e)')
            /\ task'[e] = "asking" => task[e] = "asking"
            /\ \A i \in 1..Len(chatHistory'[e]) : chatHistory'[e][i].kind = "received" =>
                  \E j \in 1..Len(chatHistory[e]) : chatHistory[e][j] = chatHistory'[e][i]
  PROVE  FileInv'
<1>1. UNCHANGED <<fileTransferStatus, pc, hand>> /\ RequestInv
  BY DEF serverVars, sessionVars, TransferInv
<1>2. \A e \in Clients : NotInvolved(e)
  BY <1>1 DEF NotInvolved
<1> QED BY <1>1, <1>2, NoneDisturbed

\* Reading something aside.
LEMMA ReadingAside ==
  ASSUME MessengerInv, TransferInv, FileInv,
         UNCHANGED <<serverVars, requested, transfer, disk, request, clientQueue>>,
         NEW c \in Clients, NEW type, type # "FILE_DATA", Takes(c, type),
         \A e \in Clients : Current(e)' => Current(e),
         \A e \in Clients : task'[e] = "asking" => task[e] = "asking",
         \/ UNCHANGED chatHistory
         \/ \E row : row.kind # "received" /\ NewRow(c, row)
  PROVE  FileInv'
<1>1. /\ ToCome(c) # <<>> /\ ToCome(c)' = Tail(ToCome(c)) /\ Head(ToCome(c)).type = type
      /\ \A e \in Clients \ {c} : ToCome(e)' = ToCome(e)
      /\ \A e \in Clients : Outgoing(e)' = Outgoing(e) /\ serverEnd'[e] = serverEnd[e]
      /\ ToCome(c) \in Seq(Messages)
  BY TakesLines, LinesType
<1>2. \A e \in Clients : Steady(ToCome(e), ToCome(e)')
  BY <1>1, SteadyShorter, SteadyItself
<1>3. ASSUME NEW e \in Clients, NEW i \in 1..Len(chatHistory'[e]),
             chatHistory'[e][i].kind = "received"
      PROVE  \E j \in 1..Len(chatHistory[e]) : chatHistory[e][j] = chatHistory'[e][i]
  <2>1. CASE chatHistory'[e] = chatHistory[e]
    BY <1>3, <2>1
  <2>2. ASSUME NEW row, row.kind # "received", chatHistory'[e] = Append(chatHistory[e], row)
        PROVE  \E j \in 1..Len(chatHistory[e]) : chatHistory[e][j] = chatHistory'[e][i]
    <3>1. chatHistory[e] \in Seq(Rows)
      BY DEF MessengerInv, ClientTypeOK
    <3> DEFINE s == chatHistory[e]
               r == Append(s, row)
    <3>2. /\ \A k \in 1..Len(r) : (k \in 1..Len(s) /\ r[k] = s[k]) \/ r[k] = row
          /\ chatHistory'[e] = r /\ s \in Seq(Rows)
      BY <2>2, <3>1
    <3> HIDE DEF s, r
    <3>3. i \in 1..Len(r) /\ r[i].kind = "received" /\ r[i] # row
      BY <1>3, <2>2, <3>2
    <3> QED BY <3>2, <3>3 DEF s
  <2>3. \/ chatHistory'[e] = chatHistory[e]
        \/ \E row : row.kind # "received" /\ chatHistory'[e] = Append(chatHistory[e], row)
    <3>1. chatHistory \in [Clients -> Seq(Rows)]
      BY DEF MessengerInv, ClientTypeOK
    <3>2. ASSUME NEW row, row.kind # "received", NewRow(c, row)
          PROVE  \/ chatHistory'[e] = chatHistory[e]
                 \/ row.kind # "received" /\ chatHistory'[e] = Append(chatHistory[e], row)
      <4>1. chatHistory' = [chatHistory EXCEPT ![c] = Append(@, row)]
        BY <3>2 DEF NewRow
      <4> QED BY <3>1, <3>2, <4>1
    <3> QED BY <3>2
  <2> QED BY <2>1, <2>2, <2>3
<1> QED BY <1>1, <1>2, <1>3, SteadyItself, QuietClientFile DEF Served

\* Saying something aside.
LEMMA SayingAside ==
  ASSUME MessengerInv, TransferInv, FileInv, NEW c \in Clients, NEW m \in Messages, Queues(c, m),
         UNCHANGED <<serverVars, requested, transfer, disk, request, toServer, toClient, serverEnd,
                     task, chatHistory>>,
         Aside(m), \A e \in Clients : Current(e)' => Current(e)
  PROVE  FileInv'
<1>1. /\ Outgoing(c)' = Outgoing(c) \/ Outgoing(c)' = Append(Outgoing(c), m)
      /\ \A e \in Clients \ {c} : Outgoing(e)' = Outgoing(e)
      /\ \A e \in Clients : ToCome(e)' = ToCome(e) /\ serverEnd'[e] = serverEnd[e]
      /\ Outgoing(c) \in Seq(Messages)
  BY QueuesLines, LinesType
<1>2. \A e \in Clients : Steady(Outgoing(e), Outgoing(e)')
  BY <1>1, SteadyLonger, SteadyItself
<1> QED BY <1>1, <1>2, SteadyItself, QuietClientFile DEF Served

\* Doing neither.
LEMMA RestingAside ==
  ASSUME MessengerInv, TransferInv, FileInv,
         UNCHANGED <<serverVars, requested, transfer, disk, request, networkVars, clientQueue,
                     clientStatus, chatHistory>>,
         \A e \in Clients : task'[e] = "asking" => task[e] = "asking"
  PROVE  FileInv'
<1>1. \A e \in Clients : /\ Outgoing(e)' = Outgoing(e) /\ ToCome(e)' = ToCome(e)
                         /\ Served(e)' = Served(e) /\ Current(e)' = Current(e)
  BY DEF Outgoing, ToCome, Served, Current, networkVars, serverVars, sessionVars
<1> QED BY <1>1, SteadyItself, QuietClientFile

LEMMA ClientsAside ==
  ASSUME SystemInv, TransferInv, FileInv, UNCHANGED <<serverVars, requested>>, NEW c \in Clients,
         \/ ClientConnects(c) \/ TakesNickname(c) \/ TakesChat(c) \/ TakesBye(c)
         \/ ClientWrites(c) \/ ClientWritesInVain(c) \/ ClientEnds(c)
         \/ TypesText(c) \/ \E name \in TypedNames : TypesNickname(c, name)
         \/ OpensDialog(c) \/ ClosesDialog(c) \/ Quits(c)
  PROVE  FileInv'
<1>0. /\ MessengerInv /\ task \in [Clients -> {"poll", "asking", "read", "wrote"}]
      /\ clientStatus \in [Clients -> {"idle", "running", "ended", "fatal", "sigpipe"}]
      /\ typed \in [Clients -> 0..MaxTexts] /\ toClient \in [Clients -> Seq(Messages)]
  BY DEF SystemInv, MessengerInv, ClientTypeOK, NetworkTypeOK
<1>1. CASE TakesNickname(c) \/ TakesBye(c)
  <2>1. /\ Takes(c, "NICKNAME") \/ Takes(c, "BYE")
        /\ UNCHANGED <<transfer, disk, request, clientQueue, clientStatus, chatHistory>>
        /\ \E w \in {"read", "poll"} : task' = [task EXCEPT ![c] = w]
    BY <1>1 DEF TakesNickname, TakesBye, GoesTo
  <2> QED BY <1>0, <2>1, ReadingAside DEF Current
<1>2. CASE TakesChat(c)
  <2> DEFINE row == [kind |-> "chat", sender |-> Received(c).sender, text |-> Received(c).text]
  <2>1. /\ Takes(c, "CHAT") /\ NewRow(c, row)
        /\ UNCHANGED <<transfer, disk, request, clientQueue, clientStatus>>
        /\ \E w \in {"read", "poll"} : task' = [task EXCEPT ![c] = w]
    BY <1>2 DEF TakesChat, GoesTo
  <2>2. row.kind # "received"
    OBVIOUS
  <2> HIDE DEF row
  <2> QED BY <1>0, <2>1, <2>2, ReadingAside DEF Current
<1>3. CASE ClientWrites(c) \/ ClientWritesInVain(c) \/ ClientEnds(c)
  <2>1. /\ \A e \in Clients : Served(e)' => Served(e)
        /\ \A e \in Clients : Served(e)' => Outgoing(e)' = Outgoing(e)
        /\ \A e \in Clients : ToCome(e)' = ToCome(e)
        /\ \A e \in Clients : Current(e)' => Current(e)
    BY <1>0, <1>3, WritesLines
  <2>2. /\ UNCHANGED <<transfer, disk, request, chatHistory>>
        /\ \A e \in Clients : task'[e] = "asking" => task[e] = "asking"
    BY <1>0, <1>3 DEF ClientWrites, ClientWritesInVain, ClientEnds, GoesTo
  <2> QED BY <1>0, <2>1, <2>2, SteadyItself, QuietClientFile
<1>4. CASE ClientConnects(c)
  <2>1. /\ Queues(c, Hello) /\ clientStatus[c] = "idle"
        /\ clientStatus' = [clientStatus EXCEPT ![c] = "running"]
        /\ UNCHANGED <<transfer, disk, request, toServer, toClient, serverEnd, task, chatHistory>>
    BY <1>4 DEF ClientConnects
  <2>2. Hello \in Messages /\ Aside(Hello)
    BY ClientMessages DEF Hello, Aside
  <2>3. \A e \in Clients : Current(e)' => Current(e)
    BY <1>0, <2>1 DEF Current
  <2> QED BY <1>0, <2>1, <2>2, <2>3, SayingAside
<1>5. CASE TypesText(c)
  <2>1. /\ Queues(c, Chat(Anyone, <<c, typed[c] + 1>>)) /\ <<c, typed[c] + 1>> \in Texts
        /\ UNCHANGED <<transfer, disk, request, networkVars, task, clientStatus, chatHistory>>
    BY <1>0, <1>5, TextsAssumption DEF TypesText, Texts
  <2>2. \A text \in Texts : Chat(Anyone, text) \in Messages /\ Aside(Chat(Anyone, text))
    BY MessageTypes, ClientMessages DEF Chat, Aside
  <2> QED BY <1>0, <2>1, <2>2, SayingAside DEF Current, networkVars
<1>6. ASSUME NEW name \in TypedNames, TypesNickname(c, name) PROVE FileInv'
  <2>1. /\ Queues(c, Nickname(name))
        /\ UNCHANGED <<transfer, disk, request, networkVars, task, clientStatus, chatHistory>>
    BY <1>6 DEF TypesNickname
  <2>2. Nickname(name) \in Messages /\ Aside(Nickname(name))
    BY AsideMessages DEF Names
  <2> QED BY <1>0, <2>1, <2>2, SayingAside DEF Current, networkVars
<1>7. CASE Quits(c)
  <2>1. /\ Queues(c, Bye)
        /\ UNCHANGED <<transfer, disk, request, networkVars, task, clientStatus, chatHistory>>
    BY <1>7 DEF Quits
  <2> QED BY <1>0, <2>1, AsideMessages, SayingAside DEF Current, networkVars
<1>8. CASE OpensDialog(c) \/ ClosesDialog(c)
  <2>1. UNCHANGED <<transfer, disk, request, networkVars, clientQueue, clientStatus, task,
                  chatHistory>>
    BY <1>8 DEF OpensDialog, ClosesDialog
  <2> QED BY <1>0, <2>1, RestingAside
<1> QED BY <1>1, <1>2, <1>3, <1>4, <1>5, <1>6, <1>7, <1>8

-----------------------------------------------------------------------------
(* The request on its way.                                                 *)

\* The step brings e and its session no block.
BlocksKept(e) ==
  /\ Served(e)' => /\ Served(e)
                   /\ \A f : \A a, b \in Nat :
                         Stream(Outgoing(e), f, a, b) => Stream(Outgoing(e)', f, a, b)
  /\ Current(e)' => /\ Current(e)
                    /\ \A f : \A a, b \in Nat :
                          Stream(ToCome(e), f, a, b) => Stream(ToCome(e)', f, a, b)
  /\ transfer'[e] = transfer[e] /\ disk'[e] = disk[e]
  /\ Owner(e) \/ fileTransferStatus'[e] = fileTransferStatus[e]
  /\ Receives(e) /\ ~Asked(e) => ~Asked(e)'
  /\ \A i \in 1..Len(chatHistory'[e]) : chatHistory'[e][i].kind = "received" =>
        \E j \in 1..Len(chatHistory[e]) : chatHistory[e][j] = chatHistory'[e][i]

LEMMA NotInvolvedKeeps ==
  ASSUME NEW e \in Clients, NotInvolved(e) PROVE BlocksKept(e)
<1>1. (Asked(e)' /\ Current(e)) => Asked(e)
  BY DEF NotInvolved, Asked, Steady
<1> QED BY <1>1 DEF NotInvolved, BlocksKept, Steady, Receives

\* A step that brings nobody anything but a request for the file.
LEMMA AskingOnly ==
  ASSUME MessengerInv, RequestInv, FileInv, UNCHANGED requested,
         \A e \in Clients : BlocksKept(e),
         \A c \in Clients, f \in Files : <<c, f>> \in requested =>
            \A d \in Clients : RequestIs(d, f)'
  PROVE  FileInv'
<1>1. OneRequested'
  BY DEF FileInv, OneRequested
<1>2. ASSUME NEW e \in Clients PROVE HasWhole(e)' /\ RestFits(e)' /\ RowsWhole(e)'
  <2>1. HasWhole(e)' /\ RestFits(e)'
    BY DEF BlocksKept, HasWhole, RestFits, Owner, FileInv
  <2>2. RowsWhole(e)'
    BY DEF BlocksKept, RowsWhole, FileInv
  <2> QED BY <2>1, <2>2
<1>3. ASSUME NEW c \in Clients, NEW f \in Files, <<c, f>> \in requested
      PROVE  /\ SourceFits(c, f)'
             /\ \A d \in Clients : RequestIs(d, f)'
             /\ \A d \in Clients \ {c} : ReceiverFits(d, f)' /\ Pipe(c, d, f)'
  <2>1. SourceFits(c, f)'
    BY <1>3 DEF BlocksKept, SourceFits, FileInv
  <2>2. \A n \in Nat : Sends(c, f, n) => Sends(c, f, n)'
    BY DEF BlocksKept, Sends
  <2>3. ASSUME NEW d \in Clients \ {c} PROVE ReceiverFits(d, f)' /\ Pipe(c, d, f)'
    <3>1. /\ ~Owner(d) /\ BlocksKept(d) /\ ReceiverFits(d, f) /\ Pipe(c, d, f)
          /\ transfer'[d] = transfer[d] /\ fileTransferStatus'[d] = fileTransferStatus[d]
      BY <1>3 DEF Owner, RequestInv, BlocksKept, FileInv
    <3>2. (Receives(d)' => Receives(d)) /\ Count(d)' = Count(d) /\ Count(d) \in Nat
      <4>1. transfer[d].handle.pos \in Nat
        BY DEF MessengerInv, ClientTypeOK, Transfers, Handles
      <4> QED BY <3>1, <4>1 DEF Count, Receives, BlocksKept
    <3>3. ReceiverFits(d, f)'
      BY <3>1, <3>2 DEF BlocksKept, ReceiverFits
    <3>4. Pipe(c, d, f)'
      <4> SUFFICES ASSUME Receives(d)', fileTransferStatus'[d] = "AcceptFileTransfer"
                   PROVE  \E n \in Nat : Stream(ToCome(d), f, Count(d), n)' /\ Sends(c, f, n)'
        BY DEF Pipe
      <4>1. PICK n \in Nat : Stream(ToCome(d), f, Count(d), n) /\ Sends(c, f, n)
        BY <3>1, <3>2 DEF Pipe
      <4>2. Stream(ToCome(d)', f, Count(d), n)
        BY <3>1, <3>2, <4>1 DEF BlocksKept, Receives
      <4>3. Stream(ToCome(d), f, Count(d), n)'
        BY <3>2, <4>2 DEF Stream, BlockOf
      <4> QED BY <2>2, <4>1, <4>3
    <3> QED BY <3>3, <3>4
  <2> QED BY <1>3, <2>1, <2>3
<1> QED BY <1>1, <1>2, <1>3 DEF FileInv

\* FILE_REQUEST reaches the server.
LEMMA RequestReachesServer ==
  ASSUME SystemInv, TransferInv, FileInv, UNCHANGED <<clientVars, requested>>,
         NEW c \in Clients, ReceiveFileRequest(c)
  PROVE  FileInv'
<1>0. /\ MessengerInv /\ RequestInv /\ HandlerStep(c) /\ Reads(c, "FILE_REQUEST") /\ TransferIdle
      /\ pc \in [Clients -> Steps] /\ hand \in [Clients -> Messages \cup {NoMessage}]
  BY DEF SystemInv, MessengerInv, TypeInv, TypeOK, TransferInv, HandlerStep, ReceiveFileRequest
<1>1. \A e \in Clients : TellsAside(e)
  <2>1. "FileTransferCanceled" \in StatusCodes
    BY DEF StatusCodes
  <2>2. UNCHANGED sendingQueue \/ sendingQueue' = Reply(c, Status("FileTransferCanceled"))
    BY DEF ReceiveFileRequest
  <2> QED BY <2>1, <2>2, RepliesAside, AsideMessages
<1>2. CASE UNCHANGED <<pc, hand>>
  BY <1>0, <1>1, <1>2, AsideHandler DEF TransferIdle
<1>3. CASE GoesOn(c, "requesting", Incoming(c)) /\ UNCHANGED sendingQueue
  <2>1. \A e \in Clients \ {c} : NotInvolved(e)
    BY <1>0, <1>1, HandlersDisturb
  <2>2. /\ Outgoing(c) # <<>> /\ Head(Outgoing(c)) = Incoming(c)
      /\ Incoming(c).type = "FILE_REQUEST"
        /\ Outgoing(c)' = Tail(Outgoing(c)) /\ Outgoing(c) \in Seq(Messages)
        /\ Served(c) /\ hand'[c] = Incoming(c)
        /\ UNCHANGED <<toClient, transfer, disk, chatHistory, task, request, fileTransferStatus>>
        /\ Current(c)' = Current(c) /\ Served(c)' = Served(c)
    BY <1>0, <1>3, ReadsLines, LinesType, HandlersOwn, HandlersLeaveClients
       DEF GoesOn, clientVars, TransferIdle
  <2>3. ToCome(c)' = ToCome(c) /\ Steady(Outgoing(c), Outgoing(c)')
    BY <1>3, <2>2, SteadyShorter DEF ToCome
  <2>4. BlocksKept(c)
    BY <2>2, <2>3 DEF BlocksKept, Steady, Asked
  <2>5. ASSUME NEW e \in Clients, NEW f \in Files, <<e, f>> \in requested, NEW d \in Clients
        PROVE  RequestIs(d, f)'
    <3>0. RequestIs(d, f)
      BY <2>5 DEF FileInv
    <3>1. CASE d # c
      BY <2>1, <3>0, <3>1, UndisturbedFile
    <3>2. CASE d = c
      <4>1. AsksFor(Outgoing(c), f)
        BY <2>2, <3>0, <3>2 DEF RequestIs
      <4>2. AsksFor(Outgoing(c)', f) /\ hand'[c].file = f
        BY <2>2, <4>1, AsksShorter
      <4> QED BY <2>2, <2>3, <3>0, <3>2, <4>2 DEF RequestIs, AsksFor
    <3> QED BY <3>1, <3>2
  <2> QED BY <1>0, <2>1, <2>4, <2>5, NotInvolvedKeeps, AskingOnly
<1> QED BY <1>2, <1>3 DEF ReceiveFileRequest

\* The server announces it: nobody receives anything yet.
LEMMA RequestIsAnnounced ==
  ASSUME SystemInv, TransferInv, FileInv, UNCHANGED <<clientVars, requested>>,
         NEW c \in Clients, AnnounceTransfer(c)
  PROVE  FileInv'
<1>0. /\ MessengerInv /\ RequestInv /\ RequestFits(c) /\ HandlerStep(c) /\ TypeOK
      /\ pc \in [Clients -> Steps] /\ UNCHANGED <<toServer, toClient, fileTransferStatus>>
      /\ pc[c] = "requesting"
  BY HandlersLeaveClients DEF SystemInv, MessengerInv, TypeInv, TypeOK, TransferInv, RequestInv,
                              HandlerStep, AnnounceTransfer
<1>1. CASE Alone(c)
  <2>1. pc'[c] = "poll" /\ sendingQueue' = Reply(c, Status("ChattingAlone"))
    BY <1>0, <1>1 DEF AnnounceTransfer, Finishes, GoesOn
  <2>2. "ChattingAlone" \in StatusCodes
    BY DEF StatusCodes
  <2>3. \A e \in Clients : TellsAside(e)
    BY <2>1, <2>2, RepliesAside, AsideMessages
  <2> QED BY <1>0, <2>1, <2>3, AsideHandler
<1>2. CASE ~Alone(c)
  <2> DEFINE m == FileRequest(nickName[c], hand[c].file)
  <2>1. pc'[c] = "flagging" /\ sendingQueue' = Sent(Peers(c), m)
    BY <1>0, <1>2 DEF AnnounceTransfer, GoesOn
  <2>2. m \in Messages /\ m.type = "FILE_REQUEST" /\ m.file = hand[c].file
    <3>1. hand[c].file \in Files /\ nickName[c] \in Names
      BY <1>0, MessageFields DEF SystemInv, MessengerInv, TypeInv, TypeOK, HandsFit
    <3> QED BY <3>1, MessageTypes DEF FileRequest
  <2> HIDE DEF m
  <2>3. \A e \in Clients : UntouchedBy(e)
    BY <1>0 DEF RequestFits, Untouched
  <2>4. /\ \A e \in Clients \ {c} : pc'[e] = pc[e] /\ hand'[e] = hand[e]
        /\ \A e \in Clients : /\ Outgoing(e)' = Outgoing(e) /\ Served(e)' = Served(e)
                              /\ Current(e)' = Current(e)
        /\ UNCHANGED <<transfer, disk, chatHistory, task, request>>
    BY <1>0, HandlersOwn DEF Outgoing, clientVars
  <2>5. ASSUME NEW e \in Clients
        PROVE  \/ ToCome(e)' = ToCome(e)
               \/ ToCome(e)' = Append(ToCome(e), m)
    <3>1. CASE e \notin Peers(c)
      BY <1>0, <2>1, <3>1 DEF Sent, ToCome
    <3>2. CASE e \in Peers(c)
      <4>1. sendingQueue'[e] = Push(sendingQueue[e], m)
        BY <2>1, <3>2 DEF Sent
      <4> QED BY <1>0, <2>2, <4>1, PushedLine
    <3> QED BY <3>1, <3>2
  <2>6. ASSUME NEW e \in Clients PROVE BlocksKept(e)
    <3>1. ~Receives(e)
      BY <2>3 DEF UntouchedBy, Receives
    <3>2. ToCome(e) \in Seq(Messages)
      BY <1>0, LinesType
    <3>3. \A f : \A a, b \in Nat : Stream(ToCome(e), f, a, b) => Stream(ToCome(e)', f, a, b)
      BY <2>2, <2>5, <3>2, StreamLonger
    <3> QED BY <1>0, <2>4, <3>1, <3>3 DEF BlocksKept
  <2>7. ASSUME NEW e \in Clients, NEW f \in Files, <<e, f>> \in requested, NEW d \in Clients
        PROVE  RequestIs(d, f)'
    <3>1. RequestIs(d, f) /\ hand[c].file = f
      BY <1>0, <2>7 DEF FileInv, RequestIs
    <3>2. ToCome(d) \in Seq(Messages)
      BY <1>0, LinesType
    <3>3. Current(d) => AsksFor(ToCome(d)', f)
      BY <2>2, <2>5, <3>1, <3>2, AsksLonger DEF RequestIs
    <3>4. pc'[d] = "requesting" => pc[d] = "requesting" /\ hand'[d] = hand[d]
      BY <2>1, <2>4
    <3> QED BY <2>4, <3>1, <3>3, <3>4 DEF RequestIs, AsksFor
  <2> QED BY <1>0, <2>6, <2>7, AskingOnly
<1> QED BY <1>1, <1>2

\* FILE_REQUEST reaches a client.
LEMMA RequestReachesClient ==
  ASSUME SystemInv, TransferInv, FileInv, UNCHANGED <<serverVars, requested>>, NEW c \in Clients,
         TakesFileRequest(c)
  PROVE  FileInv'
<1>0. /\ MessengerInv /\ RequestInv
      /\ task \in [Clients -> {"poll", "asking", "read", "wrote"}]
      /\ request \in [Clients -> Messages \cup {NoRequest}]
      /\ UNCHANGED <<fileTransferStatus, pc, hand>>
  BY DEF SystemInv, MessengerInv, ClientTypeOK, TransferInv, serverVars, sessionVars
<1>1. /\ Takes(c, "FILE_REQUEST") /\ task' = [task EXCEPT ![c] = "asking"]
      /\ request' = [request EXCEPT ![c] = Received(c)]
      /\ UNCHANGED <<clientStatus, clientQueue, transfer, disk, chatHistory>>
  BY DEF TakesFileRequest
<1>2. /\ ToCome(c) # <<>> /\ Head(ToCome(c)) = Received(c) /\ Received(c).type = "FILE_REQUEST"
      /\ ToCome(c)' = Tail(ToCome(c)) /\ Current(c) /\ ToCome(c) \in Seq(Messages)
      /\ \A e \in Clients \ {c} : ToCome(e)' = ToCome(e)
      /\ \A e \in Clients : Outgoing(e)' = Outgoing(e) /\ serverEnd'[e] = serverEnd[e]
  BY <1>0, <1>1, TakesLines, LinesType
<1>3. \A e \in Clients : Served(e)' = Served(e) /\ Current(e)' = Current(e)
  BY <1>1, <1>2 DEF Served, Current
<1>4. \A e \in Clients : Steady(ToCome(e), ToCome(e)')
  BY <1>2, SteadyShorter, SteadyItself
<1>5. Asked(c)
  <2>1. Has(ToCome(c), "FILE_REQUEST")
    BY <1>2, ShorterLine
  <2> QED BY <1>2, <2>1 DEF Asked
<1>6. ASSUME NEW e \in Clients PROVE BlocksKept(e)
  <2>1. Receives(e) /\ ~Asked(e) => ~Asked(e)'
    BY <1>0, <1>1, <1>2, <1>3, <1>5 DEF Asked
  <2> QED BY <1>0, <1>1, <1>2, <1>3, <1>4, <2>1 DEF BlocksKept, Steady
<1>7. ASSUME NEW e \in Clients, NEW f \in Files, <<e, f>> \in requested, NEW d \in Clients
      PROVE  RequestIs(d, f)'
  <2>0. RequestIs(d, f)
    BY <1>7 DEF FileInv
  <2>1. Current(d) => AsksFor(ToCome(d)', f)
    BY <1>4, <2>0 DEF RequestIs, Steady
  <2>2. d = c => request'[d].file = f
    <3>1. AsksFor(ToCome(c), f) \/ d # c
      BY <1>2, <2>0 DEF RequestIs
    <3>2. request'[c] = Received(c)
      BY <1>0, <1>1
    <3> QED BY <1>2, <3>1, <3>2, AsksShorter
  <2>3. d # c => task'[d] = task[d] /\ request'[d] = request[d]
    BY <1>0, <1>1
  <2> QED BY <1>0, <1>2, <1>3, <2>0, <2>1, <2>2, <2>3 DEF RequestIs, AsksFor
<1> QED BY <1>0, <1>6, <1>7, AskingOnly

-----------------------------------------------------------------------------
(* The answers.                                                            *)

\* A step of one client leaves the others where they are.
LEMMA OthersUndisturbed ==
  ASSUME UNCHANGED serverVars, NEW c \in Clients,
         \A e \in Clients \ {c} :
            /\ Outgoing(e)' = Outgoing(e) /\ ToCome(e)' = ToCome(e)
            /\ serverEnd'[e] = serverEnd[e] /\ clientStatus'[e] = clientStatus[e]
            /\ transfer'[e] = transfer[e] /\ disk'[e] = disk[e]
            /\ task'[e] = task[e] /\ request'[e] = request[e]
            /\ chatHistory'[e] = chatHistory[e]
  PROVE  \A e \in Clients \ {c} : NotInvolved(e)
<1> SUFFICES ASSUME NEW e \in Clients \ {c} PROVE NotInvolved(e)
  OBVIOUS
<1>1. UNCHANGED <<fileTransferStatus, pc, hand>>
  BY DEF serverVars, sessionVars
<1>2. Served(e)' = Served(e) /\ Current(e)' = Current(e)
  BY DEF Served, Current
<1> QED BY <1>1, <1>2, SteadyItself DEF NotInvolved

\* As long as somebody's answer is not known, the sender has sent nothing.
LEMMA NothingSent ==
  ASSUME TransferInv, FileInv, NEW c \in Clients, NEW f \in Files, <<c, f>> \in requested,
         ~Decided(c)
  PROVE  Sends(c, f, 0)
<1>1. ~Goes(c, "FILE_DATA") /\ ~transfer[c].hasFileTransferStarted /\ SourceFits(c, f)
  BY DEF Decided, MayStart, FileInv
<1>2. transfer[c].isSendingFile => transfer[c].offset = 0
  BY <1>1 DEF SourceFits
<1>3. Served(c) => Stream(Outgoing(c), f, 0, 0)
  BY <1>1, StreamOfNone DEF Goes
<1> QED BY <1>2, <1>3 DEF Sends

\* The server knows an answer.
LEMMA AnswerReachesServer ==
  ASSUME SystemInv, TransferInv, FileInv, UNCHANGED <<clientVars, requested>>, NEW d \in Clients,
         SaveAnswer(d)
  PROVE  FileInv'
<1>0. /\ MessengerInv /\ RequestInv /\ AnswerFits(d) /\ DataFits(d) /\ HandlerStep(d)
      /\ pc \in [Clients -> Steps] /\ fileTransferStatus \in [Clients -> StatusCodes]
      /\ UNCHANGED <<toServer, toClient, sendingQueue>>
      /\ UNCHANGED <<transfer, disk, chatHistory, task, request>>
  BY HandlersLeaveClients
     DEF SystemInv, MessengerInv, TypeInv, TypeOK, TransferInv, AnswerInv, DataInv, HandlerStep,
         SaveAnswer, clientVars
<1>1. pc[d] = "answering" /\ pc'[d] = "scanning" /\ fileTransferStatus'[d] = hand[d].code
  BY <1>0 DEF SaveAnswer, GoesOn
<1>2. ~Owner(d) /\ ~Asked(d) /\ fileTransferStatus[d] \notin Answers
  BY <1>0, <1>1 DEF AnswerFits
<1>3. \A e \in Clients \ {d} : NotInvolved(e)
  BY <1>0, HandlersDisturb DEF TellsAside
<1>4. /\ Outgoing(d)' = Outgoing(d) /\ ToCome(d)' = ToCome(d)
      /\ Current(d)' = Current(d) /\ Served(d)' = Served(d)
  BY <1>0, HandlersOwn DEF Outgoing, ToCome, clientVars
<1>5. HasWhole(d)' /\ RestFits(d)' /\ RowsWhole(d)'
  BY <1>0 DEF FileInv, HasWhole, RestFits, RowsWhole, Owner
<1>6. ASSUME NEW c \in Clients, NEW f \in Files, <<c, f>> \in requested
      PROVE  /\ d # c
             /\ RequestIs(d, f)' /\ ReceiverFits(d, f)'
             /\ (\A n \in Nat : Sends(c, f, n) => Sends(c, f, n)') => Pipe(c, d, f)'
  <2>1. d # c
    BY <1>2, <1>6 DEF Owner
  <2>2. RequestIs(d, f) /\ ReceiverFits(d, f)
    BY <1>6, <2>1 DEF FileInv
  <2>3. RequestIs(d, f)'
    BY <1>0, <1>1, <1>4, <2>2 DEF RequestIs, AsksFor
  <2>4. Receives(d) => transfer[d].handle.mode = "closed"
    BY <1>2, <2>2 DEF ReceiverFits, Answers
  <2>5. ReceiverFits(d, f)'
    BY <1>0, <1>2, <1>4, <2>2, <2>4 DEF ReceiverFits, Receives, Asked
  <2>6. ASSUME Receives(d)', \A n \in Nat : Sends(c, f, n) => Sends(c, f, n)'
        PROVE  \E n \in Nat : Stream(ToCome(d), f, Count(d), n)' /\ Sends(c, f, n)'
    <3>1. Receives(d) /\ Count(d)' = 0 /\ ~Has(ToCome(d), "FILE_DATA")
      BY <1>0, <1>2, <1>4, <2>4, <2>6 DEF Receives, Count, DataFits, Comes, Answers
    <3>2. ~Decided(c)
      BY <1>1, <2>1, <3>1 DEF TransferInv, VerdictInv, VerdictFits, Receives
    <3>3. Sends(c, f, 0)'
      BY <1>6, <2>6, <3>2, NothingSent
    <3>4. Stream(ToCome(d), f, 0, 0)
      BY <3>1, StreamOfNone
    <3>5. Stream(ToCome(d), f, Count(d), 0)'
      BY <1>4, <3>1, <3>4 DEF Stream, BlockOf
    <3> QED BY <3>3, <3>5
  <2> QED BY <2>1, <2>3, <2>5, <2>6 DEF Pipe
<1> QED BY <1>0, <1>3, <1>5, <1>6, OneDisturbed

\* The user answers.
LEMMA UserAnswersFile ==
  ASSUME SystemInv, TransferInv, FileInv, UNCHANGED <<serverVars, requested>>, NEW d \in Clients,
         UserAnswers(d)
  PROVE  FileInv'
<1>0. /\ MessengerInv /\ RequestInv /\ AnswerFits(d) /\ RequestFits(d)
      /\ UNCHANGED <<fileTransferStatus, pc, hand>>
      /\ transfer \in [Clients -> Transfers]
      /\ task \in [Clients -> {"poll", "asking", "read", "wrote"}]
      /\ request \in [Clients -> Messages \cup {NoRequest}]
  BY DEF SystemInv, MessengerInv, ClientTypeOK, TransferInv, AnswerInv, RequestInv, serverVars,
         sessionVars
<1>1. PICK answer \in {"yes", "no", "escape"} :
        /\ SetTransfer(d, Answered(transfer[d], request[d].file, answer))
        /\ Queues(d, Status(IF answer = "yes" THEN "AcceptFileTransfer"
                                              ELSE "RejectFileTransfer"))
  BY DEF UserAnswers
<1> DEFINE m == Status(IF answer = "yes" THEN "AcceptFileTransfer" ELSE "RejectFileTransfer")
<1>2. /\ ClientRuns(d) /\ task[d] = "asking"
      /\ UNCHANGED <<networkVars, clientStatus, disk, chatHistory>>
      /\ request' = [request EXCEPT ![d] = NoRequest]
      /\ \E w \in {"read", "poll"} : task' = [task EXCEPT ![d] = w]
  BY DEF UserAnswers, GoesTo
<1>3. m \in Messages /\ Aside(m)
  <2>1. "AcceptFileTransfer" \in StatusCodes /\ "RejectFileTransfer" \in StatusCodes
    BY DEF StatusCodes
  <2> QED BY <2>1, AsideMessages
<1>4. /\ transfer'[d].isReceivingFile = (answer = "yes")
      /\ transfer'[d].isReceivingFile => transfer'[d].fileName = request[d].file
      /\ transfer'[d].isSendingFile = transfer[d].isSendingFile
      /\ transfer'[d].handle = transfer[d].handle /\ transfer'[d].offset = transfer[d].offset
      /\ \A e \in Clients \ {d} : transfer'[e] = transfer[e]
  BY <1>0, <1>1 DEF SetTransfer, Answered, Transfers
<1> HIDE DEF m
<1>5. /\ Outgoing(d)' = Outgoing(d) \/ Outgoing(d)' = Append(Outgoing(d), m)
      /\ \A e \in Clients \ {d} : Outgoing(e)' = Outgoing(e)
      /\ \A e \in Clients : ToCome(e)' = ToCome(e) /\ serverEnd'[e] = serverEnd[e]
      /\ Outgoing(d) \in Seq(Messages)
  BY <1>0, <1>1, <1>2, <1>3, QueuesLines, LinesType DEF m, networkVars
<1>6. \A e \in Clients \ {d} : NotInvolved(e)
  BY <1>0, <1>2, <1>4, <1>5, OthersUndisturbed
<1>7. /\ Current(d) /\ Current(d)' /\ Served(d)' = Served(d) /\ task'[d] # "asking"
      /\ Steady(Outgoing(d), Outgoing(d)')
  BY <1>0, <1>2, <1>3, <1>5, SteadyLonger, SteadyItself DEF Current, Served, ClientRuns
<1>8. /\ Asked(d) /\ ~Asked(d)' /\ ~Untouched /\ ~Owner(d) /\ requested # {}
      /\ fileTransferStatus[d] \notin Answers
  BY <1>0, <1>2, <1>5, <1>7 DEF AnswerFits, Asked, Comes, Untouched, UntouchedBy, RequestInv
<1>9. ~transfer[d].isReceivingFile /\ transfer[d].offset = 0 /\ transfer[d].handle.mode = "closed"
  <2>1. PICK c \in Clients, f \in Files : <<c, f>> \in requested
    BY <1>8 DEF FileInv, OneRequested
  <2>2. ReceiverFits(d, f)
    BY <1>8, <2>1 DEF FileInv, Owner
  <2>3. ~transfer[d].isReceivingFile
    BY <1>7, <1>8, <2>2 DEF ReceiverFits, Receives
  <2>4. ~transfer[d].isSendingFile
    BY <1>0, <1>8 DEF RequestFits
  <2> QED BY <2>3, <2>4 DEF FileInv, RestFits
<1>10. HasWhole(d)' /\ RestFits(d)' /\ RowsWhole(d)'
  <2>1. RestFits(d)'
    BY <1>0, <1>4, <1>8, <1>9 DEF RestFits
  <2> QED BY <1>2, <1>8, <2>1 DEF FileInv, HasWhole, RowsWhole, Owner
<1>11. ASSUME NEW c \in Clients, NEW f \in Files, <<c, f>> \in requested
       PROVE  d # c /\ RequestIs(d, f)' /\ ReceiverFits(d, f)' /\ Pipe(c, d, f)'
  <2>1. d # c /\ RequestIs(d, f) /\ request[d].file = f
    BY <1>2, <1>7, <1>8, <1>11 DEF Owner, FileInv, RequestIs
  <2>2. RequestIs(d, f)'
    BY <1>0, <1>5, <1>7, <2>1 DEF RequestIs, Steady, AsksFor
  <2>3. ReceiverFits(d, f)'
    BY <1>4, <1>8, <1>9, <2>1 DEF ReceiverFits, Receives
  <2>4. Pipe(c, d, f)'
    BY <1>0, <1>8 DEF Pipe, Answers
  <2> QED BY <2>1, <2>2, <2>3, <2>4
<1> QED BY <1>0, <1>6, <1>10, <1>11, OneDisturbed

\* The verdict reaches the sender, and nobody else.
LEMMA VerdictReachesSender ==
  ASSUME SystemInv, TransferInv, FileInv, UNCHANGED <<serverVars, requested>>, NEW c \in Clients,
         TakesStatus(c)
  PROVE  FileInv'
<1> DEFINE m == Received(c)
           t == transfer[c]
<1>0. /\ MessengerInv /\ RequestInv /\ RequestFits(c) /\ transfer \in [Clients -> Transfers]
      /\ task \in [Clients -> {"poll", "asking", "read", "wrote"}]
      /\ clientStatus \in [Clients -> {"idle", "running", "ended", "fatal", "sigpipe"}]
      /\ Takes(c, "STATUS") /\ UNCHANGED <<clientQueue, disk, request, chatHistory>>
      /\ UNCHANGED <<fileTransferStatus, pc, hand>>
  BY DEF SystemInv, MessengerInv, ClientTypeOK, TakesStatus, TransferInv, RequestInv, serverVars,
         sessionVars
<1>1. CASE Aborts(c) \/ UNCHANGED <<transfer, clientStatus>>
  <2>1. UNCHANGED transfer /\ \A e \in Clients : Current(e)' => Current(e)
    BY <1>0, <1>1 DEF Aborts, Current
  <2>2. \A e \in Clients : task'[e] = "asking" => task[e] = "asking"
    BY <1>0, <1>1 DEF Aborts, TakesStatus, GoesTo
  <2> QED BY <1>0, <2>1, <2>2, ReadingAside
<1>2. CASE ~Aborts(c) /\ m.code \notin Verdicts
  <2>1. transfer' = transfer /\ UNCHANGED clientStatus
    BY <1>0, <1>2 DEF TakesStatus, SetTransfer, Verdicts, Answers
  <2> QED BY <1>1, <2>1
<1>3. CASE ~Aborts(c) /\ m.code \in Verdicts
  <2>1. /\ t.isSendingFile /\ UNCHANGED clientStatus
        /\ \E w \in {"read", "poll"} : task' = [task EXCEPT ![c] = w]
        /\ \/ SetTransfer(c, [t EXCEPT !.hasFileTransferStarted = TRUE])
           \/ SetTransfer(c, NoTransfer)
    BY <1>3 DEF TakesStatus, GoesTo, Verdicts, Answers
  <2>2. /\ \/ transfer'[c] = NoTransfer
           \/ /\ transfer'[c].hasFileTransferStarted
              /\ transfer'[c].isSendingFile = t.isSendingFile
              /\ transfer'[c].isReceivingFile = t.isReceivingFile
              /\ transfer'[c].fileName = t.fileName
              /\ transfer'[c].handle = t.handle /\ transfer'[c].offset = t.offset
        /\ \A e \in Clients \ {c} : transfer'[e] = transfer[e]
    <3>1. CASE SetTransfer(c, NoTransfer)
      BY <1>0, <3>1 DEF SetTransfer
    <3>2. CASE SetTransfer(c, [t EXCEPT !.hasFileTransferStarted = TRUE])
      BY <1>0, <3>2 DEF SetTransfer, Transfers
    <3> QED BY <2>1, <3>1, <3>2
  <2>3. Owner(c)
    BY <1>0, <2>1 DEF RequestFits
  <2>4. /\ ToCome(c) # <<>> /\ Head(ToCome(c)).type = "STATUS"
        /\ ToCome(c)' = Tail(ToCome(c)) /\ Current(c) /\ task[c] = "poll"
        /\ \A e \in Clients \ {c} : ToCome(e)' = ToCome(e)
        /\ \A e \in Clients : Outgoing(e)' = Outgoing(e) /\ serverEnd'[e] = serverEnd[e]
        /\ ToCome(c) \in Seq(Messages)
    BY <1>0, TakesLines, LinesType
  <2>5. Steady(ToCome(c), ToCome(c)') /\ task'[c] # "asking"
    BY <1>0, <2>1, <2>4, SteadyShorter
  <2>6. \A e \in Clients \ {c} : NotInvolved(e)
    BY <1>0, <2>1, <2>2, <2>4, OthersUndisturbed
  <2>7. HasWhole(c)' /\ RestFits(c)' /\ RowsWhole(c)'
    <3>1. RestFits(c)'
      BY <2>2 DEF RestFits, FileInv, NoTransfer, NoHandle
    <3> QED BY <1>0, <3>1 DEF HasWhole, RowsWhole, FileInv, Owner
  <2>8. Served(c)' = Served(c) /\ Current(c)' = Current(c)
    BY <2>1, <2>4 DEF Served, Current
  <2>9. ASSUME NEW s \in Clients, NEW f \in Files, <<s, f>> \in requested
        PROVE  /\ c = s /\ RequestIs(c, f)' /\ SourceFits(c, f)'
               /\ \A n \in Nat : Sends(c, f, n) => Sends(c, f, n)'
    <3>1. c = s /\ RequestIs(c, f) /\ SourceFits(c, f)
      BY <1>0, <2>3, <2>9 DEF RequestInv, Owner, FileInv
    <3>2. RequestIs(c, f)'
      <4>1. AsksFor(ToCome(c), f) => AsksFor(ToCome(c)', f)
        BY <2>5 DEF Steady
      <4> QED BY <1>0, <2>4, <2>5, <2>8, <3>1, <4>1 DEF RequestIs
    <3>3. SourceFits(c, f)'
      <4>1. CASE transfer'[c] = NoTransfer
        BY <4>1 DEF SourceFits, NoTransfer
      <4>2. CASE transfer'[c] # NoTransfer
        BY <1>0, <2>2, <3>1, <4>2 DEF SourceFits
      <4> QED BY <4>1, <4>2
    <3>4. \A n \in Nat : Sends(c, f, n) => Sends(c, f, n)'
      BY <2>2, <2>4, <2>8 DEF Sends, NoTransfer
    <3> QED BY <3>1, <3>2, <3>3, <3>4
  <2> QED BY <1>0, <2>6, <2>7, <2>9, OneDisturbed
<1> QED BY <1>1, <1>2, <1>3

-----------------------------------------------------------------------------
(* The blocks.                                                             *)

\* A step that concerns one client, or its session: c has asked to send f.
LEMMA OneDisturbedOf ==
  ASSUME MessengerInv, RequestInv, FileInv, UNCHANGED requested, NEW x \in Clients,
         \A e \in Clients \ {x} : NotInvolved(e),
         HasWhole(x)', RestFits(x)', RowsWhole(x)',
         NEW c \in Clients, NEW f \in Files, <<c, f>> \in requested, RequestIs(x, f)',
         x = c => SourceFits(c, f)' /\ \A n \in Nat : Sends(c, f, n) => Sends(c, f, n)',
         x # c => ReceiverFits(x, f)',
         x # c /\ (\A n \in Nat : Sends(c, f, n) => Sends(c, f, n)') => Pipe(c, x, f)'
  PROVE  FileInv'
<1>1. \A d \in Clients, g \in Files : <<d, g>> \in requested => d = c /\ g = f
  BY DEF FileInv, OneRequested
<1> QED BY <1>1, OneDisturbed

\* fread() of a whole file, in the middle or at its end.
LEMMA WholeBlock ==
  ASSUME NEW f \in Files, NEW k \in Nat, k < Blocks[f], NEW h, h.mode = "r", h.pos = k
  PROVE  /\ BlockAt(h, Whole(f)).last = (k = Blocks[f] - 1)
         /\ FileData(k, BlockAt(h, Whole(f)).content, BlockAt(h, Whole(f)).last) = BlockOf(f, k)
<1> DEFINE here == {b[2] : b \in {x \in Whole(f) : x[1] = h.pos}}
           later == {b \in Whole(f) : b[1] > h.pos}
<1>0. Blocks[f] \in Nat
  BY FilesAssumption
<1>1. here = {<<f, k>>}
  <2>1. k \in 0..(Blocks[f] - 1)
    BY <1>0
  <2>2. <<k, <<f, k>>>> \in Whole(f)
    BY <2>1 DEF Whole
  <2>3. \A b \in Whole(f) : b[1] = k => b[2] = <<f, k>>
    BY DEF Whole
  <2> QED BY <2>2, <2>3
<1>2. (later = {}) = (k = Blocks[f] - 1)
  <2>1. CASE k = Blocks[f] - 1
    <3>1. \A b \in Whole(f) : ~(b[1] > k)
      BY <1>0, <2>1 DEF Whole
    <3> QED BY <2>1, <3>1
  <2>2. CASE k # Blocks[f] - 1
    <3>1. k + 1 \in 0..(Blocks[f] - 1) /\ k + 1 > k
      BY <1>0, <2>2
    <3>2. <<k + 1, <<f, k + 1>>>> \in Whole(f)
      BY <3>1 DEF Whole
    <3>3. <<k + 1, <<f, k + 1>>>>[1] > k
      BY <3>1
    <3> QED BY <2>2, <3>2, <3>3
  <2> QED BY <2>1, <2>2
<1>3. BlockAt(h, Whole(f)) = [content |-> CHOOSE x \in here : TRUE, last |-> later = {}]
  BY <1>1 DEF BlockAt
<1>4. (CHOOSE x \in here : TRUE) = <<f, k>>
  BY <1>1
<1> HIDE DEF here, later
<1> DEFINE A == BlockAt(h, Whole(f))
<1>5. A.content = <<f, k>> /\ A.last = (k = Blocks[f] - 1)
  BY <1>2, <1>3, <1>4
<1> HIDE DEF A
<1>6. FileData(k, A.content, A.last) = BlockOf(f, k)
  BY <1>5 DEF BlockOf
<1> QED BY <1>5, <1>6 DEF A

\* fseek() and fwrite() of the next block.
LEMMA NextBlock ==
  ASSUME NEW f \in Files, NEW k \in Nat
  PROVE  /\ Overwritten(Part(f, k), BlockOf(f, k)) = Part(f, k + 1)
         /\ Part(f, 0) = {}
         /\ k = Blocks[f] - 1 => Part(f, k + 1) = Whole(f)
<1>1. BlockOf(f, k).content = <<f, k>> /\ BlockOf(f, k).offset = k /\ <<f, k>> # NoData
  BY ContentsAssumption DEF BlockOf, FileData
<1>2. {b \in Part(f, k) : b[1] # k} \cup {<<k, <<f, k>>>>} = Part(f, k + 1)
  <2>1. \A j : j \in 0..((k + 1) - 1) <=> (j \in 0..(k - 1) \/ j = k)
    OBVIOUS
  <2>2. \A j \in 0..(k - 1) : j # k
    OBVIOUS
  <2> QED BY <2>1, <2>2 DEF Part
<1>3. Overwritten(Part(f, k), BlockOf(f, k)) = Part(f, k + 1)
  BY <1>1, <1>2 DEF Overwritten
<1>4. Part(f, 0) = {}
  BY DEF Part
<1>5. k = Blocks[f] - 1 => Part(f, k + 1) = Whole(f)
  <2>1. k = Blocks[f] - 1 => (k + 1) - 1 = Blocks[f] - 1
    OBVIOUS
  <2> QED BY <2>1 DEF Part, Whole
<1> QED BY <1>3, <1>4, <1>5

\* cycle(): the sender's next block.
LEMMA CyclesFile ==
  ASSUME SystemInv, TransferInv, FileInv, UNCHANGED <<serverVars, requested>>, NEW c \in Clients,
         Cycle(c)
  PROVE  FileInv'
<1> DEFINE t == transfer[c]
<1>0. /\ MessengerInv /\ RequestInv /\ RequestFits(c) /\ transfer \in [Clients -> Transfers]
      /\ t \in Transfers
      /\ task \in [Clients -> {"poll", "asking", "read", "wrote"}]
      /\ UNCHANGED <<networkVars, clientStatus, request, disk, chatHistory>>
      /\ task' = [task EXCEPT ![c] = "poll"]
      /\ UNCHANGED <<fileTransferStatus, pc, hand>>
  BY DEF SystemInv, MessengerInv, ClientTypeOK, TransferInv, RequestInv, Cycle, serverVars,
         sessionVars
<1>1. CASE UNCHANGED <<transfer, clientQueue>>
  BY <1>0, <1>1, RestingAside
<1>2. CASE ~UNCHANGED <<transfer, clientQueue>>
  <2>1. t.isSendingFile /\ t.hasFileTransferStarted
    BY <1>2 DEF Cycle, IsTransmitting
  <2>2. Owner(c)
    BY <1>0, <2>1 DEF RequestFits
  <2>3. PICK f \in Files : <<c, f>> \in requested
    BY <2>2 DEF Owner
  <2>4. /\ SourceFits(c, f) /\ RequestIs(c, f) /\ HasWhole(c) /\ RowsWhole(c)
        /\ f # NoFile /\ Blocks[f] \in Nat /\ t.offset \in Nat
    BY <1>0, <2>3, FilesAssumption DEF FileInv, Transfers
  <2> DEFINE h == [mode |-> "r", file |-> f, pos |-> t.offset]
             m == BlockOf(f, t.offset)
  <2>5. /\ t.fileName = f /\ t.offset < Blocks[f]
        /\ (IF t.handle.mode = "closed" THEN [mode |-> "r", file |-> t.fileName, pos |-> 0]
                                        ELSE t.handle) = h
        /\ disk[c][f] \in {Absent, Whole(f)}
    BY <2>1, <2>2, <2>4 DEF SourceFits, HasWhole
  <2>6. h.mode = "r" /\ h.pos = t.offset /\ h.file = f
        /\ [h EXCEPT !.pos = @ + 1] = [mode |-> "r", file |-> f, pos |-> t.offset + 1]
    OBVIOUS
  <2> HIDE DEF h
  <2>7. m \in Messages
    <3>1. <<f, t.offset>> \in Contents
      BY <2>4 DEF Contents
    <3>2. (t.offset = Blocks[f] - 1) \in BOOLEAN
      OBVIOUS
    <3> QED BY <2>4, <3>1, <3>2, ClientMessages DEF BlockOf
  <2>8. \/ SetTransfer(c, NoTransfer) /\ UNCHANGED clientQueue
        \/ /\ SetTransfer(c, [t EXCEPT !.handle = h]) /\ UNCHANGED clientQueue
           /\ disk[c][f] = Whole(f)
        \/ /\ CanSend(clientQueue[c]) /\ Queues(c, m) /\ disk[c][f] = Whole(f)
           /\ \/ SetTransfer(c, NoTransfer)
              \/ /\ t.offset # Blocks[f] - 1
                 /\ SetTransfer(c, [t EXCEPT !.handle = [h EXCEPT !.pos = @ + 1], !.offset = @ + 1])
    <3>0. /\ BlockAt(h, Whole(f)).last = (t.offset = Blocks[f] - 1)
          /\ FileData(t.offset, BlockAt(h, Whole(f)).content, BlockAt(h, Whole(f)).last)
               = BlockOf(f, t.offset)
      <4> DEFINE k == t.offset
      <4>1. f \in Files /\ k \in Nat /\ k < Blocks[f] /\ h.mode = "r" /\ h.pos = k
        BY <2>4, <2>5, <2>6
      <4> HIDE DEF k
      <4>2. BlockAt(h, Whole(f)).last = (k = Blocks[f] - 1)
        BY <4>1, WholeBlock
      <4>3. FileData(k, BlockAt(h, Whole(f)).content, BlockAt(h, Whole(f)).last) = BlockOf(f, k)
        BY <4>1, WholeBlock
      <4> QED BY <4>2, <4>3 DEF k
    <3>1. /\ BlockAt(h, Whole(f)).last = (t.offset = Blocks[f] - 1)
          /\ FileData(t.offset, BlockAt(h, Whole(f)).content, BlockAt(h, Whole(f)).last) = m
      BY <3>0
    <3> HIDE DEF m
    <3>2. (IF h.file = NoFile THEN Absent ELSE disk[c][h.file]) = disk[c][f]
      BY <2>4, <2>6
    <3> QED BY <1>2, <2>5, <3>1, <3>2 DEF Cycle
  <2>9. /\ \A e \in Clients \ {c} : transfer'[e] = transfer[e]
        /\ \/ transfer'[c] = NoTransfer
           \/ /\ transfer'[c].isSendingFile /\ transfer'[c].hasFileTransferStarted
              /\ transfer'[c].fileName = f
              /\ transfer'[c].offset \in Nat /\ transfer'[c].offset < Blocks[f]
              /\ transfer'[c].handle = [mode |-> "r", file |-> f, pos |-> transfer'[c].offset]
              /\ disk'[c][f] = Whole(f)
        /\ \/ UNCHANGED clientQueue
              /\ (transfer'[c].isSendingFile => transfer'[c].offset = t.offset)
           \/ /\ CanSend(clientQueue[c]) /\ Queues(c, m)
              /\ (transfer'[c].isSendingFile => transfer'[c].offset = t.offset + 1)
    <3>1. CASE SetTransfer(c, NoTransfer)
      <4>1. transfer'[c] = NoTransfer /\ \A e \in Clients \ {c} : transfer'[e] = transfer[e]
        BY <1>0, <3>1 DEF SetTransfer
      <4> QED BY <2>8, <4>1 DEF NoTransfer
    <3>2. CASE /\ SetTransfer(c, [t EXCEPT !.handle = h]) /\ UNCHANGED clientQueue
               /\ disk[c][f] = Whole(f)
      <4>1. /\ transfer'[c] = [t EXCEPT !.handle = h]
            /\ \A e \in Clients \ {c} : transfer'[e] = transfer[e]
        BY <1>0, <3>2 DEF SetTransfer
      <4>2. /\ transfer'[c].isSendingFile = t.isSendingFile /\ transfer'[c].fileName = t.fileName
            /\ transfer'[c].hasFileTransferStarted = t.hasFileTransferStarted
            /\ transfer'[c].offset = t.offset /\ transfer'[c].handle = h
        BY <1>0, <4>1 DEF Transfers
      <4> QED BY <1>0, <2>1, <2>4, <2>5, <3>2, <4>1, <4>2 DEF h
    <3>3. CASE /\ CanSend(clientQueue[c]) /\ Queues(c, m) /\ disk[c][f] = Whole(f)
               /\ t.offset # Blocks[f] - 1
               /\ SetTransfer(c, [t EXCEPT !.handle = [h EXCEPT !.pos = @ + 1], !.offset = @ + 1])
      <4>1. /\ transfer'[c] = [t EXCEPT !.handle = [h EXCEPT !.pos = @ + 1], !.offset = @ + 1]
            /\ \A e \in Clients \ {c} : transfer'[e] = transfer[e]
        BY <1>0, <3>3 DEF SetTransfer
      <4>2. /\ transfer'[c].isSendingFile = t.isSendingFile /\ transfer'[c].fileName = t.fileName
            /\ transfer'[c].hasFileTransferStarted = t.hasFileTransferStarted
            /\ transfer'[c].offset = t.offset + 1
            /\ transfer'[c].handle = [h EXCEPT !.pos = @ + 1]
        BY <1>0, <4>1 DEF Transfers
      <4>3. t.offset + 1 \in Nat /\ t.offset + 1 < Blocks[f]
        BY <2>4, <2>5, <3>3
      <4> QED BY <1>0, <2>1, <2>5, <2>6, <3>3, <4>1, <4>2, <4>3
    <3> QED BY <2>8, <3>1, <3>2, <3>3
  <2> HIDE DEF m
  <2>10. /\ \A e \in Clients \ {c} : Outgoing(e)' = Outgoing(e)
         /\ \A e \in Clients : ToCome(e)' = ToCome(e) /\ serverEnd'[e] = serverEnd[e]
         /\ \/ UNCHANGED clientQueue /\ Outgoing(c)' = Outgoing(c)
            \/ ~UNCHANGED clientQueue /\ Outgoing(c)' = Append(Outgoing(c), m)
         /\ Outgoing(c) \in Seq(Messages)
    <3>0. UNCHANGED <<toServer, toClient, serverEnd, sendingQueue>> /\ Outgoing(c) \in Seq(Messages)
      BY <1>0, LinesType DEF networkVars, serverVars, sessionVars
    <3>1. CASE UNCHANGED clientQueue
      BY <3>0, <3>1 DEF Outgoing, ToCome
    <3>2. CASE ~UNCHANGED clientQueue
      BY <1>0, <2>7, <2>9, <3>0, <3>2, QueuesLines
    <3> QED BY <3>1, <3>2
  <2>11. /\ \A e \in Clients \ {c} : NotInvolved(e)
         /\ Served(c)' = Served(c) /\ Current(c)' = Current(c) /\ task'[c] = "poll"
    BY <1>0, <2>9, <2>10, OthersUndisturbed DEF Served, Current
  <2>12. HasWhole(c)' /\ RestFits(c)' /\ RowsWhole(c)'
    <3>1. RestFits(c)'
      BY <2>9 DEF RestFits, NoTransfer, NoHandle
    <3> QED BY <1>0, <2>4, <3>1 DEF HasWhole, RowsWhole, Owner
  <2>13. RequestIs(c, f)'
    <3>1. AsksFor(Outgoing(c), f) => AsksFor(Outgoing(c)', f)
      <4>1. m.type = "FILE_DATA"
        BY DEF m, BlockOf, FileData
      <4> QED BY <2>7, <2>10, <4>1, AsksLonger
    <3> QED BY <1>0, <2>4, <2>10, <2>11, <3>1 DEF RequestIs
  <2>14. SourceFits(c, f)'
    BY <2>9 DEF SourceFits, NoTransfer
  <2>15. ASSUME NEW n \in Nat, Sends(c, f, n) PROVE Sends(c, f, n)'
    <3> SUFFICES ASSUME Served(c)
                 PROVE  \E k \in Nat : /\ Stream(Outgoing(c)', f, n, k)
                                       /\ transfer'[c].isSendingFile => k = transfer'[c].offset
      BY <2>11 DEF Sends
    <3>1. Stream(Outgoing(c), f, n, t.offset)
      BY <2>1, <2>15 DEF Sends
    <3>2. CASE Outgoing(c)' = Outgoing(c) /\ UNCHANGED clientQueue
      <4>1. CASE transfer'[c].isSendingFile => transfer'[c].offset = t.offset
        BY <2>4, <3>1, <3>2, <4>1
      <4>2. CASE Queues(c, m) /\ CanSend(clientQueue[c])
        <5>1. clientQueue'[c] = Append(clientQueue[c], m) /\ clientQueue[c] \in Seq(Messages)
          <6>1. clientQueue \in [Clients -> Seq(Messages)]
            BY <1>0 DEF MessengerInv, ClientTypeOK
          <6> QED BY <4>2, <6>1 DEF Queues, Push
        <5>2. clientQueue'[c] # clientQueue[c]
          <6>1. Len(clientQueue'[c]) = Len(clientQueue[c]) + 1 /\ Len(clientQueue[c]) \in Nat
            BY <2>7, <5>1
          <6> QED BY <6>1
        <5> QED BY <3>2, <5>2
      <4> QED BY <2>9, <4>1, <4>2
    <3>3. CASE Outgoing(c)' = Append(Outgoing(c), m) /\ ~UNCHANGED clientQueue
      <4>1. Stream(Outgoing(c)', f, n, t.offset + 1) /\ t.offset + 1 \in Nat
        BY <2>4, <2>7, <2>10, <3>1, <3>3, StreamLonger DEF m
      <4>2. transfer'[c].isSendingFile => transfer'[c].offset = t.offset + 1
        BY <2>9, <3>3
      <4> QED BY <4>1, <4>2
    <3> QED BY <2>10, <3>2, <3>3
  <2> QED BY <1>0, <2>3, <2>11, <2>12, <2>13, <2>14, <2>15, OneDisturbedOf
<1> QED BY <1>1, <1>2

\* saveData(): the next block is put behind those that are there.
LEMMA SavesFile ==
  ASSUME SystemInv, TransferInv, FileInv, UNCHANGED <<serverVars, requested>>, NEW d \in Clients,
         TakesFileData(d)
  PROVE  FileInv'
<1> DEFINE m == Received(d)
           t == transfer[d]
           k == Count(d)
<1>0. /\ MessengerInv /\ RequestInv /\ RequestFits(d) /\ DataFits(d)
      /\ transfer \in [Clients -> Transfers] /\ t \in Transfers
      /\ disk \in [Clients -> [Files -> FileContents \cup {Absent}]]
      /\ chatHistory \in [Clients -> Seq(Rows)]
      /\ task \in [Clients -> {"poll", "asking", "read", "wrote"}]
      /\ UNCHANGED <<fileTransferStatus, pc, hand>>
  BY DEF SystemInv, MessengerInv, ClientTypeOK, TransferInv, RequestInv, DataInv, serverVars,
         sessionVars
<1>1. /\ Takes(d, "FILE_DATA") /\ UNCHANGED <<clientStatus, clientQueue, request>>
      /\ \E w \in {"read", "poll"} : task' = [task EXCEPT ![d] = w]
  BY DEF TakesFileData, GoesTo
<1>2. /\ ToCome(d) # <<>> /\ Head(ToCome(d)) = m /\ m.type = "FILE_DATA"
      /\ ToCome(d)' = Tail(ToCome(d)) /\ Current(d) /\ ToCome(d) \in Seq(Messages)
      /\ \A e \in Clients \ {d} : ToCome(e)' = ToCome(e)
      /\ \A e \in Clients : Outgoing(e)' = Outgoing(e) /\ serverEnd'[e] = serverEnd[e]
  BY <1>0, <1>1, TakesLines, LinesType
<1>3. /\ t.isReceivingFile /\ ~Owner(d) /\ ~t.isSendingFile /\ requested # {}
      /\ fileTransferStatus[d] = "AcceptFileTransfer"
  <2>1. Comes(d, "FILE_DATA")
    BY <1>2, ShorterLine DEF Comes
  <2> QED BY <1>0, <2>1 DEF DataFits, RequestFits, RequestInv, Untouched, UntouchedBy
<1>4. PICK c \in Clients, f \in Files : <<c, f>> \in requested
  BY <1>3 DEF FileInv, OneRequested
<1>5. /\ d # c /\ RequestIs(d, f) /\ RestFits(d) /\ RowsWhole(d) /\ Receives(d) /\ ~Asked(d)
      /\ t.fileName = f /\ k \in Nat
      /\ t.handle.mode # "closed" => /\ t.handle.mode = "w" /\ t.handle.file = f
                                     /\ disk[d][f] = Part(f, k)
  <2>1. d # c
    BY <1>3, <1>4 DEF Owner
  <2>2. Receives(d)
    BY <1>2, <1>3 DEF Receives
  <2>3. k \in Nat
    BY <1>0 DEF Count, Transfers, Handles
  <2> QED BY <1>4, <2>1, <2>2, <2>3 DEF FileInv, ReceiverFits
<1>6. PICK n \in Nat : Stream(ToCome(d), f, k, n) /\ Sends(c, f, n)
  BY <1>3, <1>4, <1>5 DEF FileInv, Pipe
<1>7. m = BlockOf(f, k) /\ Stream(ToCome(d)', f, k + 1, n) /\ AsksFor(ToCome(d)', f)
  BY <1>2, <1>5, <1>6, StreamShorter, AsksShorter DEF RequestIs
<1>8. m.offset = k /\ m.last = (k = Blocks[f] - 1)
  BY <1>7 DEF BlockOf, FileData
<1>9. Saved(t, m, disk[d]) = [disk[d] EXCEPT ![f] = Part(f, k + 1)]
  <2>1. SaveHandle(t).mode = "w" /\ SaveHandle(t).file = f
    BY <1>5 DEF SaveHandle
  <2>2. OpenedForSaving(t, disk[d]) = Part(f, k)
    <3>1. CASE t.handle.mode = "closed"
      BY <3>1, NextBlock DEF OpenedForSaving, Count
    <3>2. CASE t.handle.mode # "closed"
      BY <1>5, <3>2 DEF OpenedForSaving
    <3> QED BY <3>1, <3>2
  <2>3. Overwritten(Part(f, k), m) = Part(f, k + 1)
    BY <1>5, <1>7, NextBlock
  <2> QED BY <2>1, <2>2, <2>3 DEF Saved
<1> DEFINE h == [SaveHandle(t) EXCEPT !.pos = m.offset]
<1>10. h.mode = "w" /\ h.file = f /\ h.pos = k
  BY <1>5, <1>8 DEF SaveHandle, Transfers, Handles
<1>11. /\ disk'[d][f] = Part(f, k + 1)
       /\ \A e \in Clients \ {d} : disk'[e] = disk[e]
  <2>1. disk' = [disk EXCEPT ![d] = Saved(t, m, disk[d])]
    BY <1>3 DEF TakesFileData
  <2> QED BY <1>0, <1>9, <2>1
<1>12. /\ m.last => /\ SetTransfer(d, NoTransfer)
                    /\ NewRow(d, [kind |-> "received", file |-> f, content |-> Whole(f)])
       /\ ~m.last => SetTransfer(d, [t EXCEPT !.handle = h]) /\ UNCHANGED chatHistory
  <2>1. m.last => Saved(t, m, disk[d])[f] = Whole(f)
    <3>1. Saved(t, m, disk[d])[f] = Part(f, k + 1)
      BY <1>0, <1>9
    <3>2. m.last => k = Blocks[f] - 1
      BY <1>8
    <3> QED BY <1>5, <3>1, <3>2, NextBlock
  <2>2. m.last => /\ SetTransfer(d, NoTransfer)
                  /\ NewRow(d, [kind |-> "received", file |-> f,
                                content |-> Saved(t, m, disk[d])[f]])
    BY <1>3, <1>5 DEF TakesFileData
  <2>3. ~m.last => SetTransfer(d, [t EXCEPT !.handle = h]) /\ UNCHANGED chatHistory
    BY <1>3 DEF TakesFileData
  <2> QED BY <2>1, <2>2, <2>3
<1> HIDE DEF h, m, k
<1>13. /\ \A e \in Clients \ {d} : transfer'[e] = transfer[e] /\ chatHistory'[e] = chatHistory[e]
       /\ m.last => transfer'[d] = NoTransfer
       /\ ~m.last => /\ transfer'[d].isReceivingFile /\ ~transfer'[d].isSendingFile
                     /\ transfer'[d].fileName = f /\ transfer'[d].offset = t.offset
                     /\ transfer'[d].handle = h
  <2>1. CASE m.last
    BY <1>0, <1>12, <2>1 DEF SetTransfer, NewRow
  <2>2. CASE ~m.last
    <3>1. transfer' = [transfer EXCEPT ![d] = [t EXCEPT !.handle = h]]
      BY <1>12, <2>2 DEF SetTransfer
    <3>2. transfer'[d] = [t EXCEPT !.handle = h] /\ \A e \in Clients \ {d} : transfer'[e] = transfer[e]
      BY <1>0, <3>1
    <3>3. /\ transfer'[d].isReceivingFile = t.isReceivingFile
          /\ transfer'[d].isSendingFile = t.isSendingFile
          /\ transfer'[d].fileName = t.fileName /\ transfer'[d].offset = t.offset
          /\ transfer'[d].handle = h
      BY <1>0, <3>2 DEF Transfers
    <3> QED BY <1>3, <1>5, <1>12, <2>2, <3>2, <3>3
  <2> QED BY <2>1, <2>2
<1>14. RowsWhole(d)'
  <2>1. CASE ~m.last
    BY <1>5, <1>12, <2>1 DEF RowsWhole
  <2>2. CASE m.last
    <3> DEFINE row == [kind |-> "received", file |-> f, content |-> Whole(f)]
               s == chatHistory[d]
               r == Append(s, row)
    <3>1. chatHistory'[d] = r /\ s \in Seq(Rows)
      BY <1>0, <1>12, <2>2 DEF NewRow
    <3>2. \A i \in 1..Len(r) : (i \in 1..Len(s) /\ r[i] = s[i]) \/ r[i] = row
      BY <3>1
    <3>3. row.content = Whole(row.file)
      OBVIOUS
    <3> HIDE DEF row, r
    <3> QED BY <1>5, <3>1, <3>2, <3>3 DEF RowsWhole
  <2> QED BY <2>1, <2>2
<1>15. HasWhole(d)' /\ RestFits(d)'
  <2>1. RestFits(d)'
    BY <1>3, <1>5, <1>13 DEF RestFits, NoTransfer, NoHandle
  <2>2. HasWhole(d)'
    BY <1>3 DEF HasWhole, Owner
  <2> QED BY <2>1, <2>2
<1>16. \A e \in Clients \ {d} : NotInvolved(e)
  BY <1>0, <1>1, <1>2, <1>11, <1>13, OthersUndisturbed
<1>17. Current(d)' = Current(d) /\ Served(d)' = Served(d) /\ task'[d] # "asking"
  BY <1>0, <1>1, <1>2 DEF Current, Served
<1>18. ~Asked(d)'
  <2>1. ~Has(ToCome(d)', "FILE_REQUEST")
    BY <1>2, <1>5, ShorterLine DEF Asked
  <2> QED BY <1>17, <2>1 DEF Asked
<1>19. RequestIs(d, f)'
  BY <1>0, <1>2, <1>5, <1>7, <1>17 DEF RequestIs, AsksFor
<1>20. ReceiverFits(d, f)'
  <2>1. CASE m.last
    BY <1>13, <2>1 DEF ReceiverFits, Receives, NoTransfer
  <2>2. CASE ~m.last
    <3>1. Count(d)' = k + 1
      BY <1>10, <1>13, <2>2 DEF Count
    <3> QED BY <1>0, <1>3, <1>10, <1>11, <1>13, <1>18, <2>2, <3>1
            DEF ReceiverFits, Part
  <2> QED BY <2>1, <2>2
<1>21. ASSUME \A i \in Nat : Sends(c, f, i) => Sends(c, f, i)'
       PROVE  Pipe(c, d, f)'
  <2>1. CASE m.last
    BY <1>13, <2>1 DEF Pipe, Receives, NoTransfer
  <2>2. CASE ~m.last
    <3>1. Count(d)' = k + 1
      BY <1>10, <1>13, <2>2 DEF Count
    <3>2. Stream(ToCome(d), f, Count(d), n)'
      BY <1>7, <3>1 DEF Stream, BlockOf
    <3> QED BY <1>6, <1>21, <3>2 DEF Pipe
  <2> QED BY <2>1, <2>2
<1> QED BY <1>0, <1>4, <1>5, <1>14, <1>15, <1>16, <1>19, <1>20, <1>21, OneDisturbedOf

\* sendFileData(): the sender's next block is put behind those on their way to whoever
\* accepted, and none is lost as long as there is room for it.
LEMMA PassesFileOn ==
  ASSUME SystemInv, StrangerInv, TransferInv, FileInv, QueuesHaveRoom,
         UNCHANGED <<clientVars, requested>>, NEW c \in Clients, ReceiveFileData(c)
  PROVE  FileInv'
<1> DEFINE m == Incoming(c)
<1>0. /\ RequestInv /\ HandlerStep(c) /\ Reads(c, "FILE_DATA") /\ MessengerInv
      /\ sendingQueue \in [Clients -> Seq(Messages)] /\ pc \in [Clients -> Steps] /\ TypeOK
      /\ UNCHANGED <<transfer, disk, chatHistory, task, request>>
  BY DEF TransferInv, HandlerStep, ReceiveFileData, SystemInv, MessengerInv, TypeInv, TypeOK,
         clientVars
<1>1. /\ sendingQueue' = Sent(Peers(c) \cap Accepting, m)
      /\ UNCHANGED <<fileTransferStatus, toClient>>
      /\ pc'[c] \in {"poll", "resetting"}
      /\ \A e \in Clients \ {c} : pc'[e] = pc[e] /\ hand'[e] = hand[e]
      /\ \A e \in Clients : Served(e)' = Served(e) /\ Current(e)' = Current(e)
  <2>1. /\ sendingQueue' = Sent(Peers(c) \cap Accepting, m)
        /\ UNCHANGED <<fileTransferStatus, toClient>> /\ pc[c] = "poll"
        /\ pc' = [pc EXCEPT ![c] = "resetting"] \/ UNCHANGED pc
    BY DEF ReceiveFileData, GoesOn, NetworkIdle, Reads, CanRead
  <2> QED BY <1>0, <2>1, HandlersOwn
<1>2. /\ m \in Messages /\ m.type = "FILE_DATA" /\ Goes(c, "FILE_DATA")
      /\ Outgoing(c) # <<>> /\ Head(Outgoing(c)) = m /\ Outgoing(c)' = Tail(Outgoing(c))
      /\ \A e \in Clients \ {c} : Outgoing(e)' = Outgoing(e)
      /\ Outgoing(c) \in Seq(Messages)
  <2>1. m \in Messages /\ Goes(c, "FILE_DATA")
    BY <1>0, HandlersTake DEF TransferInv, TidyInv
  <2> QED BY <1>0, <2>1, ReadsLines, LinesType
<1> HIDE DEF m
<1>3. PICK f \in Files : <<c, f>> \in requested
  BY <1>0, <1>2 DEF RequestInv, RequestFits, Owner
<1>4. ASSUME NEW e \in Clients
      PROVE  /\ ToCome(e)' = ToCome(e) \/ ToCome(e)' = Append(ToCome(e), m)
             /\ e # c /\ Receives(e) /\ fileTransferStatus[e] = "AcceptFileTransfer"
                  => ToCome(e)' = Append(ToCome(e), m)
             /\ ToCome(e) \in Seq(Messages)
  <2>1. CASE e \notin Peers(c) \cap Accepting
    <3>1. ToCome(e)' = ToCome(e)
      BY <1>1, <2>1 DEF Sent, ToCome
    <3>2. e # c /\ Receives(e) => e \in sessions
      BY DEF StrangerInv, StrangeFits, Stranger, Receives
    <3> QED BY <1>0, <2>1, <3>1, <3>2, LinesType DEF Peers, Accepting
  <2>2. CASE e \in Peers(c) \cap Accepting
    <3>1. sendingQueue'[e] = Push(sendingQueue[e], m) /\ CanSend(sendingQueue[e])
      BY <1>1, <2>2 DEF Sent, QueuesHaveRoom
    <3> QED BY <1>0, <1>1, <1>2, <3>1, PushedLine, LinesType
  <2> QED BY <2>1, <2>2
<1>5. ASSUME NEW e \in Clients PROVE HasWhole(e)' /\ RestFits(e)' /\ RowsWhole(e)'
  <2>1. HasWhole(e) /\ RestFits(e) /\ RowsWhole(e)
    BY DEF FileInv
  <2> QED BY <1>0, <2>1 DEF HasWhole, RestFits, RowsWhole, Owner
<1>6. SourceFits(c, f)'
  BY <1>0, <1>3 DEF FileInv, SourceFits
<1>7. ASSUME NEW d \in Clients PROVE RequestIs(d, f)'
  <2>0. RequestIs(d, f)
    BY <1>3 DEF FileInv
  <2>1. Served(d) => AsksFor(Outgoing(d)', f)
    BY <1>2, <2>0, AsksShorter DEF RequestIs
  <2>2. Current(d) => AsksFor(ToCome(d)', f)
    BY <1>2, <1>4, <2>0, AsksLonger DEF RequestIs
  <2>3. pc'[d] = "requesting" => pc[d] = "requesting" /\ hand'[d] = hand[d]
    BY <1>1
  <2> QED BY <1>0, <1>1, <2>0, <2>1, <2>2, <2>3 DEF RequestIs, AsksFor
<1>8. ASSUME NEW n \in Nat, Sends(c, f, n)
      PROVE  m = BlockOf(f, n) /\ Sends(c, f, n + 1)'
  <2>1. PICK k \in Nat : /\ Stream(Outgoing(c), f, n, k)
                         /\ transfer[c].isSendingFile => k = transfer[c].offset
    BY <1>2, <1>8 DEF Sends, Goes
  <2>2. m = BlockOf(f, n) /\ Stream(Outgoing(c)', f, n + 1, k)
    BY <1>2, <2>1, StreamShorter
  <2> QED BY <1>0, <2>1, <2>2 DEF Sends
<1>9. ASSUME NEW d \in Clients \ {c} PROVE ReceiverFits(d, f)' /\ Pipe(c, d, f)'
  <2>0. ReceiverFits(d, f) /\ Pipe(c, d, f)
    BY <1>3 DEF FileInv
  <2>1. /\ Receives(d)' = Receives(d) /\ Count(d)' = Count(d) /\ Count(d) \in Nat
    <3>1. transfer[d].handle.pos \in Nat
      BY <1>0 DEF MessengerInv, ClientTypeOK, Transfers, Handles
    <3> QED BY <1>0, <1>1, <3>1 DEF Receives, Count
  <2>2. Asked(d)' => Asked(d)
    <3>1. Has(ToCome(d)', "FILE_REQUEST") => Has(ToCome(d), "FILE_REQUEST")
      <4>1. ToCome(d) \in Seq(Messages) /\ m \in Messages /\ m.type # "FILE_REQUEST"
        BY <1>2, <1>4
      <4>2. Has(Append(ToCome(d), m), "FILE_REQUEST") => Has(ToCome(d), "FILE_REQUEST")
        BY <4>1, LongerLine
      <4> QED BY <1>4, <4>2
    <3> QED BY <1>0, <1>1, <3>1 DEF Asked
  <2>3. ReceiverFits(d, f)'
    BY <1>0, <1>1, <2>0, <2>1, <2>2 DEF ReceiverFits
  <2>4. ASSUME Receives(d), fileTransferStatus[d] = "AcceptFileTransfer"
        PROVE  \E n \in Nat : Stream(ToCome(d), f, Count(d), n)' /\ Sends(c, f, n)'
    <3>1. PICK n \in Nat : Stream(ToCome(d), f, Count(d), n) /\ Sends(c, f, n)
      BY <2>0, <2>4 DEF Pipe
    <3>2. Stream(ToCome(d)', f, Count(d), n + 1)
      BY <1>2, <1>4, <1>8, <2>1, <2>4, <3>1, StreamLonger
    <3>3. Stream(ToCome(d), f, Count(d), n + 1)'
      BY <2>1, <3>2 DEF Stream, BlockOf
    <3> QED BY <1>8, <3>1, <3>3
  <2> QED BY <1>1, <2>1, <2>3, <2>4 DEF Pipe
<1>10. \A e \in Clients, g \in Files : <<e, g>> \in requested => e = c /\ g = f
  BY <1>3 DEF FileInv, OneRequested
<1>11. OneRequested'
  BY DEF FileInv, OneRequested
<1> QED BY <1>5, <1>6, <1>7, <1>9, <1>10, <1>11 DEF FileInv

-----------------------------------------------------------------------------
(* What is received.                                                       *)

\* The request is made: nobody has begun anything.
LEMMA RequestIsMade ==
  ASSUME SystemInv, TransferInv, FileInv, NEW c \in Clients, NEW f \in Files, RequestsFile(c, f)
  PROVE  FileInv'
<1> DEFINE m == FileRequest(Anyone, f)
           t == transfer[c]
<1>0. /\ RequestInv /\ MessengerInv /\ UNCHANGED serverVars
      /\ UNCHANGED <<fileTransferStatus, pc, hand>> /\ ClientRuns(c)
      /\ requested = {} /\ requested' = {<<c, f>>} /\ transfer \in [Clients -> Transfers]
      /\ t \in Transfers
      /\ UNCHANGED <<networkVars, clientStatus, task, request, disk, chatHistory>> /\ Queues(c, m)
      /\ SetTransfer(c, [t EXCEPT !.isSendingFile = TRUE, !.fileName = f])
  BY DEF TransferInv, SystemInv, MessengerInv, ClientTypeOK, RequestsFile, SendsFile,
         serverVars, sessionVars
<1>1. m \in Messages /\ m.type = "FILE_REQUEST" /\ m.file = f
  BY ClientMessages, MessageTypes DEF FileRequest
<1> HIDE DEF m
<1>2. \A e \in Clients : UntouchedBy(e) /\ ~Owner(e) /\ RequestFits(e)
  BY <1>0 DEF RequestInv, Untouched
<1>3. /\ Outgoing(c)' = Outgoing(c) \/ Outgoing(c)' = Append(Outgoing(c), m)
      /\ \A e \in Clients \ {c} : Outgoing(e)' = Outgoing(e)
      /\ \A e \in Clients : ToCome(e)' = ToCome(e) /\ serverEnd'[e] = serverEnd[e]
      /\ Outgoing(c) \in Seq(Messages)
  BY <1>0, <1>1, QueuesLines, LinesType DEF networkVars
<1>4. \A e \in Clients : Current(e)' = Current(e) /\ Served(e)' = Served(e)
  BY <1>0, <1>3 DEF Current, Served
<1>5. /\ ~t.isSendingFile /\ ~t.isReceivingFile /\ t.offset = 0 /\ t.handle.mode = "closed"
  <2>1. ~t.isSendingFile /\ ~t.isReceivingFile
    BY <1>0, <1>2 DEF RequestFits, UntouchedBy, ClientRuns, Current
  <2> QED BY <2>1 DEF FileInv, RestFits
<1>6. /\ \A e \in Clients \ {c} : transfer'[e] = transfer[e]
      /\ transfer'[c].isSendingFile /\ transfer'[c].fileName = f
      /\ ~transfer'[c].isReceivingFile
      /\ transfer'[c].offset = 0 /\ transfer'[c].handle.mode = "closed"
  <2>1. transfer' = [transfer EXCEPT ![c] = [t EXCEPT !.isSendingFile = TRUE, !.fileName = f]]
    BY <1>0 DEF SetTransfer
  <2>2. /\ \A e \in Clients \ {c} : transfer'[e] = transfer[e]
        /\ transfer'[c] = [t EXCEPT !.isSendingFile = TRUE, !.fileName = f]
    BY <1>0, <2>1
  <2> QED BY <1>0, <1>5, <2>2 DEF Transfers
<1>7. ASSUME NEW e \in Clients PROVE HasWhole(e)' /\ RestFits(e)' /\ RowsWhole(e)'
  <2>1. HasWhole(e) /\ RestFits(e) /\ RowsWhole(e)
    BY DEF FileInv
  <2>2. HasWhole(e)'
    BY <1>0, <2>1 DEF HasWhole
  <2>3. RestFits(e)'
    BY <1>6, <2>1 DEF RestFits
  <2> QED BY <1>0, <2>1, <2>2, <2>3 DEF RowsWhole
<1>8. SourceFits(c, f)'
  BY <1>6, FilesAssumption DEF SourceFits
<1>9. ASSUME NEW d \in Clients PROVE RequestIs(d, f)'
  <2>1. Served(d) => ~Has(Outgoing(d), "FILE_REQUEST")
    BY <1>2 DEF RequestFits, Goes, Owner, UntouchedBy
  <2>2. Served(d) => AsksFor(Outgoing(d)', f)
    <3>1. ASSUME Served(d) PROVE AsksFor(Outgoing(d)', f)
      <4>1. AsksFor(Outgoing(d), f)
        BY <2>1, <3>1, AsksNone
      <4>2. d = c => AsksFor(Append(Outgoing(c), m), f)
        BY <1>1, <1>3, <4>1, AsksLonger
      <4> QED BY <1>3, <4>1, <4>2
    <3> QED BY <3>1
  <2>3. Current(d) => ~Has(ToCome(d)', "FILE_REQUEST")
    BY <1>2, <1>3 DEF UntouchedBy, Comes
  <2>4. Current(d) => AsksFor(ToCome(d)', f) /\ task'[d] # "asking"
    BY <1>0, <1>2, <2>3, AsksNone DEF UntouchedBy
  <2>5. pc'[d] # "requesting"
    BY <1>0, <1>2 DEF RequestFits
  <2> QED BY <1>4, <2>2, <2>4, <2>5 DEF RequestIs, AsksFor
<1>10. ASSUME NEW d \in Clients \ {c} PROVE ReceiverFits(d, f)' /\ Pipe(c, d, f)'
  <2>1. ~Receives(d)'
    BY <1>2, <1>4, <1>6 DEF UntouchedBy, Receives
  <2> QED BY <2>1 DEF ReceiverFits, Pipe
<1>11. \A e \in Clients, g \in Files : <<e, g>> \in requested' => e = c /\ g = f
  BY <1>0
<1>12. OneRequested'
  BY <1>0 DEF OneRequested
<1> QED BY <1>7, <1>8, <1>9, <1>10, <1>11, <1>12 DEF FileInv

\* At the start nothing has been asked for, and the files there are are whole ...
LEMMA FileInit == OneRequestInit => FileInv
<1> SUFFICES ASSUME OneRequestInit PROVE FileInv
  OBVIOUS
<1>1. requested = {}
  BY DEF OneRequestInit
<1>2. ASSUME NEW c \in Clients PROVE HasWhole(c) /\ RestFits(c) /\ RowsWhole(c)
  <2>1. /\ transfer[c] = NoTransfer /\ chatHistory[c] = <<>>
        /\ disk[c] = [f \in Files |-> IF f \in Owned[c] THEN Whole(f) ELSE Absent]
    BY DEF OneRequestInit, MessengerInit, ClientInit
  <2> QED BY <2>1 DEF HasWhole, RestFits, RowsWhole, NoTransfer, NoHandle
<1> QED BY <1>1, <1>2 DEF FileInv, OneRequested

LEMMA ServerKeepsFile ==
  ASSUME SystemInv, LoginInv, StrangerInv, TransferInv, FileInv, QueuesHaveRoom,
         ServerStep, UNCHANGED <<clientVars, requested>>
  PROVE  FileInv'
<1>1. CASE Register
  <2>1. listener \in Clients
    BY <1>1 DEF Register, SystemInv, MessengerInv, TypeInv, TypeOK
  <2> QED BY <1>1, <2>1, ServerAside
<1>2. ASSUME NEW c \in Clients, Accept(c) \/ SessionStep(c)
      PROVE  FileInv'
  <2>1. CASE \/ Accept(c) \/ Write(c) \/ WriteInVain(c)
             \/ ReceiveUnknown(c) \/ WriteAfterReset(c) \/ Hangup(c)
    BY <2>1, ServerAside
  <2>2. CASE \/ ReceiveHello(c) \/ ReceiveBye(c) \/ ReceiveNickname(c) \/ Rename(c)
             \/ ReceiveChat(c) \/ ReceiveStatus(c) \/ ScanAnswers(c) \/ FlagSender(c)
             \/ AcceptOwnTransfer(c) \/ ResetStatus(c)
    BY <2>2, HandlersAside
  <2>3. CASE ReceiveFileRequest(c) \/ AnnounceTransfer(c)
    BY <2>3, RequestReachesServer, RequestIsAnnounced
  <2>4. CASE SaveAnswer(c) \/ ReceiveFileData(c)
    BY <2>4, AnswerReachesServer, PassesFileOn
  <2> QED BY <1>2, <2>1, <2>2, <2>3, <2>4, NobodyLeaves DEF SessionStep
<1> QED BY <1>1, <1>2 DEF ServerStep

\* ... and every step keeps to it, as long as there is room for what is sent.
LEMMA FileStep ==
  ASSUME SystemInv, LoginInv, StrangerInv, TransferInv, FileInv, QueuesHaveRoom,
         [OneRequestNext]_oneRequestVars
  PROVE  FileInv'
<1>1. CASE UNCHANGED oneRequestVars
  <2>1. UNCHANGED <<serverVars, requested, transfer, disk, request, networkVars, clientQueue,
                    clientStatus, chatHistory, task>>
    BY <1>1 DEF oneRequestVars, messengerVars, vars, clientVars
  <2> QED BY <2>1, RestingAside DEF SystemInv
<1>2. CASE \E c \in Clients, file \in Files : RequestsFile(c, file)
  BY <1>2, RequestIsMade
<1>3. CASE ServerStep /\ UNCHANGED <<clientVars, requested>>
  BY <1>3, ServerKeepsFile
<1>4. ASSUME NEW c \in Clients, ClientProgram(c), UNCHANGED <<serverVars, requested>>,
             ~SomeSendsFile
      PROVE  FileInv'
  <2>1. \A file \in Files : ~SendsFile(c, file)
    BY <1>4 DEF SomeSendsFile
  <2>2. CASE \/ ClientConnects(c) \/ TakesNickname(c) \/ TakesChat(c) \/ TakesBye(c)
             \/ ClientWrites(c) \/ ClientWritesInVain(c) \/ ClientEnds(c)
             \/ TypesText(c) \/ \E name \in TypedNames : TypesNickname(c, name)
             \/ OpensDialog(c) \/ ClosesDialog(c) \/ Quits(c)
    BY <1>4, <2>2, ClientsAside
  <2>3. CASE TakesStatus(c) \/ TakesFileRequest(c)
    BY <1>4, <2>3, VerdictReachesSender, RequestReachesClient
  <2>4. CASE UserAnswers(c)
    BY <1>4, <2>4, UserAnswersFile
  <2>5. CASE TakesFileData(c)
    BY <1>4, <2>5, SavesFile
  <2>6. CASE Cycle(c)
    BY <1>4, <2>6, CyclesFile
  <2> QED BY <1>4, <2>1, <2>2, <2>3, <2>4, <2>5, <2>6 DEF ClientProgram, NetworkThread
<1> QED BY <1>1, <1>2, <1>3, <1>4 DEF OneRequestNext, MessengerNext

\* Who shows a file as received has all of it, block for block, as its sender has it:
\* the server passes the blocks on in the order in which cycle() sends them, saveData()
\* puts each behind those that are there, and the last one, which makes the client show
\* the file, is the last of the file.  A full queue would drop one, and nobody would know.
THEOREM ReceivedFileIsWhole ==
  OneRequestSpec /\ []QueuesHaveRoom => []ReceivedFileComplete
<1>1. /\ SystemInv /\ LoginInv /\ StrangerInv /\ TransferInv /\ FileInv /\ QueuesHaveRoom
      /\ [OneRequestNext]_oneRequestVars
      => FileInv'
  BY FileStep
<1>2. FileInv => ReceivedFileComplete
  BY DEF FileInv, RowsWhole, ReceivedFileComplete
<1> QED BY <1>1, <1>2, FileInit, AlwaysTransfer, OneRequestIsMessenger, AlwaysLogin,
           AlwaysStranger, PTL DEF OneRequestSpec

-----------------------------------------------------------------------------
(* What a message of the server can be wrong about.                        *)

\* Who has been asked has not answered, as far as the server can know ...
Waits(c) == Current(c) /\ (Asked(c) \/ Goes(c, "STATUS"))

\* ... or its session has not looked yet whether that was the last answer.
Pending(c) == Asked(c) \/ Goes(c, "STATUS") \/ pc[c] \in {"answering", "scanning"}
Spent == \A c \in Clients : ~Pending(c)

\* The request has not been announced.
Requesting(c) == Goes(c, "FILE_REQUEST") \/ pc[c] = "requesting"

\* No connection ends but through a quitting user, who is not the sender.
AliveFits(c) ==
  /\ clientStatus[c] # "fatal"
  /\ ClientRuns(c) /\ Running => Served(c)
  /\ Owner(c) /\ Running => ClientRuns(c)

\* The sender is told to start, once, after the last of the answers, and nobody is
\* told anything else of a transfer: no answer comes after its end.
ToldFits(c) ==
  /\ OneStart(c)
  /\ ~Tells(c, "RejectFileTransfer") /\ ~Tells(c, "FileTransferCanceled")
  /\ Waits(c) => fileTransferModeActive
  /\ transfer[c].isSendingFile => transfer[c].fileName \in Files
  /\ MayStart(c) => Spent
  /\ Tells(c, "AcceptFileTransfer") => /\ transfer[c].isSendingFile
                                       /\ ~transfer[c].hasFileTransferStarted
  /\ Owner(c) /\ ~transfer[c].isSendingFile => Spent /\ ~Requesting(c)

AliveInv == \A c \in Clients : AliveFits(c)
ToldInv == \A c \in Clients : ToldFits(c)

\* The step brings nothing of that to c.
Unmoved(c) ==
  /\ Current(c)' => Current(c)
  /\ Pending(c)' => Pending(c)
  /\ Waits(c)' => Waits(c)
  /\ MayStart(c)' => MayStart(c)
  /\ Requesting(c)' => Requesting(c)
  /\ \A code \in Verdicts : Tells(c, code)' => Tells(c, code)
  /\ OneStart(c) => OneStart(c)'
  /\ transfer'[c] = transfer[c]

\* It does not if the step concerns no transfer of c ...
LEMMA QuietUnmoved ==
  ASSUME UNCHANGED requested, NEW c \in Clients, QuietFor(c)
  PROVE  Unmoved(c)
<1>1. /\ LessKnown(c) /\ InFewer(c) /\ transfer'[c] = transfer[c]
      /\ pc'[c] \in Deciding \cup {"requesting"} => pc'[c] = pc[c]
  BY QuietIsLess DEF QuietFor
<1>2. /\ Asked(c)' => Asked(c)
      /\ Goes(c, "STATUS")' => Goes(c, "STATUS")
      /\ Goes(c, "FILE_REQUEST")' => Goes(c, "FILE_REQUEST")
      /\ Current(c)' => Current(c)
      /\ MayStart(c)' => MayStart(c)
  BY <1>1 DEF LessKnown
<1>3. /\ Pending(c)' => Pending(c)
      /\ Waits(c)' => Waits(c)
      /\ Requesting(c)' => Requesting(c)
  BY <1>1, <1>2 DEF Pending, Waits, Requesting, Deciding
<1> QED BY <1>1, <1>2, <1>3 DEF Unmoved, InFewer

\* ... and then all stays as it is for c, as long as the server waits for answers.
LEMMA UnmovedFits ==
  ASSUME UNCHANGED requested, NEW c \in Clients, ToldFits(c), Unmoved(c),
         Spent => Spent', Waits(c)' => fileTransferModeActive'
  PROVE  ToldFits(c)'
<1>1. Owner(c)' <=> Owner(c)
  BY DEF Owner
<1>2. /\ ~Tells(c, "RejectFileTransfer")' /\ ~Tells(c, "FileTransferCanceled")'
      /\ Tells(c, "AcceptFileTransfer")' => Tells(c, "AcceptFileTransfer")
  BY DEF ToldFits, Unmoved, Verdicts, Answers
<1> QED BY <1>1, <1>2 DEF ToldFits, Unmoved

LEMMA SpentStays ==
  ASSUME \A e \in Clients : Pending(e)' => Pending(e), Spent PROVE Spent'
BY DEF Spent

\* So it is for everybody if one client at most, with its session, learns something.
LEMMA OneIsTold ==
  ASSUME ToldInv, UNCHANGED requested, NEW c \in Clients,
         \A e \in Clients \ {c} : Unmoved(e), Pending(c)' => Pending(c),
         fileTransferModeActive => fileTransferModeActive', ToldFits(c)'
  PROVE  ToldInv'
<1> SUFFICES ASSUME NEW e \in Clients \ {c} PROVE ToldFits(e)'
  BY DEF ToldInv
<1>1. Spent => Spent'
  BY SpentStays DEF Unmoved
<1>2. ToldFits(e) /\ (Waits(e)' => fileTransferModeActive')
  BY DEF ToldInv, ToldFits, Unmoved
<1> QED BY <1>1, <1>2, UnmovedFits

\* Or if nobody does.
LEMMA NobodyIsTold ==
  ASSUME ToldInv, UNCHANGED requested, \A e \in Clients : Unmoved(e),
         fileTransferModeActive => fileTransferModeActive'
  PROVE  ToldInv'
<1> SUFFICES ASSUME NEW e \in Clients PROVE ToldFits(e)'
  BY DEF ToldInv
<1>1. Spent => Spent'
  BY SpentStays DEF Unmoved
<1>2. ToldFits(e) /\ (Waits(e)' => fileTransferModeActive')
  BY DEF ToldInv, ToldFits, Unmoved
<1> QED BY <1>1, <1>2, UnmovedFits

LEMMA QuietTold ==
  ASSUME ToldInv, UNCHANGED requested, QuietStep PROVE ToldInv'
BY QuietUnmoved, NobodyIsTold DEF QuietStep

-----------------------------------------------------------------------------
(* What the server tells.                                                  *)

\* A handler that sends nothing.
LEMMA SilentHandler ==
  ASSUME SystemInv, ToldInv, UNCHANGED <<clientVars, requested, sendingQueue>>,
         NEW c \in Clients, HandlerStep(c),
         fileTransferModeActive => fileTransferModeActive',
         Goes(c, "STATUS")' => Goes(c, "STATUS"),
         Pending(c)' => Pending(c), Requesting(c)' => Requesting(c)
  PROVE  ToldInv'
<1>1. /\ InFewer(c) /\ Asked(c)' = Asked(c) /\ MayStart(c)' = MayStart(c)
      /\ \A e \in Clients \ {c} : QuietFor(e)
      /\ Current(c)' = Current(c) /\ transfer'[c] = transfer[c]
  BY HandlersOnlyOwn, HandlersOwn
<1>2. Unmoved(c)
  BY <1>1 DEF Unmoved, InFewer, Waits
<1>3. \A e \in Clients \ {c} : Unmoved(e)
  BY <1>1, QuietUnmoved
<1> QED BY <1>2, <1>3, NobodyIsTold

\* An answer comes while the transfer is active, and is dealt with step by step.
LEMMA StatusTold ==
  ASSUME SystemInv, TransferInv, ToldInv, UNCHANGED <<clientVars, requested>>,
         NEW c \in Clients, ReceiveStatus(c)
  PROVE  ToldInv'
<1>0. /\ HandlerStep(c) /\ Reads(c, "STATUS") /\ UNCHANGED fileTransferModeActive
      /\ ToldFits(c) /\ pc \in [Clients -> Steps]
      /\ sendingQueue \in [Clients -> Seq(Messages)]
  BY DEF HandlerStep, ReceiveStatus, TransferIdle, ToldInv, SystemInv, MessengerInv, TypeInv, TypeOK
<1>1. Goes(c, "STATUS") /\ OutFewer(c) /\ pc[c] = "poll" /\ Pending(c)
  BY <1>0, HandlersTake DEF Pending
<1>2. /\ Goes(c, "STATUS")' => Goes(c, "STATUS")
      /\ Goes(c, "FILE_REQUEST")' => Goes(c, "FILE_REQUEST")
  BY <1>1 DEF OutFewer, OutKinds
<1>3. pc'[c] # "requesting"
  BY <1>0, <1>1 DEF ReceiveStatus, GoesOn
<1>4. CASE UNCHANGED sendingQueue
  BY <1>0, <1>1, <1>2, <1>3, <1>4, SilentHandler DEF Requesting
<1>5. CASE ~(UNCHANGED sendingQueue)
  <2>1. /\ sendingQueue' = Reply(c, Status("FileTransferCanceled")) /\ UNCHANGED <<pc, hand>>
        /\ ~fileTransferModeActive
    BY <1>5 DEF ReceiveStatus
  <2>2. ~Current(c) /\ ~Current(c)' /\ transfer'[c] = transfer[c]
    BY <1>0, <1>1, <2>1, HandlersOwn DEF ToldFits, Waits
  <2>3. Unmoved(c)
    BY <1>1, <1>2, <1>3, <2>2 DEF Unmoved, Waits, Tells, OneStart, MayStart, Requesting
  <2>4. \A e \in Clients \ {c} : InFewer(e)
    BY <1>0, <2>1, HandlersTell DEF Reply
  <2>5. \A e \in Clients \ {c} : Unmoved(e)
    BY <1>0, <2>4, HandlersSpareOthers, QuietUnmoved
  <2> QED BY <1>0, <2>3, <2>5, NobodyIsTold
<1> QED BY <1>4, <1>5

LEMMA AnswerTold ==
  ASSUME SystemInv, ToldInv, UNCHANGED <<clientVars, requested>>,
         NEW c \in Clients, SaveAnswer(c)
  PROVE  ToldInv'
<1>1. /\ HandlerStep(c) /\ UNCHANGED <<toServer, sendingQueue, fileTransferModeActive>>
      /\ pc[c] = "answering" /\ pc'[c] = "scanning"
  BY DEF HandlerStep, SaveAnswer, GoesOn, SystemInv, MessengerInv, TypeInv, TypeOK
<1>2. \A type : Goes(c, type)' = Goes(c, type)
  BY <1>1, HandlersOwn DEF Goes, Outgoing, clientVars
<1>3. Pending(c) /\ (Requesting(c)' => Requesting(c))
  BY <1>1, <1>2 DEF Pending, Requesting
<1> QED BY <1>1, <1>2, <1>3, SilentHandler

\* The sender's session.
LEMMA SenderTold ==
  ASSUME SystemInv, ToldInv, UNCHANGED <<clientVars, requested>>,
         NEW c \in Clients, FlagSender(c) \/ AcceptOwnTransfer(c) \/ ResetStatus(c)
  PROVE  ToldInv'
<1>1. /\ HandlerStep(c) /\ UNCHANGED <<toServer, sendingQueue, fileTransferModeActive>>
      /\ pc'[c] \in {"accepting", "poll"}
  BY DEF HandlerStep, FlagSender, AcceptOwnTransfer, ResetStatus, Finishes, GoesOn, SystemInv,
         MessengerInv, TypeInv, TypeOK
<1>2. /\ \A type : Goes(c, type)' = Goes(c, type)
      /\ Asked(c)' = Asked(c)
  BY <1>1, HandlersOwn, HandlersOnlyOwn DEF Goes, Outgoing, clientVars
<1>3. (Pending(c)' => Pending(c)) /\ (Requesting(c)' => Requesting(c))
  BY <1>1, <1>2 DEF Pending, Requesting
<1> QED BY <1>1, <1>2, <1>3, SilentHandler

\* The request comes while no transfer is active.
LEMMA RequestTold ==
  ASSUME SystemInv, TransferInv, ToldInv, UNCHANGED <<clientVars, requested>>,
         NEW c \in Clients, ReceiveFileRequest(c)
  PROVE  ToldInv'
<1>0. /\ HandlerStep(c) /\ Reads(c, "FILE_REQUEST") /\ UNCHANGED fileTransferModeActive
      /\ RequestFits(c) /\ pc \in [Clients -> Steps]
  BY DEF HandlerStep, ReceiveFileRequest, TransferIdle, TransferInv, RequestInv, SystemInv,
         MessengerInv, TypeInv, TypeOK
<1>1. Goes(c, "FILE_REQUEST") /\ OutFewer(c)
  BY <1>0, HandlersTake
<1>2. ~fileTransferModeActive
  BY <1>0, <1>1 DEF RequestFits, Untouched
<1>3. UNCHANGED sendingQueue /\ pc'[c] = "requesting"
  BY <1>0, <1>2 DEF ReceiveFileRequest, GoesOn
<1>4. /\ Goes(c, "STATUS")' => Goes(c, "STATUS")
      /\ Asked(c)' = Asked(c)
  BY <1>0, <1>1, <1>3, HandlersOnlyOwn DEF OutFewer, OutKinds
<1>5. (Pending(c)' => Pending(c)) /\ Requesting(c)
  BY <1>1, <1>3, <1>4 DEF Pending, Requesting
<1> QED BY <1>0, <1>3, <1>4, <1>5, SilentHandler

\* It is announced: everybody else is asked, and the transfer is active.
LEMMA AnnouncedTold ==
  ASSUME SystemInv, TransferInv, ToldInv, UNCHANGED <<clientVars, requested>>,
         NEW c \in Clients, AnnounceTransfer(c)
  PROVE  ToldInv'
<1>0. /\ HandlerStep(c) /\ RequestInv /\ RequestFits(c) /\ MessengerInv /\ TypeOK
      /\ sendingQueue \in [Clients -> Seq(Messages)] /\ UNCHANGED toClient
      /\ pc[c] = "requesting"
  BY HandlersLeaveClients DEF HandlerStep, AnnounceTransfer, TransferInv, RequestInv, SystemInv,
                              MessengerInv, TypeInv, TypeOK
<1>1. CASE Alone(c)
  <2>1. /\ UNCHANGED toServer /\ TransferIdle /\ pc'[c] = "poll"
        /\ sendingQueue' = Reply(c, Status("ChattingAlone"))
    BY <1>0, <1>1 DEF AnnounceTransfer, TransferIdle, Finishes, GoesOn, TypeOK
  <2>2. \A e \in Clients : InFewer(e)
    BY <1>0, <2>1, HandlersTell, PlainMessages DEF Reply
  <2> QED BY <1>0, <2>1, <2>2, QuietHandler, QuietTold DEF Deciding
<1>2. CASE ~Alone(c)
  <2> DEFINE m == FileRequest(nickName[c], hand[c].file)
  <2>1. fileTransferModeActive' = TRUE /\ sendingQueue' = Sent(Peers(c), m)
    BY <1>2 DEF AnnounceTransfer
  <2>2. m \in Messages /\ m.type = "FILE_REQUEST"
    <3>1. hand[c].file \in Files /\ nickName[c] \in Names
      BY <1>0, MessageFields DEF SystemInv, MessengerInv, TypeInv, TypeOK, HandsFit
    <3> QED BY <3>1, MessageTypes DEF FileRequest
  <2> HIDE DEF m
  <2>3. Owner(c) /\ Untouched /\ transfer[c].isSendingFile
    BY <1>0 DEF RequestFits, ToldInv, ToldFits, Requesting
  <2> SUFFICES ASSUME NEW e \in Clients PROVE ToldFits(e)'
    BY DEF ToldInv
  <2>4. /\ ToldFits(e) /\ ~MayStart(e) /\ \A code \in Verdicts : ~Tells(e, code)
        /\ Owner(e)' => e = c
    BY <1>0, <2>3, NothingYet DEF ToldInv, Untouched, UntouchedBy, RequestInv, Owner
  <2>5. Current(e)' = Current(e) /\ transfer'[e] = transfer[e]
    BY <1>0, HandlersOwn
  <2>6. ToCome(e)' = ToCome(e) \/ ToCome(e)' = Append(ToCome(e), m)
    <3>1. sendingQueue'[e] = sendingQueue[e] \/ sendingQueue'[e] = Push(sendingQueue[e], m)
      BY <2>1 DEF Sent
    <3> QED BY <1>0, <2>2, <3>1, PushedLine DEF ToCome
  <2>7. /\ \A code : Gives(ToCome(e)', code) <=> Gives(ToCome(e), code)
        /\ StartsOnce(ToCome(e)) => StartsOnce(ToCome(e)')
    <3>1. CASE ToCome(e)' = ToCome(e)
      BY <3>1
    <3>2. CASE ToCome(e)' = Append(ToCome(e), m)
      <4>1. ToCome(e) \in Seq(Messages)
        BY <1>0, LinesType
      <4> QED BY <2>2, <3>2, <4>1, LongerLine DEF Starts
    <3> QED BY <2>6, <3>1, <3>2
  <2>8. /\ \A code \in Verdicts : ~Tells(e, code)'
        /\ ~MayStart(e)' /\ OneStart(e)'
    <3>1. \A code \in Verdicts : ~Tells(e, code)'
      BY <2>4, <2>5, <2>7 DEF Tells
    <3>2. OneStart(e)'
      BY <2>4, <2>5, <2>7 DEF OneStart, ToldFits
    <3> QED BY <2>4, <2>5, <3>1, <3>2 DEF MayStart, Verdicts, Answers
  <2> QED BY <2>1, <2>3, <2>4, <2>5, <2>8 DEF ToldFits, Verdicts, Answers
<1> QED BY <1>1, <1>2

\* A block is no word about the transfer.  The last one ends it, and nobody has been
\* asked since.
LEMMA BlockTold ==
  ASSUME SystemInv, TransferInv, ToldInv, UNCHANGED <<clientVars, requested>>,
         NEW c \in Clients, ReceiveFileData(c)
  PROVE  ToldInv'
<1> DEFINE m == Incoming(c)
<1>0. /\ HandlerStep(c) /\ Reads(c, "FILE_DATA") /\ MessengerInv /\ UNCHANGED toClient
      /\ sendingQueue \in [Clients -> Seq(Messages)] /\ pc \in [Clients -> Steps]
      /\ RequestFits(c) /\ AnswerFits(c) /\ VerdictFits(c)
  BY HandlersLeaveClients
     DEF HandlerStep, ReceiveFileData, SystemInv, MessengerInv, TypeInv, TypeOK, TransferInv,
         RequestInv, AnswerInv, VerdictInv
<1>1. /\ sendingQueue' = Sent(Peers(c) \cap Accepting, m)
      /\ pc'[c] \in {"poll", "resetting"}
  <2>1. /\ sendingQueue' = Sent(Peers(c) \cap Accepting, m) /\ pc[c] = "poll"
        /\ pc' = [pc EXCEPT ![c] = "resetting"] \/ UNCHANGED pc
    BY DEF ReceiveFileData, GoesOn, Reads, CanRead
  <2> QED BY <1>0, <2>1
<1>2. m \in Messages /\ m.type = "FILE_DATA" /\ Goes(c, "FILE_DATA") /\ OutFewer(c)
  BY <1>0, HandlersTake
<1> HIDE DEF m
<1>3. ASSUME NEW e \in Clients PROVE ~Waits(e)
  <2>1. Owner(c) /\ Decided(c)
    BY <1>0, <1>2 DEF RequestFits, Decided
  <2> QED BY <1>0, <2>1 DEF AnswerFits, VerdictFits, Waits
<1>4. ASSUME NEW e \in Clients
      PROVE  /\ Current(e)' = Current(e) /\ transfer'[e] = transfer[e]
             /\ Asked(e)' <=> Asked(e)
             /\ \A code : Tells(e, code)' <=> Tells(e, code)
             /\ OneStart(e) => OneStart(e)'
  <2>1. ToCome(e)' = ToCome(e) \/ ToCome(e)' = Append(ToCome(e), m)
    <3>1. sendingQueue'[e] = sendingQueue[e] \/ sendingQueue'[e] = Push(sendingQueue[e], m)
      BY <1>1 DEF Sent
    <3> QED BY <1>0, <1>2, <3>1, PushedLine DEF ToCome
  <2>2. /\ Has(ToCome(e)', "FILE_REQUEST") <=> Has(ToCome(e), "FILE_REQUEST")
        /\ \A code : Gives(ToCome(e)', code) <=> Gives(ToCome(e), code)
        /\ StartsOnce(ToCome(e)) => StartsOnce(ToCome(e)')
    <3>1. CASE ToCome(e)' = ToCome(e)
      BY <3>1
    <3>2. CASE ToCome(e)' = Append(ToCome(e), m)
      <4>1. ToCome(e) \in Seq(Messages)
        BY <1>0, LinesType
      <4> QED BY <1>2, <3>2, <4>1, LongerLine DEF Starts
    <3> QED BY <2>1, <3>1, <3>2
  <2>3. Current(e)' = Current(e) /\ transfer'[e] = transfer[e] /\ task'[e] = task[e]
    BY <1>0, HandlersOwn
  <2> QED BY <2>2, <2>3 DEF Asked, Tells, OneStart
<1>5. ASSUME NEW e \in Clients PROVE Unmoved(e)
  <2>1. OutFewer(e) /\ (pc'[e] \in {"answering", "scanning", "requesting"} => pc'[e] = pc[e])
    <3>1. CASE e = c
      BY <1>1, <1>2, <3>1
    <3>2. CASE e # c
      BY <1>0, <3>2, HandlersOwn, OutLess
    <3> QED BY <3>1, <3>2
  <2>2. /\ Goes(e, "STATUS")' => Goes(e, "STATUS")
        /\ Goes(e, "FILE_REQUEST")' => Goes(e, "FILE_REQUEST")
    BY <2>1 DEF OutFewer, OutKinds
  <2> QED BY <1>4, <2>1, <2>2 DEF Unmoved, Pending, Waits, MayStart, Requesting
<1>6. Spent => Spent'
  BY <1>5, SpentStays DEF Unmoved
<1>7. \A e \in Clients : ~Waits(e)'
  BY <1>3, <1>5 DEF Unmoved
<1> QED BY <1>5, <1>6, <1>7, UnmovedFits DEF ToldInv

\* The answers are counted: that of the session itself was the last, and is the only
\* one that was not counted before.  So the sender has not been told yet, and what it
\* is told is to start, as its own session counts among those that accept.
LEMMA VerdictTold ==
  ASSUME SystemInv, StrangerInv, TransferInv, ToldInv, AnswersInTurn,
         UNCHANGED <<clientVars, requested>>,
         NEW c \in Clients, ScanAnswers(c), AllConfirmed(c), NEW p \in Clients, IsSender(c, p),
         sendingQueue' = Reply(p, Verdict(c))
  PROVE  ToldInv'
<1> DEFINE m == Verdict(c)
<1>0. /\ RequestInv /\ AnswerInv /\ RequestFits(p) /\ AnswerFits(p) /\ AnswerFits(c)
      /\ ToldFits(p) /\ HandlerStep(c) /\ MessengerInv /\ UNCHANGED toClient
      /\ c \in sessions
  BY HandlersLeaveClients, HandlersOwn
     DEF TransferInv, RequestInv, AnswerInv, HandlerStep, SystemInv, ToldInv
<1>1. /\ UNCHANGED <<toServer, fileTransferModeActive>>
      /\ pc[c] = "scanning" /\ pc'[c] = "poll"
      /\ sendingQueue \in [Clients -> Seq(Messages)]
  BY DEF ScanAnswers, ServerIdle, TransferIdle, Finishes, GoesOn, SystemInv, MessengerInv,
         TypeInv, TypeOK
<1>2. /\ p \in sessions /\ p # c /\ Owner(p)
      /\ \A e \in Clients : Owner(e) => e = p
  BY <1>0 DEF IsSender, Flagged, Peers, RequestFits, RequestInv
<1>3. m \in Messages /\ m.type = "STATUS" /\ m.code = "AcceptFileTransfer"
  <2>1. fileTransferStatus[p] = "AcceptFileTransfer"
    BY <1>0, <1>2 DEF AllConfirmed, Peers, AnswerFits, Verdicts, Answers
  <2>2. CanStart(c)
    BY <1>2, <2>1 DEF CanStart, Peers
  <2> QED BY <2>2, MessageTypes DEF Verdict, Status, StatusCodes
<1> HIDE DEF m
<1>4. /\ ~Spent /\ \A e \in Clients : ~MayStart(e)
      /\ transfer[p].isSendingFile
  BY <1>0, <1>1, <1>2 DEF Spent, Pending, ToldInv, ToldFits
<1>5. ASSUME NEW e \in Clients
      PROVE  /\ Current(e)' = Current(e) /\ transfer'[e] = transfer[e] /\ task'[e] = task[e]
             /\ \A type : Goes(e, type)' = Goes(e, type)
             /\ e # c => pc'[e] = pc[e]
  <2>1. Outgoing(e)' = Outgoing(e)
    BY <1>1 DEF Outgoing, clientVars
  <2> QED BY <1>0, <2>1, HandlersOwn DEF Goes
<1>6. ASSUME NEW e \in Clients \ {p} PROVE Unmoved(e)
  <2>1. sendingQueue'[e] = sendingQueue[e]
    BY <1>1 DEF Reply
  <2>2. ToCome(e)' = ToCome(e)
    BY <1>0, <2>1 DEF ToCome
  <2>3. Asked(e)' = Asked(e) /\ (\A code : Tells(e, code)' = Tells(e, code))
        /\ OneStart(e)' = OneStart(e)
    BY <1>5, <2>2 DEF Asked, Tells, OneStart
  <2>4. pc'[e] = pc[e] \/ pc'[e] = "poll"
    BY <1>1, <1>5
  <2> QED BY <1>5, <2>3, <2>4 DEF Unmoved, Pending, Waits, MayStart, Requesting
<1>7. ToCome(p) \in Seq(Messages) /\ (ToCome(p)' = ToCome(p) \/ ToCome(p)' = Append(ToCome(p), m))
  <2>1. sendingQueue'[p] = Push(sendingQueue[p], m)
    BY <1>1 DEF Reply, m
  <2> QED BY <1>0, <1>3, <2>1, PushedLine, LinesType
<1>8. /\ Has(ToCome(p)', "FILE_REQUEST") => Has(ToCome(p), "FILE_REQUEST")
      /\ \A code : code # "AcceptFileTransfer"
                     => (Gives(ToCome(p)', code) => Gives(ToCome(p), code))
      /\ StartsOnce(ToCome(p)) /\ ~Gives(ToCome(p), "AcceptFileTransfer")
           => StartsOnce(ToCome(p)')
  <2>1. CASE ToCome(p)' = ToCome(p)
    BY <2>1
  <2>2. CASE ToCome(p)' = Append(ToCome(p), m)
    BY <1>3, <1>7, <2>2, LongerLine
  <2> QED BY <1>7, <2>1, <2>2
<1>9. ASSUME NEW d \in Clients
      PROVE  ~Asked(d) /\ ~Goes(d, "STATUS") /\ (d # c => ~Pending(d))
  <2>1. CASE d = p
    BY <1>0, <1>2, <2>1 DEF AnswerFits, Pending
  <2>2. CASE d = c
    BY <1>0, <1>1, <1>2, <2>2 DEF AnswerFits
  <2>3. CASE d \in sessions \ {c, p}
    <3>1. fileTransferStatus[d] \in Answers /\ ~Owner(d)
      BY <1>0, <1>2, <2>3 DEF AllConfirmed, Peers, AnswerInv, AnswerFits, Verdicts
    <3>2. pc[d] # "scanning"
      BY <1>1, <2>3 DEF AnswersInTurn
    <3> QED BY <1>0, <3>1, <3>2 DEF AnswerInv, AnswerFits, Pending
  <2>4. CASE d \notin sessions
    <3>1. ~Asked(d) /\ ~Goes(d, "STATUS")
      <4>1. CASE Stranger(d)
        BY <4>1, EmptyLine DEF StrangerInv, StrangeFits, Asked
      <4>2. CASE ~Stranger(d)
        BY <2>4, <4>2 DEF Stranger, Asked, Goes
      <4> QED BY <4>1, <4>2
    <3>2. pc[d] \notin {"answering", "scanning"}
      BY <2>4 DEF SystemInv, IInv, ThreadsInv, HandlersRegistered
    <3> QED BY <3>1, <3>2 DEF Pending
  <2> QED BY <2>1, <2>2, <2>3, <2>4
<1>10. Spent'
  <2> SUFFICES ASSUME NEW d \in Clients PROVE ~Pending(d)'
    BY DEF Spent
  <2>1. CASE d = p
    <3>1. Asked(p)' => Asked(p)
      BY <1>5, <1>8 DEF Asked
    <3> QED BY <1>2, <1>5, <1>9, <2>1, <3>1 DEF Pending
  <2>2. CASE d = c
    <3>1. ToCome(c)' = ToCome(c)
      BY <1>0, <1>1, <1>2 DEF Reply, ToCome
    <3>2. Asked(c)' = Asked(c)
      BY <1>5, <3>1 DEF Asked
    <3> QED BY <1>1, <1>5, <1>9, <2>2, <3>2 DEF Pending
  <2>3. CASE d \notin {p, c}
    BY <1>6, <1>9, <2>3 DEF Unmoved
  <2> QED BY <2>1, <2>2, <2>3
<1>11. ToldFits(p)'
  <2>1. ~Tells(p, "AcceptFileTransfer") /\ ~transfer[p].hasFileTransferStarted
    BY <1>4 DEF MayStart
  <2>2. OneStart(p)'
    BY <1>0, <1>5, <1>8, <2>1 DEF OneStart, Tells, ToldFits
  <2>3. ~Tells(p, "RejectFileTransfer")' /\ ~Tells(p, "FileTransferCanceled")'
    BY <1>0, <1>5, <1>8 DEF Tells, ToldFits
  <2>4. ~Waits(p)'
    BY <1>10 DEF Spent, Pending, Waits
  <2> QED BY <1>0, <1>4, <1>5, <1>10, <2>1, <2>2, <2>3, <2>4 DEF ToldFits
<1>12. ASSUME NEW e \in Clients \ {p} PROVE ToldFits(e)'
  <2>1. ~Waits(e)'
    BY <1>10 DEF Spent, Pending, Waits
  <2>2. ToldFits(e)
    BY DEF ToldInv
  <2> QED BY <1>6, <1>10, <1>12, <2>1, <2>2, UnmovedFits
<1> QED BY <1>11, <1>12 DEF ToldInv

LEMMA ScanTold ==
  ASSUME SystemInv, StrangerInv, TransferInv, ToldInv, AnswersInTurn,
         UNCHANGED <<clientVars, requested>>, NEW c \in Clients, ScanAnswers(c)
  PROVE  ToldInv'
<1>1. CASE ~Alone(c) /\ AllConfirmed(c) /\ Flagged(c) # {}
  BY <1>1, VerdictTold DEF ScanAnswers
<1>2. CASE ~(~Alone(c) /\ AllConfirmed(c) /\ Flagged(c) # {})
  <2>1. /\ UNCHANGED <<toServer, sendingQueue>> /\ TransferIdle /\ HandlerStep(c)
        /\ pc'[c] = "poll"
    BY <1>2 DEF ScanAnswers, HandlerStep, Finishes, GoesOn, SystemInv, MessengerInv, TypeInv, TypeOK
  <2> QED BY <2>1, HandlersOnlyOwn, QuietHandler, QuietTold DEF Deciding
<1> QED BY <1>1, <1>2

\* A session is registered or ends: only that of the sender would take the transfer
\* along, and the sender does not leave.
LEMMA SessionsTold ==
  ASSUME SystemInv, TransferInv, AliveInv, ToldInv, UNCHANGED <<clientVars, requested>>,
         Register \/ \E c \in sessions : Hangup(c)
  PROVE  ToldInv'
<1>1. CASE Register
  <2>1. \A e \in Clients : Unmoved(e)
    BY <1>1, RegisterQuiet, QuietUnmoved
  <2> QED BY <1>1, <2>1, NobodyIsTold DEF Register
<1>2. ASSUME NEW c \in sessions, Hangup(c) PROVE ToldInv'
  <2>1. \A e \in Clients : Unmoved(e)
    BY <1>2, HangupQuiet, QuietUnmoved
  <2>2. /\ fileTransferModeActive' = (fileTransferModeActive /\ ~isFileTransferSender[c])
        /\ clientEnd[c] \in Gone /\ Running /\ c \in Clients
    BY <1>2 DEF Hangup, RemoveSession, SystemInv, MessengerInv, TypeInv, TypeOK
  <2>3. ~isFileTransferSender[c]
    <3>1. ~ClientRuns(c)
      BY <2>2 DEF SystemInv, MessengerInv, EndsFit, Gone
    <3> QED BY <2>2, <3>1 DEF AliveInv, AliveFits, TransferInv, RequestInv, RequestFits
  <2> QED BY <2>1, <2>2, <2>3, NobodyIsTold
<1> QED BY <1>1, <1>2

LEMMA ServerTold ==
  ASSUME SystemInv, LoginInv, StrangerInv, TransferInv, AliveInv, ToldInv, AnswersInTurn,
         UNCHANGED <<clientVars, requested>>, ServerStep
  PROVE  ToldInv'
<1>1. CASE Register
  BY <1>1, SessionsTold
<1>2. ASSUME NEW c \in Clients, Accept(c) \/ SessionStep(c)
      PROVE  ToldInv'
  <2>1. CASE \/ Accept(c) \/ Write(c) \/ WriteInVain(c)
             \/ ReceiveUnknown(c) \/ WriteAfterReset(c)
             \/ c \notin sessions /\ Hangup(c)
    BY <2>1, PlainServerSteps, QuietTold
  <2>2. CASE \/ ReceiveHello(c) \/ ReceiveBye(c) \/ ReceiveNickname(c) \/ Rename(c)
             \/ ReceiveChat(c)
    BY <2>2, TalkHandlers, QuietTold
  <2>3. CASE ReceiveStatus(c) \/ SaveAnswer(c) \/ ScanAnswers(c)
    BY <2>3, StatusTold, AnswerTold, ScanTold
  <2>4. CASE ReceiveFileRequest(c) \/ AnnounceTransfer(c)
    BY <2>4, RequestTold, AnnouncedTold
  <2>5. CASE FlagSender(c) \/ AcceptOwnTransfer(c) \/ ResetStatus(c)
    BY <2>5, SenderTold
  <2>6. CASE ReceiveFileData(c)
    BY <2>6, BlockTold
  <2>7. CASE c \in sessions /\ Hangup(c)
    BY <2>7, SessionsTold
  <2> QED BY <1>2, <2>1, <2>2, <2>3, <2>4, <2>5, <2>6, <2>7, NobodyLeaves DEF SessionStep
<1> QED BY <1>1, <1>2 DEF ServerStep

-----------------------------------------------------------------------------
(* What the clients make of it.                                            *)

\* A step of a client that keeps its transfer, and says nothing of one.
LEMMA OneClientTold ==
  ASSUME SystemInv, ToldInv, UNCHANGED <<serverVars, requested>>, NEW c \in Clients,
         ClientProgram(c),
         \A e \in Clients \ {c} : Outgoing(e)' = Outgoing(e) /\ ToCome(e)' = ToCome(e)
                                  /\ serverEnd'[e] = serverEnd[e],
         Pending(c)' => Pending(c), ToldFits(c)'
  PROVE  ToldInv'
<1>1. MessengerInv /\ UNCHANGED fileTransferModeActive
  BY DEF SystemInv, serverVars
<1>2. \A e \in Clients \ {c} : QuietFor(e)
  BY <1>1, ClientsOwn, ClientsOnlyOwn
<1>3. \A e \in Clients \ {c} : Unmoved(e)
  BY <1>2, QuietUnmoved
<1> QED BY <1>1, <1>3, OneIsTold

\* STATUS: the sender starts, or it is about something else.
LEMMA StatusIsFit ==
  ASSUME SystemInv, ToldInv, UNCHANGED serverVars, NEW c \in Clients, TakesStatus(c)
  PROVE  /\ UNCHANGED <<clientStatus, clientEnd>>
         /\ \E w \in {"read", "poll"} : task' = [task EXCEPT ![c] = w]
         /\ \/ UNCHANGED transfer
            \/ /\ Starts(Received(c)) /\ Tells(c, "AcceptFileTransfer")
               /\ SetTransfer(c, [transfer[c] EXCEPT !.hasFileTransferStarted = TRUE])
<1> DEFINE m == Received(c)
           t == transfer[c]
<1>0. /\ MessengerInv /\ transfer \in [Clients -> Transfers] /\ ToldFits(c)
      /\ Takes(c, "STATUS") /\ UNCHANGED clientQueue
  BY DEF SystemInv, MessengerInv, ClientTypeOK, TakesStatus, ToldInv
<1>1. /\ ToCome(c) # <<>> /\ Head(ToCome(c)) = m /\ m.type = "STATUS" /\ Current(c)
      /\ ToCome(c) \in Seq(Messages)
  BY <1>0, TakesLines, LinesType
<1>2. Tells(c, m.code)
  BY <1>1, ShorterLine DEF Tells
<1>3. m.code \notin {"RejectFileTransfer", "FileTransferCanceled"}
  BY <1>0, <1>2 DEF ToldFits
<1>4. m.code = "AcceptFileTransfer" => t.isSendingFile /\ t.fileName # NoFile
  BY <1>0, <1>2, FilesAssumption DEF ToldFits
<1>5. CASE m.code = "AcceptFileTransfer"
  <2>1. /\ SetTransfer(c, [t EXCEPT !.hasFileTransferStarted = TRUE])
        /\ GoesTo(c, "read") /\ UNCHANGED <<clientStatus, clientEnd>>
    BY <1>4, <1>5 DEF TakesStatus
  <2> QED BY <1>1, <1>2, <1>5, <2>1 DEF GoesTo, Starts
<1>6. CASE m.code # "AcceptFileTransfer"
  <2>1. /\ SetTransfer(c, t) /\ GoesTo(c, "read") /\ UNCHANGED <<clientStatus, clientEnd>>
    BY <1>3, <1>6 DEF TakesStatus
  <2> QED BY <1>0, <2>1 DEF GoesTo, SetTransfer
<1> QED BY <1>5, <1>6

LEMMA StartTold ==
  ASSUME SystemInv, ToldInv, UNCHANGED <<serverVars, requested>>, NEW c \in Clients,
         TakesStatus(c)
  PROVE  ToldInv'
<1> DEFINE m == Received(c)
<1>0. /\ MessengerInv /\ ToldFits(c) /\ transfer \in [Clients -> Transfers]
      /\ task \in [Clients -> {"poll", "asking", "read", "wrote"}]
      /\ Takes(c, "STATUS") /\ UNCHANGED <<clientQueue, clientStatus, fileTransferModeActive, pc>>
      /\ \E w \in {"read", "poll"} : task' = [task EXCEPT ![c] = w]
      /\ ClientProgram(c)
  BY StatusIsFit DEF SystemInv, MessengerInv, ClientTypeOK, TakesStatus, ToldInv, serverVars,
                     sessionVars, ClientProgram, NetworkThread
<1>1. \A e \in Clients : task'[e] = "asking" => task[e] = "asking"
  BY <1>0
<1>2. CASE UNCHANGED transfer
  BY <1>0, <1>1, <1>2, PlainReading, QuietTold DEF Current
<1>3. CASE /\ Starts(m) /\ Tells(c, "AcceptFileTransfer")
           /\ SetTransfer(c, [transfer[c] EXCEPT !.hasFileTransferStarted = TRUE])
  <2>1. /\ ToCome(c) # <<>> /\ Head(ToCome(c)) = m /\ ToCome(c)' = Tail(ToCome(c)) /\ Current(c)
        /\ ToCome(c) \in Seq(Messages)
        /\ \A e \in Clients \ {c} : ToCome(e)' = ToCome(e)
        /\ \A e \in Clients : Outgoing(e)' = Outgoing(e) /\ serverEnd'[e] = serverEnd[e]
    BY <1>0, TakesLines, LinesType
  <2>2. /\ transfer'[c].isSendingFile = transfer[c].isSendingFile
        /\ transfer'[c].fileName = transfer[c].fileName
    BY <1>0, <1>3 DEF SetTransfer, Transfers
  <2>3. Current(c)' = Current(c) /\ Served(c)' = Served(c)
    BY <1>0, <2>1 DEF Current, Served
  <2>4. /\ \A type : Goes(c, type)' = Goes(c, type)
        /\ Has(ToCome(c)', "FILE_REQUEST") => Has(ToCome(c), "FILE_REQUEST")
        /\ \A code : Gives(ToCome(c)', code) => Gives(ToCome(c), code)
        /\ StartsOnce(ToCome(c)) => StartsOnce(ToCome(c)') /\ ~Gives(ToCome(c)', "AcceptFileTransfer")
    BY <1>3, <2>1, <2>3, ShorterLine DEF Goes
  <2>5. /\ Asked(c)' => Asked(c)
        /\ \A code : Tells(c, code)' => Tells(c, code)
        /\ OneStart(c)' /\ ~Tells(c, "AcceptFileTransfer")'
    BY <1>0, <1>1, <2>1, <2>3, <2>4 DEF Asked, Tells, OneStart, ToldFits
  <2>6. /\ Pending(c)' => Pending(c)
        /\ Waits(c)' => Waits(c)
    BY <1>0, <2>3, <2>4, <2>5 DEF Pending, Waits
  <2>7. Spent /\ transfer[c].isSendingFile
    BY <1>0, <1>3 DEF ToldFits, MayStart
  <2>8. Spent'
    <3>1. \A e \in Clients \ {c} : QuietFor(e)
      BY <1>0, <2>1, ClientsOwn, ClientsOnlyOwn
    <3>2. \A e \in Clients \ {c} : Unmoved(e)
      BY <3>1, QuietUnmoved
    <3> QED BY <2>6, <2>7, <3>2, SpentStays DEF Unmoved
  <2>9. ToldFits(c)'
    BY <1>0, <2>2, <2>5, <2>6, <2>7, <2>8 DEF ToldFits
  <2> QED BY <1>0, <2>1, <2>6, <2>9, OneClientTold
<1> QED BY <1>2, <1>3, StatusIsFit

\* FILE_REQUEST.
LEMMA QuestionTold ==
  ASSUME SystemInv, ToldInv, UNCHANGED <<serverVars, requested>>, NEW c \in Clients,
         TakesFileRequest(c)
  PROVE  ToldInv'
<1>0. /\ MessengerInv /\ ClientProgram(c) /\ Takes(c, "FILE_REQUEST")
      /\ UNCHANGED <<clientStatus, clientQueue, transfer, fileTransferModeActive, pc>>
      /\ ToldFits(c)
  BY DEF SystemInv, ClientProgram, NetworkThread, TakesFileRequest, serverVars, sessionVars, ToldInv
<1>1. /\ ToCome(c) # <<>> /\ Head(ToCome(c)) = Received(c) /\ Received(c).type = "FILE_REQUEST"
      /\ ToCome(c)' = Tail(ToCome(c)) /\ Current(c) /\ ToCome(c) \in Seq(Messages)
      /\ \A e \in Clients \ {c} : ToCome(e)' = ToCome(e)
      /\ \A e \in Clients : Outgoing(e)' = Outgoing(e) /\ serverEnd'[e] = serverEnd[e]
  BY <1>0, TakesLines, LinesType
<1>2. Asked(c) /\ Current(c)' = Current(c) /\ Served(c)' = Served(c)
  BY <1>0, <1>1, ShorterLine DEF Asked, Current, Served
<1>3. InFewer(c) /\ \A type : Goes(c, type)' = Goes(c, type)
  BY <1>0, <1>1, <1>2, InLess DEF Goes
<1>4. \A e \in Clients \ {c} : QuietFor(e)
  BY <1>0, <1>1, ClientsOwn, ClientsOnlyOwn
<1>5. Unmoved(c)
  BY <1>0, <1>2, <1>3 DEF Unmoved, InFewer, Pending, Waits, MayStart, Requesting, Verdicts, Answers
<1>6. \A e \in Clients : Unmoved(e)
  BY <1>4, <1>5, QuietUnmoved
<1> QED BY <1>0, <1>6, NobodyIsTold

\* The user answers, who is not the sender.
LEMMA UserTold ==
  ASSUME SystemInv, TransferInv, ToldInv, UNCHANGED <<serverVars, requested>>, NEW c \in Clients,
         UserAnswers(c)
  PROVE  ToldInv'
<1>0. /\ MessengerInv /\ ClientProgram(c) /\ ToldFits(c) /\ RequestFits(c) /\ AnswerFits(c)
      /\ UNCHANGED <<fileTransferModeActive, pc>> /\ transfer \in [Clients -> Transfers]
      /\ (Owner(c)' <=> Owner(c))
  BY DEF SystemInv, MessengerInv, ClientTypeOK, ClientProgram, serverVars, sessionVars, ToldInv,
         TransferInv, RequestInv, AnswerInv, Owner
<1>1. PICK answer \in {"yes", "no", "escape"} :
        /\ SetTransfer(c, Answered(transfer[c], request[c].file, answer))
        /\ Queues(c, Status(IF answer = "yes" THEN "AcceptFileTransfer"
                                              ELSE "RejectFileTransfer"))
  BY DEF UserAnswers
<1> DEFINE m == Status(IF answer = "yes" THEN "AcceptFileTransfer" ELSE "RejectFileTransfer")
<1>2. /\ ClientRuns(c) /\ task[c] = "asking" /\ UNCHANGED <<networkVars, clientStatus>>
      /\ m \in Messages
  BY MessageTypes DEF UserAnswers, Status, StatusCodes
<1>3. /\ transfer'[c].isSendingFile = transfer[c].isSendingFile
      /\ transfer'[c].hasFileTransferStarted = transfer[c].hasFileTransferStarted
  BY <1>0, <1>1 DEF SetTransfer, Answered, Transfers
<1> HIDE DEF m
<1>4. /\ \A e \in Clients \ {c} : Outgoing(e)' = Outgoing(e)
      /\ \A e \in Clients : ToCome(e)' = ToCome(e) /\ serverEnd'[e] = serverEnd[e]
  BY <1>0, <1>1, <1>2, QueuesLines DEF m, networkVars
<1>5. /\ Waits(c) /\ Pending(c) /\ ~Owner(c) /\ ~transfer[c].isSendingFile
      /\ Current(c)' = Current(c)
  BY <1>0, <1>2 DEF Asked, Waits, Pending, ClientRuns, Current, AnswerFits, RequestFits
<1>6. /\ \A code : Tells(c, code)' = Tells(c, code)
      /\ OneStart(c)' = OneStart(c)
  BY <1>4, <1>5 DEF Tells, OneStart
<1>7. ~MayStart(c)'
  <2>1. ~MayStart(c)
    BY <1>0, <1>5 DEF ToldFits, Spent
  <2> QED BY <1>3, <1>6, <2>1 DEF MayStart
<1>8. ToldFits(c)'
  BY <1>0, <1>3, <1>5, <1>6, <1>7 DEF ToldFits
<1> QED BY <1>0, <1>4, <1>5, <1>8, OneClientTold

\* FILE_DATA.
LEMMA DataTold ==
  ASSUME SystemInv, TransferInv, ToldInv, UNCHANGED <<serverVars, requested>>, NEW c \in Clients,
         TakesFileData(c)
  PROVE  ToldInv'
<1>0. /\ MessengerInv /\ ClientProgram(c) /\ ToldFits(c) /\ RequestFits(c) /\ DataFits(c)
      /\ UNCHANGED <<fileTransferModeActive, pc, clientStatus, clientQueue>>
      /\ transfer \in [Clients -> Transfers] /\ Takes(c, "FILE_DATA")
      /\ task \in [Clients -> {"poll", "asking", "read", "wrote"}]
      /\ (Owner(c)' <=> Owner(c)) /\ task'[c] # "asking"
  BY DEF SystemInv, MessengerInv, ClientTypeOK, ClientProgram, NetworkThread, TakesFileData,
         serverVars, sessionVars, ToldInv, TransferInv, RequestInv, DataInv, Owner, GoesTo
<1>1. /\ ToCome(c) # <<>> /\ Head(ToCome(c)) = Received(c) /\ Received(c).type = "FILE_DATA"
      /\ ToCome(c)' = Tail(ToCome(c)) /\ Current(c) /\ ToCome(c) \in Seq(Messages)
      /\ \A e \in Clients \ {c} : ToCome(e)' = ToCome(e)
      /\ \A e \in Clients : Outgoing(e)' = Outgoing(e) /\ serverEnd'[e] = serverEnd[e]
  BY <1>0, TakesLines, LinesType
<1>2. ~Owner(c) /\ ~transfer[c].isSendingFile
  BY <1>0, <1>1, ShorterLine DEF Comes, DataFits, RequestFits
<1>3. /\ ~transfer'[c].isSendingFile
      /\ transfer'[c].hasFileTransferStarted => transfer[c].hasFileTransferStarted
  <2>1. \/ UNCHANGED transfer \/ SetTransfer(c, NoTransfer)
        \/ \E h : SetTransfer(c, [transfer[c] EXCEPT !.handle = h])
    BY DEF TakesFileData
  <2>2. CASE SetTransfer(c, NoTransfer)
    BY <1>0, <2>2 DEF SetTransfer, NoTransfer
  <2>3. ASSUME NEW h, SetTransfer(c, [transfer[c] EXCEPT !.handle = h])
        PROVE  /\ transfer'[c].isSendingFile = transfer[c].isSendingFile
               /\ transfer'[c].hasFileTransferStarted = transfer[c].hasFileTransferStarted
    BY <1>0, <2>3 DEF SetTransfer, Transfers
  <2> QED BY <1>2, <2>1, <2>2, <2>3
<1>4. Current(c)' = Current(c) /\ Served(c)' = Served(c)
  BY <1>0, <1>1 DEF Current, Served
<1>5. InFewer(c) /\ \A type : Goes(c, type)' = Goes(c, type)
  BY <1>0, <1>1, <1>4, InLess DEF Goes
<1>6. /\ Asked(c)' => Asked(c)
      /\ Tells(c, "AcceptFileTransfer")' => Tells(c, "AcceptFileTransfer")
      /\ ~Tells(c, "RejectFileTransfer")' /\ ~Tells(c, "FileTransferCanceled")'
      /\ ~Tells(c, "AcceptFileTransfer")
  BY <1>0, <1>2, <1>5 DEF InFewer, InKinds, Comes, Asked, Verdicts, Answers, ToldFits
<1>7. /\ Pending(c)' => Pending(c)
      /\ Waits(c)' => Waits(c)
      /\ MayStart(c)' => MayStart(c)
  BY <1>0, <1>3, <1>4, <1>5, <1>6 DEF Pending, Waits, MayStart
<1>8. Spent => Spent'
  <2>1. \A e \in Clients \ {c} : QuietFor(e)
    BY <1>0, <1>1, ClientsOwn, ClientsOnlyOwn
  <2>2. \A e \in Clients \ {c} : Unmoved(e)
    BY <2>1, QuietUnmoved
  <2> QED BY <1>7, <2>2, SpentStays DEF Unmoved
<1>9. ToldFits(c)'
  BY <1>0, <1>2, <1>3, <1>5, <1>6, <1>7, <1>8 DEF ToldFits, InFewer
<1> QED BY <1>0, <1>1, <1>7, <1>9, OneClientTold

\* cycle(): the sender, who has been told to start, and will not be told again.
LEMMA CycleTold ==
  ASSUME SystemInv, TransferInv, ToldInv, UNCHANGED <<serverVars, requested>>, NEW c \in Clients,
         Cycle(c)
  PROVE  ToldInv'
<1> DEFINE t == transfer[c]
<1>0. /\ MessengerInv /\ ClientProgram(c) /\ ToldFits(c) /\ RequestFits(c) /\ AnswerFits(c)
      /\ UNCHANGED <<fileTransferModeActive, pc, networkVars, clientStatus>>
      /\ t \in Transfers /\ transfer \in [Clients -> Transfers] /\ (Owner(c)' <=> Owner(c))
      /\ task \in [Clients -> {"poll", "asking", "read", "wrote"}]
      /\ task' = [task EXCEPT ![c] = "poll"]
  BY DEF SystemInv, MessengerInv, ClientTypeOK, ClientProgram, NetworkThread, Cycle, serverVars,
         sessionVars, ToldInv, TransferInv, RequestInv, AnswerInv, Owner
<1>1. CASE UNCHANGED <<clientQueue, transfer>>
  BY <1>0, <1>1, PlainRest, QuietTold
<1>2. ASSUME IsTransmitting(t),
             \/ UNCHANGED clientQueue
             \/ \E m \in Messages : m.type = "FILE_DATA" /\ Queues(c, m),
             \/ SetTransfer(c, NoTransfer)
             \/ \E h : SetTransfer(c, [t EXCEPT !.handle = h])
             \/ \E h, n : SetTransfer(c, [t EXCEPT !.handle = h, !.offset = n])
      PROVE  ToldInv'
  <2>1. /\ \A e \in Clients \ {c} : Outgoing(e)' = Outgoing(e)
        /\ \A e \in Clients : ToCome(e)' = ToCome(e) /\ serverEnd'[e] = serverEnd[e]
        /\ \/ Outgoing(c)' = Outgoing(c)
           \/ \E m \in Messages : m.type = "FILE_DATA" /\ Outgoing(c)' = Append(Outgoing(c), m)
        /\ Outgoing(c) \in Seq(Messages)
    <3>1. CASE UNCHANGED clientQueue
      BY <1>0, <3>1, LinesType DEF Outgoing, ToCome, networkVars, serverVars, sessionVars
    <3>2. CASE \E m \in Messages : m.type = "FILE_DATA" /\ Queues(c, m)
      BY <1>0, <3>2, QueuesLines, LinesType DEF networkVars
    <3> QED BY <1>2, <3>1, <3>2
  <2>2. /\ Current(c)' = Current(c) /\ Served(c)' = Served(c)
        /\ Goes(c, "STATUS")' = Goes(c, "STATUS")
        /\ Goes(c, "FILE_REQUEST")' = Goes(c, "FILE_REQUEST")
    <3>1. Current(c)' = Current(c) /\ Served(c)' = Served(c)
      BY <1>0, <2>1 DEF Current, Served
    <3>2. /\ Has(Outgoing(c)', "STATUS") <=> Has(Outgoing(c), "STATUS")
          /\ Has(Outgoing(c)', "FILE_REQUEST") <=> Has(Outgoing(c), "FILE_REQUEST")
      <4>1. CASE Outgoing(c)' = Outgoing(c)
        BY <4>1
      <4>2. ASSUME NEW m \in Messages, m.type = "FILE_DATA", Outgoing(c)' = Append(Outgoing(c), m)
            PROVE  /\ Has(Outgoing(c)', "STATUS") <=> Has(Outgoing(c), "STATUS")
                   /\ Has(Outgoing(c)', "FILE_REQUEST") <=> Has(Outgoing(c), "FILE_REQUEST")
        BY <2>1, <4>2, LongerLine
      <4> QED BY <2>1, <4>1, <4>2
    <3> QED BY <3>1, <3>2 DEF Goes
  <2>3. /\ Asked(c)' => Asked(c)
        /\ \A code : Tells(c, code)' = Tells(c, code)
        /\ OneStart(c)' = OneStart(c)
    BY <1>0, <2>1, <2>2 DEF Asked, Tells, OneStart
  <2>4. /\ Pending(c)' => Pending(c)
        /\ Waits(c)' => Waits(c)
        /\ Requesting(c)' = Requesting(c)
    BY <1>0, <2>2, <2>3 DEF Pending, Waits, Requesting
  <2>5. /\ t.isSendingFile /\ t.hasFileTransferStarted /\ MayStart(c) /\ Spent
        /\ ~Tells(c, "AcceptFileTransfer")
    BY <1>0, <1>2 DEF IsTransmitting, MayStart, ToldFits
  <2>6. ~Requesting(c)
    BY <1>0, <2>5 DEF Requesting, RequestFits, Untouched, UntouchedBy
  <2>7. transfer'[c].isSendingFile => transfer'[c].fileName = t.fileName
    <3>1. CASE SetTransfer(c, NoTransfer)
      BY <1>0, <3>1 DEF SetTransfer, NoTransfer
    <3>2. ASSUME NEW h, SetTransfer(c, [t EXCEPT !.handle = h])
          PROVE  transfer'[c].fileName = t.fileName
      BY <1>0, <3>2 DEF SetTransfer, Transfers
    <3>3. ASSUME NEW h, NEW n, SetTransfer(c, [t EXCEPT !.handle = h, !.offset = n])
          PROVE  transfer'[c].fileName = t.fileName
      BY <1>0, <3>3 DEF SetTransfer, Transfers
    <3> QED BY <1>2, <3>1, <3>2, <3>3
  <2>8. Spent'
    <3>1. \A e \in Clients \ {c} : QuietFor(e)
      BY <1>0, <2>1, ClientsOwn, ClientsOnlyOwn
    <3>2. \A e \in Clients \ {c} : Unmoved(e)
      BY <3>1, QuietUnmoved
    <3> QED BY <2>4, <2>5, <3>2, SpentStays DEF Unmoved
  <2>9. ToldFits(c)'
    BY <1>0, <2>2, <2>3, <2>4, <2>5, <2>6, <2>7, <2>8 DEF ToldFits
  <2> QED BY <1>0, <2>1, <2>4, <2>9, OneClientTold
<1> QED BY <1>1, <1>2, CycleCases

\* The request is made: nobody has answered it, or been told anything.
LEMMA AskingTold ==
  ASSUME SystemInv, TransferInv, ToldInv, NEW c \in Clients, NEW file \in Files,
         RequestsFile(c, file)
  PROVE  ToldInv'
<1> DEFINE m == FileRequest(Anyone, file)
<1>0. /\ RequestInv /\ MessengerInv /\ UNCHANGED serverVars
      /\ UNCHANGED <<fileTransferModeActive, pc, networkVars, clientStatus, task>>
      /\ requested = {} /\ requested' = {<<c, file>>} /\ transfer \in [Clients -> Transfers]
      /\ Queues(c, m)
      /\ SetTransfer(c, [transfer[c] EXCEPT !.isSendingFile = TRUE, !.fileName = file])
  BY DEF TransferInv, SystemInv, MessengerInv, ClientTypeOK, RequestsFile, SendsFile,
         serverVars, sessionVars
<1>1. m \in Messages /\ m.type = "FILE_REQUEST"
  BY ClientMessages, MessageTypes DEF FileRequest
<1> HIDE DEF m
<1> SUFFICES ASSUME NEW e \in Clients PROVE ToldFits(e)'
  BY DEF ToldInv
<1>2. /\ UntouchedBy(e) /\ RequestFits(e) /\ ~Owner(e) /\ ToldFits(e) /\ (Owner(e)' <=> e = c)
  BY <1>0 DEF RequestInv, Owner, Untouched, ToldInv
<1>3. /\ transfer'[e].hasFileTransferStarted = transfer[e].hasFileTransferStarted
      /\ transfer'[e].isSendingFile <=> e = c
      /\ e = c => transfer'[e].fileName = file
  <2>1. ~transfer[e].isSendingFile
    BY <1>2 DEF RequestFits
  <2> QED BY <1>0, <2>1 DEF SetTransfer, Transfers
<1>4. /\ ToCome(e)' = ToCome(e) /\ serverEnd'[e] = serverEnd[e] /\ Outgoing(e) \in Seq(Messages)
      /\ \/ Outgoing(e)' = Outgoing(e)
         \/ Outgoing(e)' = Append(Outgoing(e), m)
  BY <1>0, <1>1, QueuesLines, LinesType DEF networkVars
<1>5. /\ Current(e)' = Current(e)
      /\ Goes(e, "STATUS")' = Goes(e, "STATUS")
  <2>1. Current(e)' = Current(e) /\ Served(e)' = Served(e)
    BY <1>0, <1>4 DEF Current, Served
  <2>2. CASE Outgoing(e)' = Outgoing(e)
    BY <2>1, <2>2 DEF Goes
  <2>3. CASE Outgoing(e)' = Append(Outgoing(e), m)
    <3>1. Has(Outgoing(e)', "STATUS") <=> Has(Outgoing(e), "STATUS")
      BY <1>1, <1>4, <2>3, LongerLine
    <3> QED BY <2>1, <3>1 DEF Goes
  <2> QED BY <1>4, <2>2, <2>3
<1>6. /\ Asked(e)' = Asked(e)
      /\ \A code : Tells(e, code)' = Tells(e, code)
      /\ OneStart(e)' = OneStart(e)
  BY <1>0, <1>4, <1>5 DEF Asked, Tells, OneStart
<1>7. ~Asked(e) /\ ~MayStart(e) /\ ~Goes(e, "STATUS")
  BY <1>2, NothingYet DEF UntouchedBy
<1>8. ~Waits(e)' /\ ~MayStart(e)' /\ ~Tells(e, "AcceptFileTransfer")'
  BY <1>3, <1>5, <1>6, <1>7 DEF Waits, MayStart
<1> QED BY <1>2, <1>3, <1>6, <1>8 DEF ToldFits

\* Every step.
LEMMA OnceToldStep ==
  ASSUME SystemInv, LoginInv, StrangerInv, TransferInv, AliveInv, ToldInv, AnswersInTurn,
         [OneRequestNext]_oneRequestVars
  PROVE  ToldInv'
<1>1. CASE UNCHANGED oneRequestVars
  <2>1. /\ UNCHANGED <<serverVars, requested, transfer, networkVars, clientQueue, clientStatus>>
        /\ UNCHANGED task
    BY <1>1 DEF oneRequestVars, messengerVars, vars, clientVars
  <2> QED BY <2>1, PlainRest, QuietTold DEF SystemInv
<1>2. CASE \E c \in Clients, file \in Files : RequestsFile(c, file)
  BY <1>2, AskingTold
<1>3. CASE ServerStep /\ UNCHANGED <<clientVars, requested>>
  BY <1>3, ServerTold
<1>4. ASSUME NEW c \in Clients, ClientProgram(c), UNCHANGED <<serverVars, requested>>,
             ~SomeSendsFile
      PROVE  ToldInv'
  <2>1. \A file \in Files : ~SendsFile(c, file)
    BY <1>4 DEF SomeSendsFile
  <2>2. CASE \/ ClientConnects(c) \/ TakesNickname(c) \/ TakesChat(c) \/ TakesBye(c)
             \/ ClientWrites(c) \/ ClientWritesInVain(c) \/ ClientEnds(c)
             \/ TypesText(c) \/ \E name \in TypedNames : TypesNickname(c, name)
             \/ OpensDialog(c) \/ ClosesDialog(c) \/ Quits(c)
    BY <1>4, <2>2, PlainClientSteps, QuietTold
  <2>3. CASE TakesStatus(c)
    BY <1>4, <2>3, StartTold
  <2>4. CASE TakesFileRequest(c)
    BY <1>4, <2>4, QuestionTold
  <2>5. CASE UserAnswers(c)
    BY <1>4, <2>5, UserTold
  <2>6. CASE TakesFileData(c)
    BY <1>4, <2>6, DataTold
  <2>7. CASE Cycle(c)
    BY <1>4, <2>7, CycleTold
  <2> QED BY <1>4, <2>1, <2>2, <2>3, <2>4, <2>5, <2>6, <2>7 DEF ClientProgram, NetworkThread
<1> QED BY <1>1, <1>2, <1>3, <1>4 DEF OneRequestNext, MessengerNext

-----------------------------------------------------------------------------
(* Who stays connected.                                                    *)

\* No step of a server that goes on ends the connection of a client that does.
LEMMA ServerServes ==
  ASSUME SystemInv, LoginInv, AliveInv, UNCHANGED clientVars, ServerStep, Running'
  PROVE  Running /\ \A e \in Clients : ClientRuns(e) => Served(e)'
<1>0. /\ serverEnd \in [Clients -> Ends] /\ EndsFit
      /\ \A e \in Clients : ClientRuns(e) /\ Running => Served(e)
  BY DEF SystemInv, MessengerInv, TypeInv, TypeOK, NetworkTypeOK, AliveInv, AliveFits
<1>1. CASE Register
  BY <1>0, <1>1 DEF Register, networkVars, Served
<1>2. ASSUME NEW c \in Clients, Accept(c)
      PROVE  Running /\ \A e \in Clients : ClientRuns(e) => Served(e)'
  BY <1>0, <1>2 DEF Accept, Served, Gone
<1>3. ASSUME NEW c \in Clients, HandlerStep(c)
      PROVE  Running /\ \A e \in Clients : ClientRuns(e) => Served(e)'
  <2>1. Running
    BY <1>3, HandlerFrame DEF SystemInv, MessengerInv, IInv, ThreadsInv, Running
  <2> QED BY <1>0, <1>3, <2>1, HandlersLeaveClients DEF Served
<1>4. ASSUME NEW c \in Clients, Write(c) \/ WriteInVain(c)
      PROVE  Running /\ \A e \in Clients : ClientRuns(e) => Served(e)'
  BY <1>0, <1>4 DEF Write, WriteInVain, Served
<1>5. ASSUME NEW cause, cause # "running", Dies(cause) PROVE FALSE
  BY <1>5 DEF Dies, Running
<1>6. ASSUME NEW c \in Clients, ReceiveUnknown(c) \/ WriteAfterReset(c) PROVE FALSE
  BY <1>5, <1>6 DEF ReceiveUnknown, WriteAfterReset
<1>7. ASSUME NEW c \in Clients, Hangup(c)
      PROVE  Running /\ \A e \in Clients : ClientRuns(e) => Served(e)'
  <2>1. /\ Running /\ clientEnd[c] \in Gone
        /\ serverEnd' = [serverEnd EXCEPT ![c] = AfterClose(toServer[c])]
    BY <1>5, <1>7 DEF Hangup, RemoveSession
  <2>2. ~ClientRuns(c)
    BY <1>0, <2>1 DEF EndsFit, Gone
  <2> QED BY <1>0, <2>1, <2>2 DEF Served
<1> QED BY <1>1, <1>2, <1>3, <1>4, <1>6, <1>7, NobodyLeaves DEF ServerStep, SessionStep, HandlerStep

LEMMA ServerAlive ==
  ASSUME SystemInv, LoginInv, AliveInv, UNCHANGED <<clientVars, requested>>, ServerStep
  PROVE  AliveInv'
<1> SUFFICES ASSUME NEW e \in Clients PROVE AliveFits(e)'
  BY DEF AliveInv
<1>1. /\ ClientRuns(e)' = ClientRuns(e) /\ clientStatus'[e] = clientStatus[e]
      /\ Owner(e)' = Owner(e) /\ AliveFits(e)
  BY DEF clientVars, ClientRuns, Owner, AliveInv
<1>2. Running' => Running /\ (ClientRuns(e) => Served(e)')
  BY ServerServes
<1> QED BY <1>1, <1>2 DEF AliveFits

\* A client ends only if its user quits, as long as the server runs, and aborts over
\* no status it is told.
LEMMA ClientsAlive ==
  ASSUME SystemInv, PresenceInv, AliveInv, ToldInv, SenderStays, UNCHANGED serverVars,
         NEW c \in Clients, ClientProgram(c),
         \A e \in Clients : Owner(e)' => Owner(e) \/ ClientRuns(e)'
  PROVE  AliveInv'
<1>0. /\ MessengerInv /\ AliveFits(c) /\ (Running' = Running) /\ EndsFit /\ EndsMeet
      /\ clientStatus \in [Clients -> {"idle", "running", "ended", "fatal", "sigpipe"}]
      /\ serverEnd \in [Clients -> Ends]
  BY DEF SystemInv, MessengerInv, ClientTypeOK, NetworkTypeOK, AliveInv, serverVars, Running,
         PresenceInv
<1>1. CASE UNCHANGED <<clientStatus, serverEnd>>
  BY <1>0, <1>1 DEF AliveInv, AliveFits, ClientRuns, Served
<1>2. CASE Running /\ ClientConnects(c)
  <2>1. /\ clientStatus[c] = "idle" /\ UNCHANGED serverEnd
        /\ clientStatus' = [clientStatus EXCEPT ![c] = "running"]
    BY <1>2 DEF ClientConnects
  <2>2. Served(c)
    BY <1>0, <2>1 DEF EndsFit, EndsMeet, Served, Gone
  <2> QED BY <1>0, <2>1, <2>2 DEF AliveInv, AliveFits, ClientRuns, Served
<1>3. CASE ClientWritesInVain(c)
  <2>1. ~Running
    BY <1>0, <1>3 DEF ClientWritesInVain, AliveFits, Served
  <2>2. \/ UNCHANGED clientStatus
        \/ clientStatus' = [clientStatus EXCEPT ![c] = "sigpipe"]
    BY <1>3 DEF ClientWritesInVain
  <2> QED BY <1>0, <2>1, <2>2 DEF AliveInv, AliveFits
<1>4. CASE ClientEnds(c)
  <2>1. /\ UNCHANGED serverEnd /\ clientStatus' = [clientStatus EXCEPT ![c] = "ended"]
    BY <1>4 DEF ClientEnds
  <2>2. Running => clientFlag[c]
    BY <1>0, <1>4 DEF ClientEnds, ClientKeepsPolling, AliveFits, Served
  <2>3. Running => ~Owner(c)
    BY <2>2 DEF SenderStays, Owner
  <2>4. ~ClientRuns(c)' /\ \A e \in Clients \ {c} : clientStatus'[e] = clientStatus[e]
    BY <1>0, <2>1 DEF ClientRuns
  <2> QED BY <1>0, <2>1, <2>3, <2>4 DEF AliveInv, AliveFits, ClientRuns, Served
<1>5. CASE TakesStatus(c)
  BY <1>1, <1>5, StatusIsFit DEF TakesStatus, Takes
<1>6. CASE TakesNickname(c) \/ TakesChat(c) \/ TakesBye(c) \/ TakesFileRequest(c) \/ TakesFileData(c)
  BY <1>1, <1>6 DEF TakesNickname, TakesChat, TakesBye, TakesFileRequest, TakesFileData, Takes
<1>7. CASE UserAnswers(c) \/ Cycle(c) \/ ClientWrites(c)
  BY <1>1, <1>7 DEF UserAnswers, Cycle, ClientWrites, networkVars
<1>8. CASE \/ TypesText(c) \/ \E name \in TypedNames : TypesNickname(c, name)
           \/ OpensDialog(c) \/ ClosesDialog(c) \/ Quits(c)
           \/ \E file \in Files : SendsFile(c, file)
  BY <1>1, <1>8 DEF TypesText, TypesNickname, OpensDialog, ClosesDialog, Quits, SendsFile, networkVars
<1> QED BY <1>2, <1>3, <1>4, <1>5, <1>6, <1>7, <1>8 DEF ClientProgram, NetworkThread

LEMMA AliveStep ==
  ASSUME SystemInv, PresenceInv, LoginInv, AliveInv, ToldInv, SenderStays,
         [OneRequestNext]_oneRequestVars
  PROVE  AliveInv'
<1>1. CASE UNCHANGED oneRequestVars
  <2>1. UNCHANGED <<clientStatus, serverEnd, serverStatus, requested>>
    BY <1>1 DEF oneRequestVars, messengerVars, vars, networkVars, serverVars, clientVars
  <2> QED BY <2>1 DEF AliveInv, AliveFits, ClientRuns, Served, Running, Owner
<1>2. ASSUME NEW c \in Clients, NEW file \in Files, RequestsFile(c, file)
      PROVE  AliveInv'
  <2>1. /\ requested = {} /\ requested' = {<<c, file>>} /\ SendsFile(c, file)
        /\ UNCHANGED serverVars /\ ClientRuns(c) /\ UNCHANGED clientStatus
    BY <1>2 DEF RequestsFile, SendsFile
  <2>2. \A e \in Clients : Owner(e)' => ClientRuns(e)'
    BY <2>1 DEF Owner, ClientRuns
  <2> QED BY <2>1, <2>2, ClientsAlive DEF ClientProgram
<1>3. CASE ServerStep /\ UNCHANGED <<clientVars, requested>>
  BY <1>3, ServerAlive
<1>4. ASSUME NEW c \in Clients, ClientProgram(c), UNCHANGED <<serverVars, requested>>
      PROVE  AliveInv'
  <2>1. \A e \in Clients : Owner(e)' = Owner(e)
    BY <1>4 DEF Owner
  <2> QED BY <1>4, <2>1, ClientsAlive
<1> QED BY <1>1, <1>2, <1>3, <1>4 DEF OneRequestNext, MessengerNext

-----------------------------------------------------------------------------
(* At the start nobody is connected, and nobody has been told anything.    *)

LEMMA AbortInit == OneRequestInit => AliveInv /\ ToldInv
<1> SUFFICES ASSUME OneRequestInit, NEW c \in Clients PROVE AliveFits(c) /\ ToldFits(c)
  BY DEF AliveInv, ToldInv
<1>1. /\ ToCome(c) = <<>> /\ Outgoing(c) = <<>> /\ task[c] = "poll"
      /\ transfer[c] = NoTransfer /\ clientStatus[c] = "idle" /\ ~Owner(c)
  BY DEF OneRequestInit, MessengerInit, Init, NetworkInit, ServerInit, ClientInit, ToCome,
         Outgoing, Owner
<1>2. /\ ~Asked(c) /\ ~Goes(c, "STATUS") /\ OneStart(c)
      /\ \A code : ~Tells(c, code)
  BY <1>1, EmptyLine DEF Asked, Goes, OneStart, Tells
<1>3. ~Waits(c) /\ ~MayStart(c) /\ ~transfer[c].isSendingFile
  BY <1>1, <1>2 DEF Waits, MayStart, NoTransfer
<1>4. AliveFits(c)
  BY <1>1 DEF AliveFits, ClientRuns
<1> QED BY <1>1, <1>2, <1>3, <1>4 DEF ToldFits

\* A client aborts over a STATUS of a file transfer when it has none it could be about
\* (sessionserver.cpp:75-101).  In the first transfer it is sent none such, unless one of
\* two things happens.  As long as the sender stays, its session keeps the transfer active
\* until the last block, which follows the last answer: no answer is refused.  As long as
\* the sessions save and count answers one at a time, only the last finds that all are
\* there: the sender is told to start once, when it has not, and to give up never.
THEOREM OnlyRacesAbort == OneRequestSpec => AbortedByRacesOnly
<1>1. /\ SystemInv /\ PresenceInv /\ LoginInv /\ StrangerInv /\ TransferInv
      /\ AliveInv /\ ToldInv /\ SenderStays /\ AnswersInTurn /\ [OneRequestNext]_oneRequestVars
      => (AliveInv /\ ToldInv)'
  BY AliveStep, OnceToldStep
<1>2. AliveInv => NoClientAbort
  BY DEF AliveInv, AliveFits, NoClientAbort
<1> QED BY <1>1, <1>2, AbortInit, AlwaysTransfer, OneRequestIsMessenger, AlwaysSystemInv,
           AlwaysPresence, AlwaysLogin, AlwaysStranger, PTL
        DEF OneRequestSpec, AbortedByRacesOnly

=============================================================================
