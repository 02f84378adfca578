----------------------------- MODULE ChatProofs -----------------------------
(***************************************************************************)
(* What users read of each other, for any number of clients and texts: the *)
(* texts of a user are shown in order and, unless a full queue drops one,  *)
(* without gaps, and a client that has read what is on its way knows the   *)
(* name its texts carry.  A text is followed along one line of messages:   *)
(* the queue of its client and the connection to the server, then the      *)
(* queue of a session and the connection to its client.  Most steps move   *)
(* no text from the one part to the other (Calm), and are dealt with once. *)
(***************************************************************************)
EXTENDS MessengerProofs

-----------------------------------------------------------------------------
(* Lines of messages and the texts in them.                                *)

\* What is on its way from c to the server, the next message first.
Outgoing(c) == toServer[c] \o clientQueue[c]

\* The texts in a line ...
TextsIn(line) == {line[i].text : i \in {j \in 1..Len(line) : line[j].type = "CHAT"}}

\* ... those of one user in the order in which they were typed ...
Ordered(line) ==
  \A i, j \in 1..Len(line) :
      (/\ i < j /\ line[i].type = "CHAT" /\ line[j].type = "CHAT"
       /\ line[i].text[1] = line[j].text[1])
         => line[i].text[2] < line[j].text[2]

\* ... and, user by user, the texts S before the texts T.
Before(S, T) == \A s \in S, t \in T : s[1] = t[1] => s[2] < t[2]

\* writeData() takes a message from a queue to the connection: the line is the same.
LEMMA LineMoved ==
  ASSUME NEW a \in Seq(Messages), NEW b \in Seq(Messages), b # <<>>
  PROVE  Append(a, Head(b)) \o Tail(b) = a \o b
OBVIOUS

\* sendMessage() appends to the line its queue ends.
LEMMA LinePushed ==
  ASSUME NEW a \in Seq(Messages), NEW b \in Seq(Messages), NEW m \in Messages
  PROVE  a \o Append(b, m) = Append(a \o b, m)
OBVIOUS

\* readData() takes the first message of the line.
LEMMA LineTaken ==
  ASSUME NEW a \in Seq(Messages), NEW b \in Seq(Messages), a # <<>>
  PROVE  /\ Tail(a) \o b = Tail(a \o b)
         /\ a \o b # <<>>
         /\ Head(a \o b) = Head(a)
OBVIOUS

\* Three parts of a line, joined either way.
LEMMA LineAssoc ==
  ASSUME NEW a \in Seq(Messages), NEW b \in Seq(Messages), NEW d \in Seq(Messages)
  PROVE  a \o (b \o d) = (a \o b) \o d
OBVIOUS

\* Where the messages of two joined lines are.
LEMMA JoinedAt ==
  ASSUME NEW a \in Seq(Messages), NEW b \in Seq(Messages)
  PROVE  /\ Len(a \o b) = Len(a) + Len(b)
         /\ \A i \in 1..Len(a) : (a \o b)[i] = a[i]
         /\ \A i \in 1..Len(b) : (a \o b)[Len(a) + i] = b[i]
         /\ \A i \in 1..Len(a \o b) : i \in 1..Len(a) \/ (i - Len(a)) \in 1..Len(b)
OBVIOUS

\* Their texts are those of both ...
LEMMA TextsOfJoined ==
  ASSUME NEW a \in Seq(Messages), NEW b \in Seq(Messages)
  PROVE  TextsIn(a \o b) = TextsIn(a) \cup TextsIn(b)
<1> DEFINE n == Len(a)
<1>1. n \in Nat /\ Len(b) \in Nat
  OBVIOUS
<1>2. ASSUME NEW t \in TextsIn(a \o b)
      PROVE  t \in TextsIn(a) \cup TextsIn(b)
  <2>1. PICK i \in 1..Len(a \o b) : (a \o b)[i].type = "CHAT" /\ t = (a \o b)[i].text
    BY DEF TextsIn
  <2>2. CASE i \in 1..Len(a)
    BY <2>1, <2>2, JoinedAt DEF TextsIn
  <2>3. CASE (i - n) \in 1..Len(b)
    <3>1. (a \o b)[i] = b[i - n]
      BY <1>1, <2>1, <2>3
    <3> QED BY <2>1, <2>3, <3>1 DEF TextsIn
  <2> QED BY <2>1, <2>2, <2>3, JoinedAt
<1>3. ASSUME NEW t \in TextsIn(a)
      PROVE  t \in TextsIn(a \o b)
  <2>1. PICK i \in 1..Len(a) : a[i].type = "CHAT" /\ t = a[i].text
    BY DEF TextsIn
  <2>2. i \in 1..Len(a \o b) /\ (a \o b)[i] = a[i]
    BY <1>1, <2>1
  <2> QED BY <2>1, <2>2 DEF TextsIn
<1>4. ASSUME NEW t \in TextsIn(b)
      PROVE  t \in TextsIn(a \o b)
  <2>1. PICK i \in 1..Len(b) : b[i].type = "CHAT" /\ t = b[i].text
    BY DEF TextsIn
  <2>2. n + i \in 1..Len(a \o b) /\ (a \o b)[n + i] = b[i]
    BY <1>1, <2>1
  <2> QED BY <2>1, <2>2 DEF TextsIn
<1> QED BY <1>2, <1>3, <1>4

\* ... and in order if both are and none of the second belongs before one of the first.
LEMMA OrderOfJoined ==
  ASSUME NEW a \in Seq(Messages), NEW b \in Seq(Messages)
  PROVE  Ordered(a \o b) <=> (Ordered(a) /\ Ordered(b) /\ Before(TextsIn(a), TextsIn(b)))
<1> DEFINE n == Len(a)
           line == a \o b
<1>1. n \in Nat /\ Len(b) \in Nat /\ Len(line) = n + Len(b)
  OBVIOUS
<1>2. \A i \in 1..n : line[i] = a[i] /\ i \in 1..Len(line)
  BY <1>1
<1>3. \A i \in 1..Len(b) : line[n + i] = b[i] /\ n + i \in 1..Len(line)
  BY <1>1
<1>4. \A i \in 1..Len(line) : i \notin 1..n => (i - n) \in 1..Len(b) /\ line[i] = b[i - n]
  BY <1>1
<1> HIDE DEF n, line
<1>5. ASSUME Ordered(line)
      PROVE  Ordered(a) /\ Ordered(b) /\ Before(TextsIn(a), TextsIn(b))
  <2>1. Ordered(a)
    BY <1>1, <1>2, <1>5 DEF Ordered, n
  <2>2. Ordered(b)
    <3>1. ASSUME NEW i \in 1..Len(b), NEW j \in 1..Len(b), i < j,
                 b[i].type = "CHAT", b[j].type = "CHAT", b[i].text[1] = b[j].text[1]
          PROVE  b[i].text[2] < b[j].text[2]
      <4>1. /\ line[n + i] = b[i] /\ n + i \in 1..Len(line)
            /\ line[n + j] = b[j] /\ n + j \in 1..Len(line)
        BY <1>3
      <4>2. n + i < n + j
        BY <1>1, <3>1
      <4> QED BY <1>5, <3>1, <4>1, <4>2 DEF Ordered
    <3> QED BY <3>1 DEF Ordered
  <2>3. Before(TextsIn(a), TextsIn(b))
    <3>1. \A i \in 1..n, j \in 1..Len(b) : i < n + j
      BY <1>1
    <3> QED BY <1>2, <1>3, <1>5, <3>1 DEF Ordered, Before, TextsIn, n
  <2> QED BY <2>1, <2>2, <2>3
<1>6. ASSUME Ordered(a), Ordered(b), Before(TextsIn(a), TextsIn(b)),
             NEW i \in 1..Len(line), NEW j \in 1..Len(line), i < j,
             line[i].type = "CHAT", line[j].type = "CHAT",
             line[i].text[1] = line[j].text[1]
      PROVE  line[i].text[2] < line[j].text[2]
  <2>1. CASE i \in 1..n /\ j \in 1..n
    BY <1>2, <1>6, <2>1 DEF Ordered, n
  <2>2. CASE i \in 1..n /\ j \notin 1..n
    <3>1. line[i] = a[i] /\ line[i].text \in TextsIn(a)
      BY <1>2, <1>6, <2>2 DEF TextsIn, n
    <3>2. (j - n) \in 1..Len(b) /\ line[j] = b[j - n]
      BY <1>4, <2>2
    <3>3. line[j].text \in TextsIn(b)
      BY <1>6, <3>2 DEF TextsIn
    <3> QED BY <1>6, <3>1, <3>3 DEF Before
  <2>3. CASE i \notin 1..n
    <3>1. j \notin 1..n /\ i - n < j - n
      BY <1>1, <1>6, <2>3
    <3> QED BY <1>4, <1>6, <2>3, <3>1 DEF Ordered
  <2> QED BY <2>1, <2>2, <2>3
<1>7. (Ordered(a) /\ Ordered(b) /\ Before(TextsIn(a), TextsIn(b))) => Ordered(line)
  BY <1>6 DEF Ordered
<1> QED BY <1>5, <1>7 DEF line

\* r has the texts of s, in order if those of s are; or some of them are missing.
Keeps(s, r) == TextsIn(r) = TextsIn(s) /\ (Ordered(s) => Ordered(r))
Thins(s, r) == TextsIn(r) \subseteq TextsIn(s) /\ (Ordered(s) => Ordered(r))

\* Those that r lacks are the last of s.
Shortens(s, r) == Ordered(s) => Before(TextsIn(r), TextsIn(s) \ TextsIn(r))

\* An empty queue has no text.
LEMMA NoText == TextsIn(<<>>) = {} /\ Ordered(<<>>)
BY DEF TextsIn, Ordered

\* A message alone is in order.
LEMMA OneText ==
  ASSUME NEW m \in Messages
  PROVE  /\ TextsIn(<<m>>) = IF m.type = "CHAT" THEN {m.text} ELSE {}
         /\ Ordered(<<m>>)
<1>1. Len(<<m>>) = 1 /\ <<m>>[1] = m /\ 1..1 = {1}
  OBVIOUS
<1>2. TextsIn(<<m>>) = IF m.type = "CHAT" THEN {m.text} ELSE {}
  BY <1>1 DEF TextsIn
<1>3. Ordered(<<m>>)
  BY <1>1 DEF Ordered
<1> QED BY <1>2, <1>3

\* A message more.
LEMMA TextsOfLonger ==
  ASSUME NEW s \in Seq(Messages), NEW m \in Messages
  PROVE  /\ TextsIn(Append(s, m)) =
              TextsIn(s) \cup (IF m.type = "CHAT" THEN {m.text} ELSE {})
         /\ Ordered(Append(s, m)) <=>
              Ordered(s) /\ (m.type = "CHAT" => Before(TextsIn(s), {m.text}))
<1>1. Append(s, m) = s \o <<m>> /\ <<m>> \in Seq(Messages)
  OBVIOUS
<1>2. Before(TextsIn(s), {})
  BY DEF Before
<1>3. TextsIn(s \o <<m>>) = TextsIn(s) \cup TextsIn(<<m>>)
  BY <1>1, TextsOfJoined
<1>4. Ordered(s \o <<m>>) <=> Ordered(s) /\ Ordered(<<m>>) /\ Before(TextsIn(s), TextsIn(<<m>>))
  BY <1>1, OrderOfJoined
<1>5. CASE m.type = "CHAT"
  BY <1>1, <1>3, <1>4, <1>5, OneText
<1>6. CASE m.type # "CHAT"
  BY <1>1, <1>2, <1>3, <1>4, <1>6, OneText
<1> QED BY <1>5, <1>6

\* The first message, and the rest.
LEMMA TextsOfHead ==
  ASSUME NEW s \in Seq(Messages), s # <<>>
  PROVE  /\ TextsIn(s) =
              (IF Head(s).type = "CHAT" THEN {Head(s).text} ELSE {}) \cup TextsIn(Tail(s))
         /\ Ordered(s) <=>
              /\ Ordered(Tail(s))
              /\ Head(s).type = "CHAT" => Before({Head(s).text}, TextsIn(Tail(s)))
<1>1. /\ s = <<Head(s)>> \o Tail(s) /\ Head(s) \in Messages
      /\ <<Head(s)>> \in Seq(Messages) /\ Tail(s) \in Seq(Messages)
  OBVIOUS
<1> DEFINE h == Head(s)
           r == Tail(s)
<1>2. Before({}, TextsIn(r))
  BY DEF Before
<1> HIDE DEF h, r
<1>3. TextsIn(s) = TextsIn(<<h>>) \cup TextsIn(r)
  BY <1>1, TextsOfJoined DEF h, r
<1>4. Ordered(s) <=> Ordered(<<h>>) /\ Ordered(r) /\ Before(TextsIn(<<h>>), TextsIn(r))
  BY <1>1, OrderOfJoined DEF h, r
<1>5. h \in Messages
  BY <1>1 DEF h
<1>6. CASE h.type = "CHAT"
  BY <1>3, <1>4, <1>5, <1>6, OneText DEF h, r
<1>7. CASE h.type # "CHAT"
  BY <1>2, <1>3, <1>4, <1>5, <1>7, OneText DEF h, r
<1> QED BY <1>6, <1>7

\* sendMessage() of anything but a text.
LEMMA PushKeeps ==
  ASSUME NEW s \in Seq(Messages), NEW m \in Messages, m.type # "CHAT"
  PROVE  Keeps(s, Push(s, m))
BY TextsOfLonger DEF Keeps, Push

\* A message that is read, or lost.
LEMMA TailThins ==
  ASSUME NEW s \in Seq(Messages), s # <<>>
  PROVE  /\ Thins(s, Tail(s))
         /\ Head(s).type # "CHAT" => Keeps(s, Tail(s))
BY TextsOfHead DEF Keeps, Thins

\* Two steps that keep the texts.
LEMMA KeepsTwice ==
  ASSUME NEW s, NEW r, NEW q, Keeps(s, r), Keeps(r, q)
  PROVE  Keeps(s, q)
BY DEF Keeps

\* Two queues one behind the other.
LEMMA JoinedKeep ==
  ASSUME NEW a \in Seq(Messages), NEW b \in Seq(Messages),
         NEW a2 \in Seq(Messages), NEW b2 \in Seq(Messages)
  PROVE  /\ Keeps(a, a2) /\ Keeps(b, b2) => Keeps(a \o b, a2 \o b2)
         /\ Thins(a, a2) /\ Thins(b, b2) => Thins(a \o b, a2 \o b2)
<1>1. /\ TextsIn(a \o b) = TextsIn(a) \cup TextsIn(b)
      /\ TextsIn(a2 \o b2) = TextsIn(a2) \cup TextsIn(b2)
      /\ Ordered(a \o b) <=> Ordered(a) /\ Ordered(b) /\ Before(TextsIn(a), TextsIn(b))
      /\ Ordered(a2 \o b2) <=> Ordered(a2) /\ Ordered(b2) /\ Before(TextsIn(a2), TextsIn(b2))
  BY TextsOfJoined, OrderOfJoined
<1>2. ASSUME TextsIn(a2) \subseteq TextsIn(a), TextsIn(b2) \subseteq TextsIn(b),
             Before(TextsIn(a), TextsIn(b))
      PROVE  Before(TextsIn(a2), TextsIn(b2))
  BY <1>2 DEF Before
<1>3. Keeps(a, a2) /\ Keeps(b, b2) => Keeps(a \o b, a2 \o b2)
  BY <1>1, <1>2 DEF Keeps
<1>4. Thins(a, a2) /\ Thins(b, b2) => Thins(a \o b, a2 \o b2)
  BY <1>1, <1>2 DEF Thins
<1> QED BY <1>3, <1>4

-----------------------------------------------------------------------------
(* What the server's steps do to the texts.                                *)

\* A line that is left alone.
LEMMA KeepsItself == \A s : Keeps(s, s) /\ Thins(s, s) /\ Shortens(s, s)
BY DEF Keeps, Thins, Shortens, Before

\* The server's own messages are none.
LEMMA ServerMessages ==
  /\ Bye \in Messages /\ Bye.type = "BYE"
  /\ \A name \in Names : Nickname(name) \in Messages /\ Nickname(name).type = "NICKNAME"
  /\ \A code \in StatusCodes : Status(code) \in Messages /\ Status(code).type = "STATUS"
  /\ \A sender \in Names, file \in Files :
       /\ FileRequest(sender, file) \in Messages
       /\ FileRequest(sender, file).type = "FILE_REQUEST"
<1>1. Bye.type = "BYE"
  BY DEF Bye
<1>2. \A name \in Names : Nickname(name).type = "NICKNAME"
  BY DEF Nickname
<1>3. \A code \in StatusCodes : Status(code).type = "STATUS"
  BY DEF Status
<1>4. \A sender \in Names, file \in Files : FileRequest(sender, file).type = "FILE_REQUEST"
  BY DEF FileRequest
<1> QED BY <1>1, <1>2, <1>3, <1>4, MessageTypes

\* The step leaves the texts of every session's queue, or connection, where they are.
QueuesKept == \A e \in Clients : Keeps(sendingQueue[e], sendingQueue'[e])
WiresKept == \A e \in Clients : Keeps(toServer[e], toServer'[e])

\* A reply to the session's own client, or a notice to others, that is no text.
LEMMA ReplyKeeps ==
  ASSUME TypeOK, NEW c \in Clients, NEW m \in Messages, m.type # "CHAT",
         sendingQueue' = Reply(c, m)
  PROVE  QueuesKept
<1>1. sendingQueue \in [Clients -> Seq(Messages)]
  BY DEF TypeOK
<1>2. ASSUME NEW e \in Clients PROVE Keeps(sendingQueue[e], sendingQueue'[e])
  <2>1. CASE e = c
    BY <1>1, <2>1, PushKeeps DEF Reply
  <2>2. CASE e # c
    BY <1>1, <2>2, KeepsItself DEF Reply
  <2> QED BY <2>1, <2>2
<1> QED BY <1>2 DEF QueuesKept

\* A message to others that is no text.
LEMMA SentKeeps ==
  ASSUME TypeOK, NEW to, NEW m \in Messages, m.type # "CHAT",
         sendingQueue' = Sent(to, m)
  PROVE  QueuesKept
<1>1. sendingQueue \in [Clients -> Seq(Messages)]
  BY DEF TypeOK
<1>2. ASSUME NEW e \in Clients PROVE Keeps(sendingQueue[e], sendingQueue'[e])
  <2>1. CASE e \in to
    BY <1>1, <2>1, PushKeeps DEF Sent
  <2>2. CASE e \notin to
    BY <1>1, <2>2, KeepsItself DEF Sent
  <2> QED BY <2>1, <2>2
<1> QED BY <1>2 DEF QueuesKept

\* A step that leaves the queues, or the connections, alone.
LEMMA IdleKeeps ==
  ASSUME UNCHANGED sendingQueue
  PROVE  QueuesKept
BY KeepsItself DEF QueuesKept

\* The replies to HELLO, BYE and NICKNAME follow the BYE of disconnect(), if any.
LEMMA CheckedKeeps ==
  ASSUME TypeOK, NEW c \in Clients, NEW type
  PROVE  /\ Checked(c, type) \in Seq(Messages)
         /\ Keeps(sendingQueue[c], Checked(c, type))
<1>1. sendingQueue[c] \in Seq(Messages)
  BY DEF TypeOK
<1>2. Keeps(sendingQueue[c], Push(sendingQueue[c], Bye))
  BY <1>1, PushKeeps, ServerMessages
<1>3. Keeps(sendingQueue[c], Checked(c, type))
  BY <1>2, KeepsItself DEF Checked
<1> QED BY <1>3, CheckedType

\* The handlers that check the state and may reply.
LEMMA CheckedReplyKeeps ==
  ASSUME TypeOK, NEW c \in Clients, NEW type,
         \/ sendingQueue' = [sendingQueue EXCEPT ![c] = Checked(c, type)]
         \/ \E m \in Messages :
              /\ m.type # "CHAT"
              /\ sendingQueue' = [sendingQueue EXCEPT ![c] = Push(Checked(c, type), m)]
  PROVE  QueuesKept
<1>1. sendingQueue \in [Clients -> Seq(Messages)]
  BY DEF TypeOK
<1>2. Keeps(sendingQueue[c], sendingQueue'[c])
  <2>1. CASE sendingQueue' = [sendingQueue EXCEPT ![c] = Checked(c, type)]
    BY <1>1, <2>1, CheckedKeeps
  <2>2. ASSUME NEW m \in Messages, m.type # "CHAT",
               sendingQueue' = [sendingQueue EXCEPT ![c] = Push(Checked(c, type), m)]
        PROVE  Keeps(sendingQueue[c], sendingQueue'[c])
    <3>1. Keeps(Checked(c, type), Push(Checked(c, type), m))
      BY <2>2, CheckedKeeps, PushKeeps
    <3>2. sendingQueue'[c] = Push(Checked(c, type), m)
      BY <1>1, <2>2
    <3> QED BY <3>1, <3>2, CheckedKeeps, KeepsTwice
  <2> QED BY <2>1, <2>2
<1>3. ASSUME NEW e \in Clients, e # c PROVE Keeps(sendingQueue[e], sendingQueue'[e])
  <2>1. sendingQueue'[e] = sendingQueue[e]
    BY <1>1, <1>3
  <2> QED BY <2>1, KeepsItself
<1> QED BY <1>2, <1>3 DEF QueuesKept

\* readData() of anything but a text.
LEMMA ReadsKeep ==
  ASSUME TypeOK, NEW c \in Clients, NEW type, type # "CHAT", Reads(c, type)
  PROVE  WiresKept
<1>1. /\ toServer \in [Clients -> Seq(Messages)] /\ toServer[c] # <<>>
      /\ Head(toServer[c]).type # "CHAT"
      /\ toServer' = [toServer EXCEPT ![c] = Tail(@)]
  BY DEF Reads, CanRead, Incoming, TypeOK, NetworkTypeOK
<1>2. ASSUME NEW e \in Clients PROVE Keeps(toServer[e], toServer'[e])
  <2>1. CASE e = c
    BY <1>1, <2>1, TailThins
  <2>2. CASE e # c
    BY <1>1, <2>2, KeepsItself
  <2> QED BY <2>1, <2>2
<1> QED BY <1>2 DEF WiresKept

\* A step that leaves the connections to the server alone.
LEMMA WiresIdle ==
  ASSUME UNCHANGED toServer
  PROVE  WiresKept
BY KeepsItself DEF WiresKept

\* Every handler but that of CHAT leaves the texts where they are.
Handlers(c) ==
  \/ ReceiveHello(c) \/ ReceiveBye(c) \/ ReceiveNickname(c) \/ Rename(c)
  \/ ReceiveStatus(c) \/ SaveAnswer(c) \/ ScanAnswers(c)
  \/ ReceiveFileRequest(c) \/ AnnounceTransfer(c) \/ FlagSender(c)
  \/ AcceptOwnTransfer(c) \/ ReceiveFileData(c) \/ ResetStatus(c)

\* Case by case of availableMessages().
LEMMA HandlersKeep ==
  ASSUME TypeInv, NEW c \in Clients, Handlers(c)
  PROVE  QueuesKept /\ WiresKept
<1>0. TypeOK /\ HandsFit
  BY DEF TypeInv
<1>1. CASE ReceiveHello(c)
  <2>1. Nickname(nickName[c]) \in Messages /\ Nickname(nickName[c]).type # "CHAT"
    BY <1>0, ServerMessages DEF TypeOK
  <2>2. QueuesKept
    BY <1>0, <1>1, <2>1, CheckedReplyKeeps DEF ReceiveHello
  <2> QED BY <1>0, <1>1, <2>2, ReadsKeep DEF ReceiveHello
<1>2. CASE ReceiveBye(c)
  BY <1>0, <1>2, CheckedReplyKeeps, ReadsKeep DEF ReceiveBye
<1>3. CASE ReceiveNickname(c)
  <2>1. /\ Status("NickNameAlreadyRegistered") \in Messages
        /\ Status("NickNameAlreadyRegistered").type # "CHAT"
    BY ServerMessages DEF StatusCodes
  <2>2. QueuesKept
    BY <1>0, <1>3, <2>1, CheckedReplyKeeps DEF ReceiveNickname
  <2> QED BY <1>0, <1>3, <2>2, ReadsKeep DEF ReceiveNickname
<1>4. CASE Rename(c)
  <2>1. hand[c].name \in Names
    BY <1>0, <1>4, MessageFields DEF Rename, HandsFit
  <2>2. QueuesKept
    BY <1>0, <1>4, <2>1, ServerMessages, ReplyKeeps DEF Rename
  <2> QED BY <1>4, <2>2, WiresIdle DEF Rename
<1>5. CASE ReceiveStatus(c)
  <2>1. Status("FileTransferCanceled") \in Messages /\ Status("FileTransferCanceled").type # "CHAT"
    BY ServerMessages DEF StatusCodes
  <2>2. \/ UNCHANGED sendingQueue
        \/ sendingQueue' = Reply(c, Status("FileTransferCanceled"))
    BY <1>5 DEF ReceiveStatus
  <2> QED BY <1>0, <1>5, <2>1, <2>2, IdleKeeps, ReplyKeeps, ReadsKeep DEF ReceiveStatus
<1>6. CASE ScanAnswers(c)
  <2>1. Verdict(c) \in Messages /\ Verdict(c).type # "CHAT"
    BY ServerMessages DEF Verdict, StatusCodes
  <2>2. QueuesKept
    BY <1>0, <1>6, <2>1, IdleKeeps, ReplyKeeps DEF ScanAnswers
  <2> QED BY <1>6, <2>2, WiresIdle DEF ScanAnswers
<1>7. CASE ReceiveFileRequest(c)
  <2>1. Status("FileTransferCanceled") \in Messages /\ Status("FileTransferCanceled").type # "CHAT"
    BY ServerMessages DEF StatusCodes
  <2>2. QueuesKept
    BY <1>0, <1>7, <2>1, IdleKeeps, ReplyKeeps DEF ReceiveFileRequest
  <2> QED BY <1>0, <1>7, <2>2, ReadsKeep DEF ReceiveFileRequest
<1>8. CASE AnnounceTransfer(c)
  <2>1. hand[c].file \in Files
    BY <1>0, <1>8, MessageFields DEF AnnounceTransfer, HandsFit
  <2>2. /\ FileRequest(nickName[c], hand[c].file) \in Messages
        /\ FileRequest(nickName[c], hand[c].file).type # "CHAT"
    BY <1>0, <2>1, ServerMessages DEF TypeOK
  <2>3. Status("ChattingAlone") \in Messages /\ Status("ChattingAlone").type # "CHAT"
    BY ServerMessages DEF StatusCodes
  <2>4. QueuesKept
    BY <1>0, <1>8, <2>2, <2>3, ReplyKeeps, SentKeeps DEF AnnounceTransfer
  <2> QED BY <1>8, <2>4, WiresIdle DEF AnnounceTransfer
<1>9. CASE ReceiveFileData(c)
  <2>1. Reads(c, "FILE_DATA")
    BY <1>9 DEF ReceiveFileData
  <2>2. Incoming(c) \in Messages /\ Incoming(c).type # "CHAT"
    BY <1>0, <2>1, ReadsType
  <2>3. QueuesKept
    BY <1>0, <1>9, <2>2, SentKeeps DEF ReceiveFileData
  <2> QED BY <1>0, <2>1, <2>3, ReadsKeep
<1>10. CASE SaveAnswer(c) \/ FlagSender(c) \/ AcceptOwnTransfer(c) \/ ResetStatus(c)
  BY <1>10, IdleKeeps, WiresIdle DEF SaveAnswer, FlagSender, AcceptOwnTransfer, ResetStatus
<1> QED BY <1>1, <1>2, <1>3, <1>4, <1>5, <1>6, <1>7, <1>8, <1>9, <1>10 DEF Handlers

-----------------------------------------------------------------------------
(* Steps that move no text to where it was not.                            *)

\* The client has not ended, and the server has not let go of it.
Current(c) == clientStatus[c] \in {"idle", "running"}
Served(c) == serverEnd[c] \notin Gone

\* No row of a text is added or changed.
HistoryKept ==
  \A c \in Clients :
      /\ ChatRows(c)' = ChatRows(c)
      /\ \A i \in ChatRows(c) : chatHistory'[c][i] = chatHistory[c][i]

\* Every text stays between the same two programs, unless one of the two has ended.
Calm ==
  /\ HistoryKept
  /\ UNCHANGED typed
  /\ \A c \in Clients :
        /\ Current(c)' => Current(c)
        /\ Served(c)' => Served(c)
        /\ Thins(Outgoing(c), Outgoing(c)')
        /\ Served(c)' => Keeps(Outgoing(c), Outgoing(c)')
        /\ Thins(ToCome(c), ToCome(c)')
        /\ Current(c)' => Shortens(ToCome(c), ToCome(c)')
        /\ Current(c)' /\ Served(c)' => Keeps(ToCome(c), ToCome(c)')

\* The queues and the wires are sequences of messages, before a step and after it.
LEMMA LinesType ==
  ASSUME MessengerInv, NEW c \in Clients
  PROVE  /\ toServer[c] \in Seq(Messages) /\ clientQueue[c] \in Seq(Messages)
         /\ toClient[c] \in Seq(Messages) /\ sendingQueue[c] \in Seq(Messages)
         /\ Outgoing(c) \in Seq(Messages) /\ ToCome(c) \in Seq(Messages)
BY DEF MessengerInv, TypeInv, TypeOK, NetworkTypeOK, ClientTypeOK, Outgoing, ToCome

\* The same after a step.
LEMMA LinesTypeNext ==
  ASSUME MessengerInv', NEW c \in Clients
  PROVE  /\ toServer'[c] \in Seq(Messages) /\ clientQueue'[c] \in Seq(Messages)
         /\ toClient'[c] \in Seq(Messages) /\ sendingQueue'[c] \in Seq(Messages)
         /\ Outgoing(c)' \in Seq(Messages) /\ ToCome(c)' \in Seq(Messages)
BY DEF MessengerInv, TypeInv, TypeOK, NetworkTypeOK, ClientTypeOK, Outgoing, ToCome

\* A line that keeps its texts lacks none.
LEMMA KeepsThins == \A s, r : Keeps(s, r) => Thins(s, r) /\ Shortens(s, r)
BY DEF Keeps, Thins, Shortens, Before

\* A queue that is cut off.
LEMMA CutShortens ==
  ASSUME NEW a \in Seq(Messages), NEW b \in Seq(Messages)
  PROVE  Shortens(a \o b, a)
BY TextsOfJoined, OrderOfJoined DEF Shortens, Before

\* A history that is left alone keeps its rows.
LEMMA SameHistory ==
  ASSUME UNCHANGED chatHistory
  PROVE  HistoryKept
BY DEF HistoryKept, ChatRows

\* The server's queues and what it has yet to read keep their texts.
LEMMA QuietServer ==
  ASSUME MessengerInv, MessengerInv', UNCHANGED clientVars, UNCHANGED toClient,
         QueuesKept, WiresKept, \A c \in Clients : Served(c)' => Served(c)
  PROVE  Calm
<1>1. HistoryKept /\ UNCHANGED <<typed, clientStatus, clientQueue>>
  BY SameHistory DEF clientVars
<1>2. ASSUME NEW c \in Clients
      PROVE  Keeps(Outgoing(c), Outgoing(c)') /\ Keeps(ToCome(c), ToCome(c)')
  <2>1. Keeps(Outgoing(c), Outgoing(c)')
    BY <1>1, LinesType, LinesTypeNext, JoinedKeep, KeepsItself DEF Outgoing, WiresKept
  <2>2. Keeps(ToCome(c), ToCome(c)')
    BY <1>1, LinesType, LinesTypeNext, JoinedKeep, KeepsItself DEF ToCome, QueuesKept
  <2> QED BY <2>1, <2>2
<1>3. \A c \in Clients : Current(c)' => Current(c)
  BY <1>1 DEF Current
<1> QED BY <1>1, <1>2, <1>3, KeepsThins DEF Calm

\* A handler touches no end of a connection.
LEMMA HandlersIdle ==
  ASSUME NEW c \in Clients, Handlers(c)
  PROVE  UNCHANGED <<toClient, clientEnd, serverEnd, serverStatus, listener, sessions>>
BY DEF Handlers, ReceiveHello, ReceiveBye, ReceiveNickname, Rename, ReceiveStatus, SaveAnswer,
       ScanAnswers, ReceiveFileRequest, AnnounceTransfer, FlagSender, AcceptOwnTransfer,
       ReceiveFileData, ResetStatus, NetworkIdle, ServerIdle

\* The process dies: no socket that was closed is open again.
LEMMA DeathServes ==
  ASSUME TypeOK, NEW cause, Dies(cause), NEW c \in Clients, Served(c)'
  PROVE  Served(c)
BY DEF Dies, Served, TypeOK, NetworkTypeOK

\* The destructor of a session.
LEMMA RemovalCalm ==
  ASSUME MessengerInv, MessengerInv', UNCHANGED clientVars, NEW c \in Clients,
         Leave(c) \/ Hangup(c)
  PROVE  Calm
<1>0. TypeOK
  BY DEF MessengerInv, TypeInv
<1>1. RemoveSession(c) /\ UNCHANGED <<toServer, toClient>>
  BY DEF Leave, Hangup
<1>2. CASE c \notin sessions
  <2>1. Dies("fatal") /\ UNCHANGED sendingQueue
    BY <1>1, <1>2 DEF RemoveSession
  <2>2. \A e \in Clients : Served(e)' => Served(e)
    BY <1>0, <2>1, DeathServes
  <2> QED BY <1>1, <2>1, <2>2, IdleKeeps, WiresIdle, QuietServer
<1>3. CASE c \in sessions
  <2>1. /\ serverEnd' = [serverEnd EXCEPT ![c] = AfterClose(toServer[c])]
        /\ sendingQueue' = [sendingQueue EXCEPT ![c] = <<>>]
    BY <1>1, <1>3 DEF RemoveSession
  <2>2. HistoryKept /\ UNCHANGED <<typed, clientStatus, clientQueue>>
    BY SameHistory DEF clientVars
  <2>3. ~Served(c)'
    BY <1>0, <2>1 DEF Served, AfterClose, Gone, TypeOK, NetworkTypeOK
  <2>4. \A e \in Clients : e # c => serverEnd'[e] = serverEnd[e] /\ ToCome(e)' = ToCome(e)
    BY <1>0, <1>1, <2>1 DEF ToCome, TypeOK, NetworkTypeOK
  <2>5. \A e \in Clients : Outgoing(e)' = Outgoing(e)
    BY <1>1, <2>2 DEF Outgoing
  <2>6. Thins(ToCome(c), ToCome(c)') /\ Shortens(ToCome(c), ToCome(c)')
    <3>1. sendingQueue'[c] = <<>> /\ toClient'[c] = toClient[c]
      BY <1>0, <1>1, <2>1 DEF TypeOK
    <3>2. Thins(sendingQueue[c], <<>>)
      BY NoText DEF Thins
    <3>3. ToCome(c)' = toClient[c]
      BY <3>1, LinesType DEF ToCome
    <3>4. Shortens(ToCome(c), toClient[c])
      BY LinesType, CutShortens DEF ToCome
    <3>5. Thins(ToCome(c), ToCome(c)')
      BY <3>1, <3>2, LinesType, LinesTypeNext, JoinedKeep, KeepsItself DEF ToCome
    <3> QED BY <3>3, <3>4, <3>5
  <2> QED BY <2>2, <2>3, <2>4, <2>5, <2>6, KeepsItself DEF Calm, Current, Served
<1> QED BY <1>2, <1>3

\* writeData().
LEMMA WriteCalm ==
  ASSUME MessengerInv, MessengerInv', UNCHANGED clientVars, NEW c \in Clients,
         Write(c) \/ WriteInVain(c)
  PROVE  Calm
<1>0. TypeOK
  BY DEF MessengerInv, TypeInv
<1>1. /\ sendingQueue[c] # <<>> /\ sendingQueue' = [sendingQueue EXCEPT ![c] = Tail(@)]
      /\ UNCHANGED <<toServer, serverEnd>>
  BY DEF Write, WriteInVain
<1>2. HistoryKept /\ UNCHANGED <<typed, clientStatus, clientQueue>>
  BY SameHistory DEF clientVars
<1>3. \A e \in Clients : Outgoing(e)' = Outgoing(e)
  BY <1>1, <1>2 DEF Outgoing
<1>4. sendingQueue'[c] = Tail(sendingQueue[c])
  BY <1>0, <1>1 DEF TypeOK
<1>5. CASE Write(c)
  <2>1. toClient' = [toClient EXCEPT ![c] = Append(@, Head(sendingQueue[c]))]
    BY <1>5 DEF Write
  <2>2. \A e \in Clients : ToCome(e)' = ToCome(e)
    <3>1. toClient'[c] = Append(toClient[c], Head(sendingQueue[c]))
      BY <1>0, <2>1 DEF TypeOK, NetworkTypeOK
    <3>2. ToCome(c)' = ToCome(c)
      BY <1>1, <1>4, <3>1, LinesType, LineMoved DEF ToCome
    <3> QED BY <1>0, <1>1, <2>1, <3>2 DEF ToCome, TypeOK, NetworkTypeOK
  <2> QED BY <1>1, <1>2, <1>3, <2>2, KeepsItself DEF Calm, Current, Served
<1>6. CASE WriteInVain(c)
  <2>1. UNCHANGED toClient /\ clientEnd[c] = "closed"
    BY <1>6 DEF WriteInVain
  <2>2. \A e \in Clients : e # c => ToCome(e)' = ToCome(e)
    BY <1>0, <1>1, <2>1 DEF ToCome, TypeOK
  <2>3. ~Current(c)'
    BY <1>2, <2>1 DEF Current, MessengerInv, EndsFit, ClientRuns
  <2>4. Thins(ToCome(c), ToCome(c)')
    BY <1>1, <1>4, <2>1, LinesType, LinesTypeNext, TailThins, JoinedKeep, KeepsItself DEF ToCome
  <2> QED BY <1>1, <1>2, <1>3, <2>2, <2>3, <2>4, KeepsItself DEF Calm, Current, Served
<1> QED BY <1>5, <1>6

\* Every step of the server but the handler of CHAT.
LEMMA ServerCalm ==
  ASSUME MessengerInv, MessengerInv', UNCHANGED clientVars, ServerStep,
         \A c \in Clients : ~ReceiveChat(c)
  PROVE  Calm
<1>0. TypeOK
  BY DEF MessengerInv, TypeInv
<1>1. CASE Register
  <2>1. UNCHANGED <<networkVars, sendingQueue>>
    BY <1>1 DEF Register, sessionVars
  <2> QED BY <2>1, IdleKeeps, WiresIdle, QuietServer DEF networkVars, Served
<1>2. ASSUME NEW c \in Clients, Accept(c) PROVE Calm
  <2>1. UNCHANGED <<toServer, toClient, sendingQueue>>
    BY <1>2 DEF Accept
  <2>2. \A e \in Clients : Served(e)' => Served(e)
    BY <1>0, <1>2 DEF Accept, Served, Gone, TypeOK, NetworkTypeOK
  <2> QED BY <2>1, <2>2, IdleKeeps, WiresIdle, QuietServer
<1>3. ASSUME NEW c \in Clients, ReceiveUnknown(c) \/ WriteAfterReset(c) PROVE Calm
  <2>1. UNCHANGED <<toServer, toClient, sendingQueue>> /\ \E cause : Dies(cause)
    BY <1>3 DEF ReceiveUnknown, WriteAfterReset, sessionVars
  <2>2. \A e \in Clients : Served(e)' => Served(e)
    BY <1>0, <2>1, DeathServes
  <2> QED BY <2>1, <2>2, IdleKeeps, WiresIdle, QuietServer
<1>4. ASSUME NEW c \in Clients, Handlers(c) PROVE Calm
  BY <1>4, HandlersKeep, HandlersIdle, QuietServer DEF MessengerInv, Served
<1> QED BY <1>1, <1>2, <1>3, <1>4, WriteCalm, RemovalCalm DEF ServerStep, SessionStep, Handlers

\* A message more, if there is room, that both ends know.
LEMMA PushedKeeps ==
  ASSUME NEW s \in Seq(Messages), NEW m, m.type # "CHAT", Push(s, m) \in Seq(Messages)
  PROVE  Keeps(s, Push(s, m))
<1>1. CASE CanSend(s)
  <2>1. Append(s, m) \in Seq(Messages) /\ Append(s, m)[Len(s) + 1] = m
    BY <1>1 DEF Push
  <2>2. Len(Append(s, m)) = Len(s) + 1 /\ Len(s) \in Nat
    OBVIOUS
  <2>3. m \in Messages
    BY <2>1, <2>2
  <2> QED BY <2>3, PushKeeps
<1>2. CASE ~CanSend(s)
  BY <1>2, KeepsItself DEF Push
<1> QED BY <1>1, <1>2

\* A row that is no text.
LEMMA OtherRow ==
  ASSUME MessengerInv, NEW c \in Clients, NEW row, NewRow(c, row), row.kind # "chat"
  PROVE  HistoryKept
<1>1. chatHistory \in [Clients -> Seq(Rows)]
  BY DEF MessengerInv, ClientTypeOK
<1>2. ASSUME NEW e \in Clients, e # c
      PROVE  chatHistory'[e] = chatHistory[e]
  BY <1>1, <1>2 DEF NewRow
<1>3. chatHistory'[c] = Append(chatHistory[c], row)
  BY <1>1 DEF NewRow
<1> DEFINE h == chatHistory[c]
<1>4. /\ Len(h) \in Nat /\ Len(Append(h, row)) = Len(h) + 1
      /\ Append(h, row)[Len(h) + 1] = row
      /\ \A i \in 1..Len(h) : Append(h, row)[i] = h[i]
  <2>1. h \in Seq(Rows)
    BY <1>1
  <2> HIDE DEF h
  <2> QED BY <2>1
<1>5. /\ ChatRows(c)' = ChatRows(c)
      /\ \A i \in ChatRows(c) : chatHistory'[c][i] = chatHistory[c][i]
  BY <1>3, <1>4 DEF ChatRows
<1>6. ASSUME NEW e \in Clients, e # c
      PROVE  /\ ChatRows(e)' = ChatRows(e)
             /\ \A i \in ChatRows(e) : chatHistory'[e][i] = chatHistory[e][i]
  BY <1>2, <1>6 DEF ChatRows
<1> QED BY <1>5, <1>6 DEF HistoryKept

\* readData() in the client, of anything but a text.
LEMMA TakesCalm ==
  ASSUME MessengerInv, MessengerInv', UNCHANGED serverVars, NEW c \in Clients,
         NEW type, type # "CHAT", Takes(c, type), UNCHANGED <<clientQueue, typed>>,
         HistoryKept, \A e \in Clients : Current(e)' => Current(e)
  PROVE  Calm
<1>1. UNCHANGED <<toServer, serverEnd, sendingQueue>>
  BY DEF Takes, serverVars, sessionVars
<1>2. /\ toClient[c] # <<>> /\ Head(toClient[c]).type # "CHAT"
      /\ toClient' = [toClient EXCEPT ![c] = Tail(@)]
  BY DEF Takes, Received
<1>3. toClient \in [Clients -> Seq(Messages)]
  BY DEF MessengerInv, ClientTypeOK, NetworkTypeOK
<1>4. \A e \in Clients : Outgoing(e)' = Outgoing(e)
  BY <1>1 DEF Outgoing
<1>5. \A e \in Clients : e # c => ToCome(e)' = ToCome(e)
  BY <1>1, <1>2, <1>3 DEF ToCome
<1>6. Keeps(ToCome(c), ToCome(c)')
  <2>1. Keeps(toClient[c], toClient'[c])
    BY <1>2, <1>3, TailThins
  <2> QED BY <1>1, <2>1, LinesType, LinesTypeNext, JoinedKeep, KeepsItself DEF ToCome
<1> QED BY <1>1, <1>4, <1>5, <1>6, KeepsItself, KeepsThins DEF Calm, Served

\* A message of the client's own, but no text; or none.
LEMMA QueuesCalm ==
  ASSUME MessengerInv, MessengerInv', UNCHANGED serverVars, NEW c \in Clients,
         UNCHANGED <<toServer, toClient, serverEnd, chatHistory, typed>>,
         \A e \in Clients : Current(e)' => Current(e),
         \/ UNCHANGED clientQueue
         \/ \E m : m.type # "CHAT" /\ Queues(c, m)
  PROVE  Calm
<1>1. UNCHANGED sendingQueue
  BY DEF serverVars, sessionVars
<1>2. \A e \in Clients : ToCome(e)' = ToCome(e)
  BY <1>1 DEF ToCome
<1>3. ASSUME NEW e \in Clients
      PROVE  Keeps(Outgoing(e), Outgoing(e)')
  <2>1. clientQueue \in [Clients -> Seq(Messages)]
    BY DEF MessengerInv, ClientTypeOK
  <2>2. Keeps(clientQueue[e], clientQueue'[e])
    <3>1. CASE clientQueue'[e] = clientQueue[e]
      BY <3>1, KeepsItself
    <3>2. ASSUME NEW m, m.type # "CHAT", Queues(c, m), e = c
          PROVE  Keeps(clientQueue[e], clientQueue'[e])
      <4>1. clientQueue'[e] = Push(clientQueue[e], m)
        BY <2>1, <3>2 DEF Queues
      <4> QED BY <3>2, <4>1, LinesType, LinesTypeNext, PushedKeeps
    <3> QED BY <2>1, <3>1, <3>2 DEF Queues
  <2> QED BY <2>2, LinesType, LinesTypeNext, JoinedKeep, KeepsItself DEF Outgoing
<1> QED BY <1>2, <1>3, SameHistory, KeepsItself, KeepsThins DEF Calm, Served

\* writeData() in the client, and its end.
LEMMA ClientWriteCalm ==
  ASSUME MessengerInv, MessengerInv', UNCHANGED serverVars, NEW c \in Clients,
         ClientWrites(c) \/ ClientWritesInVain(c) \/ ClientEnds(c)
  PROVE  Calm
<1>0. /\ clientQueue \in [Clients -> Seq(Messages)] /\ toServer \in [Clients -> Seq(Messages)]
      /\ serverEnd \in [Clients -> Ends]
      /\ DOMAIN clientStatus = Clients
  BY DEF MessengerInv, ClientTypeOK, NetworkTypeOK
<1>1. UNCHANGED <<sendingQueue, toClient, chatHistory, typed>>
  BY DEF serverVars, sessionVars, ClientWrites, ClientWritesInVain, ClientEnds
<1>2. \A e \in Clients : ToCome(e)' = ToCome(e)
  BY <1>1 DEF ToCome
<1>3. HistoryKept
  BY <1>1, SameHistory
<1>4. \A e \in Clients : Current(e)' => Current(e)
  <2>1. \/ UNCHANGED clientStatus
        \/ \E how \in {"ended", "sigpipe"} :
              clientStatus' = [clientStatus EXCEPT ![c] = how]
    BY DEF ClientWrites, ClientWritesInVain, ClientEnds
  <2> QED BY <1>0, <2>1 DEF Current
<1>5. CASE ClientWrites(c)
  <2>1. /\ clientQueue[c] # <<>> /\ UNCHANGED serverEnd
        /\ toServer' = [toServer EXCEPT ![c] = Append(@, Head(clientQueue[c]))]
        /\ clientQueue' = [clientQueue EXCEPT ![c] = Tail(@)]
    BY <1>5 DEF ClientWrites
  <2>2. Outgoing(c)' = Outgoing(c)
    <3>1. /\ toServer'[c] = Append(toServer[c], Head(clientQueue[c]))
          /\ clientQueue'[c] = Tail(clientQueue[c])
      BY <1>0, <2>1
    <3> QED BY <2>1, <3>1, LinesType, LineMoved DEF Outgoing
  <2>3. \A e \in Clients : Outgoing(e)' = Outgoing(e)
    BY <1>0, <2>1, <2>2 DEF Outgoing
  <2> QED BY <1>1, <1>2, <1>3, <1>4, <2>1, <2>3, KeepsItself DEF Calm, Served
<1>6. CASE ClientWritesInVain(c)
  <2>1. /\ clientQueue[c] # <<>> /\ UNCHANGED toServer
        /\ clientQueue' = [clientQueue EXCEPT ![c] = Tail(@)]
        /\ serverEnd[c] \in Gone
        /\ UNCHANGED serverEnd \/ \E end \in Gone : serverEnd' = [serverEnd EXCEPT ![c] = end]
    BY <1>6 DEF ClientWritesInVain
  <2>2. \A e \in Clients : Served(e)' => Served(e) /\ e # c
    BY <1>0, <2>1 DEF Served, Gone
  <2>3. \A e \in Clients : e # c => Outgoing(e)' = Outgoing(e)
    BY <1>0, <2>1 DEF Outgoing
  <2>4. Thins(Outgoing(c), Outgoing(c)')
    <3>1. clientQueue'[c] = Tail(clientQueue[c])
      BY <1>0, <2>1
    <3> QED BY <2>1, <3>1, LinesType, LinesTypeNext, TailThins, JoinedKeep, KeepsItself
            DEF Outgoing
  <2> QED BY <1>1, <1>2, <1>3, <1>4, <2>2, <2>3, <2>4, KeepsItself DEF Calm
<1>7. CASE ClientEnds(c)
  <2>1. UNCHANGED <<toServer, serverEnd, clientQueue>>
    BY <1>7 DEF ClientEnds
  <2>2. \A e \in Clients : Outgoing(e)' = Outgoing(e)
    BY <2>1 DEF Outgoing
  <2> QED BY <1>1, <1>2, <1>3, <1>4, <2>1, <2>2, KeepsItself DEF Calm, Served
<1> QED BY <1>5, <1>6, <1>7

\* Every step of a client but reading and typing a text.
LEMMA ProgramCalm ==
  ASSUME MessengerInv, MessengerInv', UNCHANGED serverVars, NEW c \in Clients,
         ClientProgram(c), ~TakesChat(c), ~TypesText(c)
  PROVE  Calm
<1>0. DOMAIN clientStatus = Clients
  BY DEF MessengerInv, ClientTypeOK
<1>1. \A e \in Clients :
        \/ UNCHANGED clientStatus
        \/ clientStatus' = [clientStatus EXCEPT ![c] = "fatal"]
        => (Current(e)' => Current(e))
  BY <1>0 DEF Current
<1>2. CASE TakesStatus(c)
  <2>1. Takes(c, "STATUS") /\ UNCHANGED <<clientQueue, typed, chatHistory>>
    BY <1>2 DEF TakesStatus
  <2>2. UNCHANGED clientStatus \/ clientStatus' = [clientStatus EXCEPT ![c] = "fatal"]
    BY <1>2 DEF TakesStatus, Aborts
  <2> QED BY <1>1, <2>1, <2>2, SameHistory, TakesCalm
<1>3. CASE TakesNickname(c)
  BY <1>1, <1>3, SameHistory, TakesCalm DEF TakesNickname
<1>4. CASE TakesBye(c)
  BY <1>1, <1>4, SameHistory, TakesCalm DEF TakesBye
<1>5. CASE TakesFileRequest(c)
  BY <1>1, <1>5, SameHistory, TakesCalm DEF TakesFileRequest
<1>6. CASE TakesFileData(c)
  <2>1. Takes(c, "FILE_DATA") /\ UNCHANGED <<clientQueue, typed, clientStatus>>
    BY <1>6 DEF TakesFileData
  <2>2. \/ UNCHANGED chatHistory
        \/ \E row : row.kind # "chat" /\ NewRow(c, row)
    BY <1>6 DEF TakesFileData
  <2>3. HistoryKept
    BY <2>2, SameHistory, OtherRow
  <2> QED BY <1>1, <2>1, <2>3, TakesCalm
<1>7. CASE Cycle(c)
  <2>1. UNCHANGED <<toServer, toClient, serverEnd, chatHistory, typed, clientStatus>>
    BY <1>7 DEF Cycle, networkVars
  <2>2. \/ UNCHANGED clientQueue
        \/ \E offset, content, last : Queues(c, FileData(offset, content, last))
    BY <1>7 DEF Cycle
  <2>3. \A offset, content, last : FileData(offset, content, last).type # "CHAT"
    BY DEF FileData
  <2> QED BY <1>1, <2>1, <2>2, <2>3, QueuesCalm
<1>8. CASE UserAnswers(c)
  <2>1. UNCHANGED <<toServer, toClient, serverEnd, chatHistory, typed, clientStatus>>
    BY <1>8 DEF UserAnswers, networkVars
  <2>2. \E code : Queues(c, Status(code))
    BY <1>8 DEF UserAnswers
  <2>3. \A code : Status(code).type # "CHAT"
    BY DEF Status
  <2> QED BY <1>1, <2>1, <2>2, <2>3, QueuesCalm
<1>9. CASE ClientConnects(c)
  <2>1. UNCHANGED <<toServer, toClient, serverEnd, chatHistory, typed>> /\ Queues(c, Hello)
    BY <1>9 DEF ClientConnects
  <2>2. \A e \in Clients : Current(e)' => Current(e)
    BY <1>0, <1>9 DEF ClientConnects, Current
  <2>3. Hello.type # "CHAT"
    BY DEF Hello
  <2> QED BY <2>1, <2>2, <2>3, QueuesCalm
<1>10. CASE \/ \E name \in TypedNames : TypesNickname(c, name)
            \/ \E file \in Files : SendsFile(c, file)
            \/ OpensDialog(c) \/ ClosesDialog(c) \/ Quits(c)
  <2>1. UNCHANGED <<toServer, toClient, serverEnd, chatHistory, typed, clientStatus>>
    BY <1>10 DEF TypesNickname, SendsFile, OpensDialog, ClosesDialog, Quits, networkVars
  <2>2. \/ UNCHANGED clientQueue
        \/ \E name : Queues(c, Nickname(name))
        \/ \E file : Queues(c, FileRequest(Anyone, file))
        \/ Queues(c, Bye)
    BY <1>10 DEF TypesNickname, SendsFile, OpensDialog, ClosesDialog, Quits
  <2>3. /\ \A name : Nickname(name).type # "CHAT"
        /\ \A file : FileRequest(Anyone, file).type # "CHAT"
        /\ Bye.type # "CHAT"
    BY DEF Nickname, FileRequest, Bye
  <2> QED BY <1>1, <2>1, <2>2, <2>3, QueuesCalm
<1> QED BY <1>2, <1>3, <1>4, <1>5, <1>6, <1>7, <1>8, <1>9, <1>10, ClientWriteCalm
        DEF ClientProgram, NetworkThread

\* No step at all.
LEMMA NothingCalm ==
  ASSUME UNCHANGED messengerVars
  PROVE  Calm
<1>1. UNCHANGED <<toServer, toClient, serverEnd, sendingQueue, clientQueue, chatHistory, typed,
                  clientStatus>>
  BY DEF messengerVars, vars, networkVars, serverVars, sessionVars, clientVars
<1>2. \A c \in Clients : Outgoing(c)' = Outgoing(c) /\ ToCome(c)' = ToCome(c)
  BY <1>1 DEF Outgoing, ToCome
<1> QED BY <1>1, <1>2, SameHistory, KeepsItself DEF Calm, Current, Served

-----------------------------------------------------------------------------
(* The steps that move texts.                                              *)

\* What c has been shown, and will be.
Seen(c) == TextsShown(c) \cup TextsIn(ToCome(c))

\* The texts of lines and histories are texts of the protocol.
LEMMA TextsType ==
  ASSUME NEW s \in Seq(Messages)
  PROVE  TextsIn(s) \subseteq Texts
<1>1. ASSUME NEW i \in 1..Len(s), s[i].type = "CHAT" PROVE s[i].text \in Texts
  <2>1. s[i] \in Messages
    OBVIOUS
  <2> QED BY <1>1, <2>1, MessageFields
<1> QED BY <1>1 DEF TextsIn

\* Those a client has been shown ...
LEMMA ShownType ==
  ASSUME MessengerInv, NEW c \in Clients
  PROVE  TextsShown(c) \subseteq Texts
<1>1. chatHistory[c] \in Seq(Rows)
  BY DEF MessengerInv, ClientTypeOK
<1>2. ASSUME NEW i \in 1..Len(chatHistory[c]), chatHistory[c][i].kind = "chat"
      PROVE  chatHistory[c][i].text \in Texts
  <2>1. chatHistory[c][i] \in Rows
    BY <1>1
  <2> QED BY <1>2, <2>1 DEF Rows
<1> QED BY <1>2 DEF TextsShown, ChatRows

\* ... or will be.
LEMMA SeenType ==
  ASSUME MessengerInv, NEW c \in Clients
  PROVE  Seen(c) \subseteq Texts /\ TextsIn(Outgoing(c)) \subseteq Texts
BY LinesType, TextsType, ShownType DEF Seen

\* The text the server is about to pass on.
Arriving(d) == Incoming(d).text

\* CHAT: the sender's next text leaves its line, and joins those of its peers, if they
\* have room.
LEMMA ChatArrives ==
  ASSUME MessengerInv, MessengerInv', UNCHANGED clientVars, NEW d \in Clients, ReceiveChat(d)
  PROVE  /\ TextsIn(Outgoing(d)) = {Arriving(d)} \cup TextsIn(Outgoing(d)')
         /\ Ordered(Outgoing(d)) =>
              /\ Ordered(Outgoing(d)')
              /\ Before({Arriving(d)}, TextsIn(Outgoing(d)'))
         /\ \A e \in Clients \ {d} : Outgoing(e)' = Outgoing(e)
         /\ \A e \in Clients :
              \/ Keeps(ToCome(e), ToCome(e)') /\ (e \in Peers(d) => ~CanSend(sendingQueue[e]))
              \/ /\ e \in Peers(d)
                 /\ TextsIn(ToCome(e)') = TextsIn(ToCome(e)) \cup {Arriving(d)}
                 /\ (Ordered(ToCome(e)) /\ Before(TextsIn(ToCome(e)), {Arriving(d)}))
                       => Ordered(ToCome(e)')
         /\ UNCHANGED <<chatHistory, typed, clientStatus, serverEnd>>
<1>0. TypeOK /\ toServer \in [Clients -> Seq(Messages)] /\ sendingQueue \in [Clients -> Seq(Messages)]
  BY DEF MessengerInv, TypeInv, TypeOK, NetworkTypeOK
<1>1. /\ toServer[d] # <<>> /\ Head(toServer[d]).type = "CHAT" /\ Arriving(d) = Head(toServer[d]).text
      /\ toServer' = [toServer EXCEPT ![d] = Tail(@)]
      /\ UNCHANGED <<toClient, serverEnd>>
  BY DEF ReceiveChat, Reads, CanRead, Incoming, Arriving, NetworkIdle
<1>2. UNCHANGED <<chatHistory, typed, clientStatus, clientQueue>>
  BY DEF clientVars
<1>3. /\ Outgoing(d)' = Tail(Outgoing(d)) /\ Outgoing(d) # <<>>
      /\ Head(Outgoing(d)) = Head(toServer[d])
  <2>1. toServer'[d] = Tail(toServer[d]) /\ clientQueue'[d] = clientQueue[d]
    BY <1>0, <1>1, <1>2
  <2> QED BY <1>1, <2>1, LinesType, LineTaken DEF Outgoing
<1>4. /\ TextsIn(Outgoing(d)) = {Arriving(d)} \cup TextsIn(Outgoing(d)')
      /\ Ordered(Outgoing(d)) =>
           /\ Ordered(Outgoing(d)')
           /\ Before({Arriving(d)}, TextsIn(Outgoing(d)'))
  BY <1>1, <1>3, LinesType, TextsOfHead
<1>5. \A e \in Clients \ {d} : Outgoing(e)' = Outgoing(e)
  BY <1>0, <1>1, <1>2 DEF Outgoing
<1>6. CASE Alone(d)
  <2>1. Status("ChattingAlone") \in Messages /\ Status("ChattingAlone").type # "CHAT"
    BY ServerMessages DEF StatusCodes
  <2>2. QueuesKept
    BY <1>0, <1>6, <2>1, ReplyKeeps DEF ReceiveChat
  <2>3. \A e \in Clients : Keeps(ToCome(e), ToCome(e)')
    BY <1>1, <2>2, LinesType, LinesTypeNext, JoinedKeep, KeepsItself DEF ToCome, QueuesKept
  <2>4. \A e \in Clients : e \notin Peers(d)
    BY <1>6 DEF Alone, Peers
  <2> QED BY <1>1, <1>2, <1>4, <1>5, <2>3, <2>4
<1>7. CASE ~Alone(d)
  <2> DEFINE m == Chat(nickName[d], Arriving(d))
  <2>1. sendingQueue' = Sent(Peers(d), m)
    BY <1>7 DEF ReceiveChat, Arriving
  <2>2. m \in Messages /\ m.type = "CHAT" /\ m.text = Arriving(d)
    <3>1. Arriving(d) \in Texts
      BY <1>0, <1>1, MessageFields
    <3>2. nickName[d] \in Names
      BY <1>0 DEF TypeOK
    <3>3. m.type = "CHAT" /\ m.text = Arriving(d)
      BY DEF Chat
    <3> QED BY <3>1, <3>2, <3>3, MessageTypes
  <2> HIDE DEF m
  <2>3. ASSUME NEW e \in Clients, e \in Peers(d), CanSend(sendingQueue[e])
        PROVE  /\ TextsIn(ToCome(e)') = TextsIn(ToCome(e)) \cup {Arriving(d)}
               /\ (Ordered(ToCome(e)) /\ Before(TextsIn(ToCome(e)), {Arriving(d)}))
                     => Ordered(ToCome(e)')
    <3>1. sendingQueue'[e] = Append(sendingQueue[e], m)
      BY <2>1, <2>3 DEF Sent, Push
    <3>2. ToCome(e)' = toClient[e] \o Append(sendingQueue[e], m)
      BY <1>1, <3>1 DEF ToCome
    <3>3. toClient[e] \o Append(sendingQueue[e], m) = Append(ToCome(e), m)
      BY <2>2, LinesType, LinePushed DEF ToCome
    <3> QED BY <2>2, <3>2, <3>3, LinesType, TextsOfLonger
  <2>4. ASSUME NEW e \in Clients, ~(e \in Peers(d) /\ CanSend(sendingQueue[e]))
        PROVE  Keeps(ToCome(e), ToCome(e)')
    <3>1. sendingQueue'[e] = sendingQueue[e]
      BY <2>1, <2>4 DEF Sent, Push
    <3> QED BY <1>1, <3>1, KeepsItself DEF ToCome
  <2> QED BY <1>1, <1>2, <1>4, <1>5, <2>3, <2>4
<1> QED BY <1>6, <1>7

\* A text is shown: it was the next to come.
LEMMA ChatIsShown ==
  ASSUME MessengerInv, MessengerInv', UNCHANGED serverVars, NEW c \in Clients, TakesChat(c)
  PROVE  /\ TextsIn(ToCome(c)) = {Received(c).text} \cup TextsIn(ToCome(c)')
         /\ Ordered(ToCome(c)) =>
              /\ Ordered(ToCome(c)')
              /\ Before({Received(c).text}, TextsIn(ToCome(c)'))
         /\ chatHistory'[c] = Append(chatHistory[c], [kind |-> "chat",
                                 sender |-> Received(c).sender, text |-> Received(c).text])
         /\ \A e \in Clients \ {c} :
              ToCome(e)' = ToCome(e) /\ chatHistory'[e] = chatHistory[e]
         /\ \A e \in Clients : Outgoing(e)' = Outgoing(e)
         /\ UNCHANGED <<typed, clientStatus, serverEnd>>
<1>0. toClient \in [Clients -> Seq(Messages)] /\ chatHistory \in [Clients -> Seq(Rows)]
  BY DEF MessengerInv, ClientTypeOK, NetworkTypeOK
<1>1. /\ toClient[c] # <<>> /\ Received(c) = Head(toClient[c]) /\ Received(c).type = "CHAT"
      /\ toClient' = [toClient EXCEPT ![c] = Tail(@)]
      /\ UNCHANGED <<toServer, serverEnd, clientQueue, typed, clientStatus, sendingQueue>>
      /\ NewRow(c, [kind |-> "chat", sender |-> Received(c).sender, text |-> Received(c).text])
  BY DEF TakesChat, Takes, Received, serverVars, sessionVars
<1>2. /\ chatHistory'[c] = Append(chatHistory[c], [kind |-> "chat",
                              sender |-> Received(c).sender, text |-> Received(c).text])
      /\ \A e \in Clients \ {c} : chatHistory'[e] = chatHistory[e]
  BY <1>0, <1>1 DEF NewRow
<1>3. /\ ToCome(c)' = Tail(ToCome(c)) /\ ToCome(c) # <<>>
      /\ Head(ToCome(c)) = Head(toClient[c])
  <2>1. toClient'[c] = Tail(toClient[c]) /\ sendingQueue'[c] = sendingQueue[c]
    BY <1>0, <1>1
  <2> QED BY <1>1, <2>1, LinesType, LineTaken DEF ToCome
<1>4. \A e \in Clients \ {c} : ToCome(e)' = ToCome(e)
  BY <1>0, <1>1 DEF ToCome
<1>5. \A e \in Clients : Outgoing(e)' = Outgoing(e)
  BY <1>1 DEF Outgoing
<1> QED BY <1>1, <1>2, <1>3, <1>4, <1>5, LinesType, TextsOfHead

\* What that does to the rows.
LEMMA RowsOfLonger ==
  ASSUME MessengerInv, NEW c \in Clients, NEW sender, NEW text,
         chatHistory'[c] = Append(chatHistory[c],
                             [kind |-> "chat", sender |-> sender, text |-> text])
  PROVE  /\ Len(chatHistory[c]) \in Nat
         /\ ChatRows(c) \subseteq 1..Len(chatHistory[c])
         /\ ChatRows(c)' = ChatRows(c) \cup {Len(chatHistory[c]) + 1}
         /\ \A i \in ChatRows(c) : chatHistory'[c][i] = chatHistory[c][i]
         /\ chatHistory'[c][Len(chatHistory[c]) + 1].text = text
         /\ TextsShown(c)' = TextsShown(c) \cup {text}
<1> DEFINE h == chatHistory[c]
           row == [kind |-> "chat", sender |-> sender, text |-> text]
<1>1. h \in Seq(Rows)
  BY DEF MessengerInv, ClientTypeOK
<1>2. row.kind = "chat" /\ row.text = text
  OBVIOUS
<1>3. chatHistory'[c] = Append(h, row)
  OBVIOUS
<1> HIDE DEF h, row
<1>4. /\ Len(h) \in Nat /\ Len(Append(h, row)) = Len(h) + 1
      /\ Append(h, row)[Len(h) + 1] = row
      /\ \A i \in 1..Len(h) : Append(h, row)[i] = h[i]
  BY <1>1
<1>5. ChatRows(c) \subseteq 1..Len(h)
  BY DEF ChatRows, h
<1>6. ChatRows(c)' = ChatRows(c) \cup {Len(h) + 1}
  BY <1>2, <1>3, <1>4 DEF ChatRows, h
<1>7. \A i \in ChatRows(c) : chatHistory'[c][i] = chatHistory[c][i]
  BY <1>3, <1>4, <1>5 DEF h
<1>8. chatHistory'[c][Len(h) + 1].text = text
  BY <1>2, <1>3, <1>4
<1>9. TextsShown(c)' = {chatHistory'[c][i].text : i \in ChatRows(c)'}
  BY DEF TextsShown
<1>10. TextsShown(c)' = {chatHistory'[c][i].text : i \in ChatRows(c)} \cup {text}
  BY <1>6, <1>8, <1>9
<1>11. {chatHistory'[c][i].text : i \in ChatRows(c)} = TextsShown(c)
  BY <1>7 DEF TextsShown
<1> QED BY <1>4, <1>5, <1>6, <1>7, <1>8, <1>10, <1>11 DEF h

\* A text is typed: it is the last of those on their way, if there is room.
LEMMA TextIsTyped ==
  ASSUME MessengerInv, MessengerInv', UNCHANGED serverVars, NEW c \in Clients, TypesText(c)
  PROVE  /\ typed' = [typed EXCEPT ![c] = @ + 1]
         /\ \/ Outgoing(c)' = Outgoing(c) /\ ~CanSend(clientQueue[c])
            \/ /\ TextsIn(Outgoing(c)') = TextsIn(Outgoing(c)) \cup {<<c, typed[c] + 1>>}
               /\ (Ordered(Outgoing(c)) /\ Before(TextsIn(Outgoing(c)), {<<c, typed[c] + 1>>}))
                    => Ordered(Outgoing(c)')
         /\ \A e \in Clients \ {c} : Outgoing(e)' = Outgoing(e)
         /\ \A e \in Clients : ToCome(e)' = ToCome(e)
         /\ UNCHANGED <<chatHistory, clientStatus, serverEnd>>
<1> DEFINE m == Chat(Anyone, <<c, typed[c] + 1>>)
<1>0. clientQueue \in [Clients -> Seq(Messages)] /\ typed \in [Clients -> 0..MaxTexts]
  BY DEF MessengerInv, ClientTypeOK
<1>1. /\ typed[c] < MaxTexts /\ typed' = [typed EXCEPT ![c] = @ + 1] /\ Queues(c, m)
      /\ UNCHANGED <<toServer, toClient, serverEnd, sendingQueue, chatHistory, clientStatus>>
  BY DEF TypesText, serverVars, sessionVars, networkVars
<1>2. m \in Messages /\ m.type = "CHAT" /\ m.text = <<c, typed[c] + 1>>
  <2>1. <<c, typed[c] + 1>> \in Texts
    BY <1>0, <1>1, TextsAssumption DEF Texts
  <2>2. m.type = "CHAT" /\ m.text = <<c, typed[c] + 1>>
    BY DEF Chat
  <2> QED BY <2>1, <2>2, ClientMessages, MessageTypes
<1>3. /\ \A e \in Clients \ {c} : Outgoing(e)' = Outgoing(e)
      /\ \A e \in Clients : ToCome(e)' = ToCome(e)
  BY <1>0, <1>1 DEF Outgoing, ToCome, Queues
<1>4. clientQueue'[c] = Push(clientQueue[c], m) /\ toServer'[c] = toServer[c]
  BY <1>0, <1>1 DEF Queues
<1> HIDE DEF m
<1>5. CASE CanSend(clientQueue[c])
  <2>1. Outgoing(c)' = toServer[c] \o Append(clientQueue[c], m)
    BY <1>4, <1>5 DEF Outgoing, Push
  <2>2. toServer[c] \o Append(clientQueue[c], m) = Append(Outgoing(c), m)
    BY <1>2, LinesType, LinePushed DEF Outgoing
  <2> QED BY <1>1, <1>2, <1>3, <2>1, <2>2, LinesType, TextsOfLonger
<1>6. CASE ~CanSend(clientQueue[c])
  BY <1>1, <1>3, <1>4, <1>6 DEF Outgoing, Push
<1> QED BY <1>5, <1>6

-----------------------------------------------------------------------------
(* The order of the texts.                                                 *)

\* The texts of c that are on their way to the server are c's, and in order.
OutgoingFits(c) ==
  /\ Ordered(Outgoing(c))
  /\ TextsIn(Outgoing(c)) \subseteq {c} \X (1..typed[c])

\* What c has been shown was typed by others, before what it will be shown.
SeenFits(c) ==
  /\ Ordered(ToCome(c))
  /\ \A t \in Seen(c) : t[1] # c /\ t[2] <= typed[t[1]]
  /\ Before(TextsShown(c), TextsIn(ToCome(c)))

\* And no text that is on its way to the server is older than one c has been sent.
OrderInv ==
  /\ \A c \in Clients : OutgoingFits(c) /\ SeenFits(c)
  /\ \A c, d \in Clients : Before(Seen(c), TextsIn(Outgoing(d)))
  /\ ChatInOrder

\* ChatInOrder, client by client.
RowsInOrder(c) ==
  /\ \A i \in ChatRows(c) : chatHistory[c][i].text[1] # c
  /\ \A i, j \in ChatRows(c) :
        (i < j /\ chatHistory[c][i].text[1] = chatHistory[c][j].text[1])
           => chatHistory[c][i].text[2] < chatHistory[c][j].text[2]

\* It is the same.
LEMMA ChatRowsInOrder == ChatInOrder <=> \A c \in Clients : RowsInOrder(c)
BY DEF ChatInOrder, RowsInOrder

\* Some of the texts are in the order all of them are in.
LEMMA FewerBefore ==
  ASSUME NEW S, NEW T, Before(S, T), NEW S2 \in SUBSET S, NEW T2 \in SUBSET T
  PROVE  Before(S2, T2)
BY DEF Before

\* The order of two sets of texts is an order of their unions.
LEMMA MoreBefore ==
  ASSUME NEW S, NEW T, NEW U
  PROVE  /\ Before(S, U) /\ Before(T, U) => Before(S \cup T, U)
         /\ Before(U, S) /\ Before(U, T) => Before(U, S \cup T)
BY DEF Before

\* A step that adds no row of a text leaves the texts that are shown in order.
LEMMA HistoryShown ==
  ASSUME HistoryKept, NEW c \in Clients
  PROVE  TextsShown(c)' = TextsShown(c) /\ (RowsInOrder(c) => RowsInOrder(c)')
<1>1. ChatRows(c)' = ChatRows(c) /\ \A i \in ChatRows(c) : chatHistory'[c][i] = chatHistory[c][i]
  BY DEF HistoryKept
<1>2. TextsShown(c)' = TextsShown(c)
  <2>1. TextsShown(c)' = {chatHistory'[c][i].text : i \in ChatRows(c)'}
    BY DEF TextsShown
  <2> QED BY <1>1, <2>1 DEF TextsShown
<1>3. RowsInOrder(c) => RowsInOrder(c)'
  BY <1>1 DEF RowsInOrder
<1> QED BY <1>2, <1>3

\* A step that moves no text disturbs no order.
LEMMA CalmOrder ==
  ASSUME OrderInv, Calm
  PROVE  OrderInv'
<1>1. ASSUME NEW c \in Clients
      PROVE  /\ Thins(Outgoing(c), Outgoing(c)') /\ Thins(ToCome(c), ToCome(c)')
             /\ TextsShown(c)' = TextsShown(c) /\ Seen(c)' \subseteq Seen(c)
  <2>1. Thins(Outgoing(c), Outgoing(c)') /\ Thins(ToCome(c), ToCome(c)')
    BY DEF Calm
  <2>2. TextsShown(c)' = TextsShown(c)
    BY HistoryShown DEF Calm
  <2> QED BY <2>1, <2>2 DEF Thins, Seen
<1>2. typed' = typed
  BY DEF Calm
<1>3. ASSUME NEW c \in Clients PROVE OutgoingFits(c)' /\ SeenFits(c)'
  <2>1. OutgoingFits(c) /\ SeenFits(c)
    BY DEF OrderInv
  <2>2. OutgoingFits(c)'
    BY <1>1, <1>2, <2>1 DEF OutgoingFits, Thins
  <2>3. SeenFits(c)'
    BY <1>1, <1>2, <2>1, FewerBefore DEF SeenFits, Thins
  <2> QED BY <2>2, <2>3
<1>4. ASSUME NEW c \in Clients, NEW d \in Clients
      PROVE  Before(Seen(c)', TextsIn(Outgoing(d)'))
  <2>1. Before(Seen(c), TextsIn(Outgoing(d)))
    BY DEF OrderInv
  <2> QED BY <1>1, <2>1, FewerBefore DEF Thins
<1>5. ChatInOrder'
  <2>1. \A c \in Clients : RowsInOrder(c)'
    BY ChatRowsInOrder, HistoryShown DEF OrderInv, Calm
  <2> QED BY <2>1 DEF ChatInOrder, RowsInOrder
<1> QED BY <1>3, <1>4, <1>5 DEF OrderInv

\* Nor does the server, passing on a text.
LEMMA ChatOrder ==
  ASSUME MessengerInv, MessengerInv', OrderInv, UNCHANGED clientVars,
         NEW d \in Clients, ReceiveChat(d)
  PROVE  OrderInv'
<1> DEFINE m == Arriving(d)
<1>1. /\ TextsIn(Outgoing(d)) = {m} \cup TextsIn(Outgoing(d)')
      /\ Ordered(Outgoing(d)') /\ Before({m}, TextsIn(Outgoing(d)'))
      /\ \A e \in Clients \ {d} : Outgoing(e)' = Outgoing(e)
      /\ UNCHANGED <<chatHistory, typed>>
  BY ChatArrives DEF OrderInv, OutgoingFits
<1>2. m[1] = d /\ m[2] \in 1..typed[d]
  BY <1>1 DEF OrderInv, OutgoingFits
<1>3. ASSUME NEW e \in Clients
      PROVE  /\ TextsShown(e)' = TextsShown(e)
             /\ Ordered(ToCome(e)')
             /\ \/ TextsIn(ToCome(e)') = TextsIn(ToCome(e))
                \/ e # d /\ TextsIn(ToCome(e)') = TextsIn(ToCome(e)) \cup {m}
  <2>1. TextsShown(e)' = TextsShown(e)
    BY <1>1, SameHistory, HistoryShown
  <2>2. Ordered(ToCome(e)) /\ Before(Seen(e), TextsIn(Outgoing(d)))
    BY DEF OrderInv, SeenFits
  <2>3. Before(TextsIn(ToCome(e)), {m})
    BY <1>1, <2>2, FewerBefore DEF Seen
  <2> QED BY <2>1, <2>2, <2>3, ChatArrives DEF Keeps, Peers
<1> HIDE DEF m
<1>4. ASSUME NEW e \in Clients
      PROVE  \/ Seen(e)' = Seen(e)
             \/ e # d /\ Seen(e)' = Seen(e) \cup {m}
  <2>1. Seen(e)' = TextsShown(e)' \cup TextsIn(ToCome(e)')
    BY DEF Seen
  <2> QED BY <1>3, <2>1 DEF Seen
<1>5. ASSUME NEW e \in Clients PROVE TextsIn(Outgoing(e)') \subseteq TextsIn(Outgoing(e))
  BY <1>1
<1>6. ASSUME NEW e \in Clients PROVE OutgoingFits(e)'
  BY <1>1, <1>5 DEF OrderInv, OutgoingFits
<1>7. ASSUME NEW e \in Clients PROVE SeenFits(e)'
  <2>1. SeenFits(e) /\ Before(Seen(e), TextsIn(Outgoing(d)))
    BY DEF OrderInv
  <2>2. \A t \in Seen(e)' : t[1] # e /\ t[2] <= typed[t[1]]
    BY <1>2, <1>4, <2>1 DEF SeenFits
  <2>3. Before(TextsShown(e), {m})
    BY <1>1, <2>1, FewerBefore DEF Seen
  <2>4. Before(TextsShown(e)', TextsIn(ToCome(e)'))
    BY <1>3, <2>1, <2>3, MoreBefore DEF SeenFits
  <2> QED BY <1>1, <1>3, <2>2, <2>4 DEF SeenFits
<1>8. ASSUME NEW e \in Clients, NEW g \in Clients
      PROVE  Before(Seen(e)', TextsIn(Outgoing(g)'))
  <2>1. Before(Seen(e), TextsIn(Outgoing(g)'))
    BY <1>5, FewerBefore DEF OrderInv
  <2>2. Before({m}, TextsIn(Outgoing(g)'))
    <3>1. CASE g = d
      BY <1>1, <3>1
    <3>2. CASE g # d
      <4>1. \A t \in TextsIn(Outgoing(g)') : t[1] = g
        BY <1>5 DEF OrderInv, OutgoingFits
      <4> QED BY <1>2, <3>2, <4>1 DEF Before
    <3> QED BY <3>1, <3>2
  <2> QED BY <1>4, <2>1, <2>2, MoreBefore
<1>9. ChatInOrder'
  BY <1>1 DEF OrderInv, ChatInOrder, ChatRows
<1> QED BY <1>6, <1>7, <1>8, <1>9 DEF OrderInv

\* Nor a client that shows one.
LEMMA ShownOrder ==
  ASSUME MessengerInv, MessengerInv', OrderInv, UNCHANGED serverVars,
         NEW c \in Clients, TakesChat(c)
  PROVE  OrderInv'
<1> DEFINE m == Received(c).text
<1>1. /\ TextsIn(ToCome(c)) = {m} \cup TextsIn(ToCome(c)')
      /\ Ordered(ToCome(c)') /\ Before({m}, TextsIn(ToCome(c)'))
      /\ \A e \in Clients \ {c} : ToCome(e)' = ToCome(e) /\ chatHistory'[e] = chatHistory[e]
      /\ \A e \in Clients : Outgoing(e)' = Outgoing(e)
      /\ UNCHANGED typed
  BY ChatIsShown DEF OrderInv, SeenFits
<1> DEFINE n == Len(chatHistory[c]) + 1
<1>2. /\ n \in Nat /\ ChatRows(c) \subseteq 1..(n - 1)
      /\ ChatRows(c)' = ChatRows(c) \cup {n}
      /\ \A i \in ChatRows(c) : chatHistory'[c][i] = chatHistory[c][i]
      /\ chatHistory'[c][n].text = m
      /\ TextsShown(c)' = TextsShown(c) \cup {m}
  <2>1. chatHistory'[c] = Append(chatHistory[c],
                             [kind |-> "chat", sender |-> Received(c).sender, text |-> m])
    BY ChatIsShown
  <2> HIDE DEF m
  <2>2. /\ Len(chatHistory[c]) \in Nat
        /\ ChatRows(c) \subseteq 1..Len(chatHistory[c])
        /\ ChatRows(c)' = ChatRows(c) \cup {n}
        /\ \A i \in ChatRows(c) : chatHistory'[c][i] = chatHistory[c][i]
        /\ chatHistory'[c][n].text = m
        /\ TextsShown(c)' = TextsShown(c) \cup {m}
    BY <2>1, RowsOfLonger
  <2> QED BY <2>2
<1> HIDE DEF m, n
<1>3. SeenFits(c) /\ RowsInOrder(c)
  BY ChatRowsInOrder DEF OrderInv
<1>4. Seen(c)' = Seen(c) /\ m \in Seen(c)
  BY <1>1, <1>2 DEF Seen
<1>5. Before(TextsShown(c), {m})
  BY <1>1, <1>3, FewerBefore DEF SeenFits
<1>6. SeenFits(c)'
  <2>1. Before(TextsShown(c), TextsIn(ToCome(c)'))
    BY <1>1, <1>3, FewerBefore DEF SeenFits
  <2>2. Before(TextsShown(c) \cup {m}, TextsIn(ToCome(c)'))
    BY <1>1, <2>1, MoreBefore
  <2>3. Before(TextsShown(c)', TextsIn(ToCome(c)'))
    BY <1>2, <2>2
  <2> QED BY <1>1, <1>3, <1>4, <2>3 DEF SeenFits
<1>7. RowsInOrder(c)'
  <2>1. \A i \in ChatRows(c) : chatHistory[c][i].text \in TextsShown(c)
    BY DEF TextsShown
  <2>2. \A i \in ChatRows(c)' : chatHistory'[c][i].text[1] # c
    BY <1>2, <1>3, <1>4 DEF RowsInOrder, SeenFits
  <2>3. ASSUME NEW i \in ChatRows(c)', NEW j \in ChatRows(c)', i < j,
               chatHistory'[c][i].text[1] = chatHistory'[c][j].text[1]
        PROVE  chatHistory'[c][i].text[2] < chatHistory'[c][j].text[2]
    <3>1. i \in ChatRows(c)
      BY <1>2, <2>3
    <3>2. CASE j = n
      BY <1>2, <1>5, <2>1, <2>3, <3>1, <3>2 DEF Before
    <3>3. CASE j \in ChatRows(c)
      BY <1>2, <1>3, <2>3, <3>1, <3>3 DEF RowsInOrder
    <3> QED BY <1>2, <2>3, <3>2, <3>3
  <2> QED BY <2>2, <2>3 DEF RowsInOrder
<1>8. ASSUME NEW e \in Clients, e # c
      PROVE  SeenFits(e)' /\ RowsInOrder(e)' /\ Seen(e)' = Seen(e)
  <2>1. TextsShown(e)' = TextsShown(e) /\ ChatRows(e)' = ChatRows(e)
    BY <1>1, <1>8 DEF TextsShown, ChatRows
  <2>2. Seen(e)' = Seen(e)
    BY <1>1, <1>8, <2>1 DEF Seen
  <2>3. SeenFits(e)'
    BY <1>1, <1>8, <2>1, <2>2 DEF OrderInv, SeenFits
  <2>4. RowsInOrder(e)'
    BY <1>1, <1>8, <2>1, ChatRowsInOrder DEF OrderInv, RowsInOrder
  <2> QED BY <2>2, <2>3, <2>4
<1>9. \A e \in Clients : OutgoingFits(e)'
  BY <1>1 DEF OrderInv, OutgoingFits
<1>10. \A e, g \in Clients : Before(Seen(e)', TextsIn(Outgoing(g)'))
  BY <1>1, <1>4, <1>8 DEF OrderInv
<1>11. ChatInOrder'
  BY <1>7, <1>8 DEF ChatInOrder, RowsInOrder
<1> QED BY <1>6, <1>8, <1>9, <1>10, <1>11 DEF OrderInv

\* Nor a user who types one: it is the youngest.
LEMMA TypedOrder ==
  ASSUME MessengerInv, MessengerInv', OrderInv, UNCHANGED serverVars,
         NEW c \in Clients, TypesText(c)
  PROVE  OrderInv'
<1> DEFINE m == <<c, typed[c] + 1>>
<1>0. typed \in [Clients -> 0..MaxTexts] /\ MaxTexts \in Nat
  BY TextsAssumption DEF MessengerInv, ClientTypeOK
<1>1. /\ typed' = [typed EXCEPT ![c] = @ + 1]
      /\ \A e \in Clients \ {c} : Outgoing(e)' = Outgoing(e)
      /\ \A e \in Clients : ToCome(e)' = ToCome(e)
      /\ UNCHANGED chatHistory
      /\ \/ Outgoing(c)' = Outgoing(c)
         \/ /\ TextsIn(Outgoing(c)') = TextsIn(Outgoing(c)) \cup {m}
            /\ (Ordered(Outgoing(c)) /\ Before(TextsIn(Outgoing(c)), {m})) => Ordered(Outgoing(c)')
  BY TextIsTyped
<1>2. /\ typed'[c] = typed[c] + 1 /\ typed[c] \in Nat
      /\ \A e \in Clients : e # c => typed'[e] = typed[e]
      /\ m[1] = c /\ m[2] = typed[c] + 1
  BY <1>0, <1>1
<1> HIDE DEF m
<1>3. OutgoingFits(c)'
  <2>1. OutgoingFits(c)
    BY DEF OrderInv
  <2>2. Before(TextsIn(Outgoing(c)), {m})
    BY <1>2, <2>1 DEF OutgoingFits, Before
  <2>3. m \in {c} \X (1..typed'[c])
    BY <1>2 DEF m
  <2>4. {c} \X (1..typed[c]) \subseteq {c} \X (1..typed'[c])
    BY <1>2
  <2> QED BY <1>1, <2>1, <2>2, <2>3, <2>4 DEF OutgoingFits
<1>4. ASSUME NEW e \in Clients, e # c PROVE OutgoingFits(e)'
  BY <1>1, <1>2, <1>4 DEF OrderInv, OutgoingFits
<1>5. ASSUME NEW e \in Clients PROVE SeenFits(e)' /\ Seen(e)' = Seen(e)
  <2>1. TextsShown(e)' = TextsShown(e) /\ Seen(e)' = Seen(e) /\ ToCome(e)' = ToCome(e)
    BY <1>1 DEF TextsShown, ChatRows, Seen
  <2>2. SeenFits(e)
    BY DEF OrderInv
  <2>3. \A t \in Seen(e) : t[1] # e /\ t[2] <= typed'[t[1]]
    <3>1. \A t \in Seen(e) : t[1] \in Clients /\ t[2] \in Nat
      BY SeenType DEF Texts
    <3>2. \A d \in Clients : typed[d] \in Nat /\ typed[d] <= typed'[d] /\ typed'[d] \in Nat
      BY <1>0, <1>2
    <3> QED BY <2>2, <3>1, <3>2 DEF SeenFits
  <2> QED BY <2>1, <2>2, <2>3 DEF SeenFits
<1>6. ASSUME NEW e \in Clients, NEW g \in Clients
      PROVE  Before(Seen(e)', TextsIn(Outgoing(g)'))
  <2>1. Before(Seen(e), TextsIn(Outgoing(g)))
    BY DEF OrderInv
  <2>2. Before(Seen(e), {m})
    <3>1. \A t \in Seen(e) : t[2] \in Nat /\ (t[1] = c => t[2] <= typed[c])
      BY SeenType DEF Texts, OrderInv, SeenFits
    <3> QED BY <1>2, <3>1 DEF Before
  <2> QED BY <1>1, <1>5, <2>1, <2>2, MoreBefore
<1>7. ChatInOrder'
  BY <1>1 DEF OrderInv, ChatInOrder, ChatRows
<1> QED BY <1>3, <1>4, <1>5, <1>6, <1>7 DEF OrderInv

\* Before anybody connects there are no texts.
LEMMA OrderInit == MessengerInit => OrderInv
<1> SUFFICES ASSUME MessengerInit PROVE OrderInv
  OBVIOUS
<1>1. ASSUME NEW c \in Clients
      PROVE  Outgoing(c) = <<>> /\ ToCome(c) = <<>> /\ ChatRows(c) = {}
  BY DEF MessengerInit, Init, ClientInit, NetworkInit, ServerInit, Outgoing, ToCome, ChatRows
<1>2. \A c \in Clients : Seen(c) = {} /\ TextsShown(c) = {}
  BY <1>1, NoText DEF Seen, TextsShown
<1> QED BY <1>1, <1>2, NoText DEF OrderInv, OutgoingFits, SeenFits, Before, ChatInOrder

\* Only three steps move a text: that of a user, of a session and of a client.
LEMMA OrderStep ==
  ASSUME MessengerInv, MessengerInv', OrderInv, [MessengerNext]_messengerVars
  PROVE  OrderInv'
<1>1. CASE ServerStep /\ UNCHANGED clientVars
  BY <1>1, ServerCalm, CalmOrder, ChatOrder
<1>2. ASSUME NEW c \in Clients, ClientProgram(c), UNCHANGED serverVars
      PROVE  OrderInv'
  BY <1>2, ProgramCalm, CalmOrder, ShownOrder, TypedOrder
<1>3. CASE UNCHANGED messengerVars
  BY <1>3, NothingCalm, CalmOrder
<1> QED BY <1>1, <1>2, <1>3 DEF MessengerNext

\* The order of all texts, those still on their way included.
LEMMA AlwaysOrder == MessengerSpec => []OrderInv
<1>1. MessengerInv /\ MessengerInv' /\ OrderInv /\ [MessengerNext]_messengerVars => OrderInv'
  BY OrderStep
<1> QED BY <1>1, OrderInit, AlwaysMessengerInv, PTL DEF MessengerSpec

\* clientSentChatMessage() and the queues and connections on the way: whatever else is
\* said, renamed, transferred, dropped or broken off meanwhile, no client is shown the
\* texts of another user out of order, or twice, or its own.
THEOREM TextsInOrder == MessengerSpec => []ChatInOrder
<1>1. OrderInv => ChatInOrder
  BY DEF OrderInv
<1> QED BY <1>1, AlwaysOrder, PTL

-----------------------------------------------------------------------------
(* Who is not there.                                                       *)

\* The server has a session, or a socket, only of clients that have connected.
EndsMeet ==
  \A c \in Clients :
      clientEnd[c] = "idle" => serverEnd[c] = "idle" /\ c \notin sessions /\ c # listener

\* A client the server has not registered yet has been sent nothing.
NewcomersQuiet ==
  \A c \in Clients :
      (c \notin sessions /\ Served(c))
        => toClient[c] = <<>> /\ sendingQueue[c] = <<>> /\ clientName[c] = Anyone
           /\ chatHistory[c] = <<>>

\* Who is not there has nothing.
PresenceInv == EndsMeet /\ NewcomersQuiet

\* What the proofs of the server and of its clients' types say, together.
SystemInv == MessengerInv /\ IInv

\* Handlers reply to registered sessions, and send to them.
LEMMA HandlersSpare ==
  ASSUME SystemInv, NEW c \in Clients, HandlerStep(c), NEW e \in Clients, e \notin sessions
  PROVE  sendingQueue'[e] = sendingQueue[e]
<1>0. c \in sessions /\ sendingQueue \in [Clients -> Seq(Messages)] /\ e # c
  BY HandlerFrame DEF SystemInv, MessengerInv, IInv, ThreadsInv, TypeInv, TypeOK
<1>1. CASE ReceiveHello(c) \/ ReceiveBye(c) \/ ReceiveNickname(c)
  BY <1>0, <1>1 DEF ReceiveHello, ReceiveBye, ReceiveNickname
<1>2. CASE Rename(c) \/ ReceiveStatus(c) \/ ReceiveFileRequest(c)
  BY <1>0, <1>2 DEF Rename, ReceiveStatus, ReceiveFileRequest, Reply
<1>3. CASE ReceiveChat(c) \/ AnnounceTransfer(c) \/ ReceiveFileData(c)
  BY <1>0, <1>3 DEF ReceiveChat, AnnounceTransfer, ReceiveFileData, Reply, Sent, Peers
<1>4. CASE ScanAnswers(c)
  <2>1. \/ UNCHANGED sendingQueue
        \/ \E p \in sessions : sendingQueue' = Reply(p, Verdict(c))
    BY <1>4 DEF ScanAnswers, IsSender, Flagged, Peers
  <2> QED BY <1>0, <2>1 DEF Reply
<1>5. CASE SaveAnswer(c) \/ FlagSender(c) \/ AcceptOwnTransfer(c) \/ ResetStatus(c)
  BY <1>5 DEF SaveAnswer, FlagSender, AcceptOwnTransfer, ResetStatus
<1> QED BY <1>1, <1>2, <1>3, <1>4, <1>5 DEF HandlerStep

\* A handler leaves the client's side of every connection alone.
LEMMA HandlersLeaveClients ==
  ASSUME NEW c \in Clients, HandlerStep(c)
  PROVE  UNCHANGED <<toClient, clientEnd, serverEnd>>
BY DEF HandlerStep, ReceiveHello, ReceiveBye, ReceiveNickname, Rename, ReceiveChat, ReceiveStatus,
       SaveAnswer, ScanAnswers, ReceiveFileRequest, AnnounceTransfer, FlagSender,
       AcceptOwnTransfer, ReceiveFileData, ResetStatus, NetworkIdle

\* What no step of the server does to a client that is not there.
Spared(e) ==
  /\ (e \notin sessions' /\ Served(e)') => (e \notin sessions /\ Served(e))
  /\ (e \notin sessions /\ toClient[e] = <<>> /\ sendingQueue[e] = <<>>)
       => toClient'[e] = <<>> /\ sendingQueue'[e] = <<>>
  /\ clientEnd'[e] = "idle" => clientEnd[e] = "idle"
  /\ clientEnd[e] = "idle" => serverEnd'[e] = "idle" /\ e \notin sessions' /\ e # listener'

\* Every step of the server is like that.
LEMMA ServerSpares ==
  ASSUME SystemInv, EndsMeet, ServerStep, NEW e \in Clients
  PROVE  Spared(e)
<1>0. /\ TypeOK /\ serverEnd \in [Clients -> Ends] /\ clientEnd \in [Clients -> Ends]
      /\ sendingQueue \in [Clients -> Seq(Messages)] /\ toClient \in [Clients -> Seq(Messages)]
      /\ NoClient \notin Clients
  BY NoClientAssumption DEF SystemInv, MessengerInv, TypeInv, TypeOK, NetworkTypeOK
<1>1. clientEnd[e] = "idle" => serverEnd[e] = "idle" /\ e \notin sessions /\ e # listener
  BY DEF EndsMeet
<1>2. CASE Register
  BY <1>0, <1>1, <1>2 DEF Register, networkVars, sessionVars, Served, Spared
<1>3. ASSUME NEW c \in Clients, Accept(c) PROVE Spared(e)
  BY <1>0, <1>1, <1>3 DEF Accept, Served, Spared, Gone
<1>4. ASSUME NEW c \in Clients, HandlerStep(c) PROVE Spared(e)
  <2>1. UNCHANGED <<toClient, clientEnd, serverEnd, sessions, listener>>
    BY <1>4, HandlersLeaveClients, HandlerFrame
       DEF SystemInv, MessengerInv, IInv, ThreadsInv
  <2>2. e \notin sessions => sendingQueue'[e] = sendingQueue[e]
    BY <1>4, HandlersSpare
  <2> QED BY <1>1, <2>1, <2>2 DEF Served, Spared
<1>5. ASSUME NEW cause, Dies(cause), UNCHANGED <<toClient, clientEnd, sessions, listener, sendingQueue>>
      PROVE  Spared(e)
  <2>1. Served(e)' => Served(e)
    BY <1>0, <1>5, DeathServes
  <2>2. clientEnd[e] = "idle" => serverEnd'[e] = "idle"
    BY <1>1, <1>5 DEF Dies
  <2> QED BY <1>1, <1>5, <2>1, <2>2 DEF Spared
<1>6. ASSUME NEW c \in Clients, ReceiveUnknown(c) \/ WriteAfterReset(c) PROVE Spared(e)
  BY <1>5, <1>6 DEF ReceiveUnknown, WriteAfterReset, sessionVars
<1>7. ASSUME NEW c \in Clients, Leave(c) \/ Hangup(c) PROVE Spared(e)
  <2>1. RemoveSession(c) /\ UNCHANGED <<toClient, clientEnd, listener>>
    BY <1>7 DEF Leave, Hangup
  <2>2. CASE c \notin sessions
    BY <1>5, <2>1, <2>2 DEF RemoveSession
  <2>3. CASE c \in sessions
    <3>1. /\ sessions' = sessions \ {c}
          /\ serverEnd' = [serverEnd EXCEPT ![c] = AfterClose(toServer[c])]
          /\ sendingQueue' = [sendingQueue EXCEPT ![c] = <<>>]
      BY <2>1, <2>3 DEF RemoveSession
    <3> QED BY <1>0, <1>1, <2>1, <2>3, <3>1 DEF Served, Spared, AfterClose, Gone
  <2> QED BY <2>2, <2>3
<1>8. ASSUME NEW c \in Clients, Write(c) \/ WriteInVain(c) PROVE Spared(e)
  <2>1. /\ sendingQueue[c] # <<>> /\ UNCHANGED <<serverEnd, sessions, listener>>
        /\ sendingQueue' = [sendingQueue EXCEPT ![c] = Tail(@)]
    BY <1>8 DEF Write, WriteInVain, ServerIdle
  <2>2. e # c => toClient'[e] = toClient[e] /\ clientEnd'[e] = clientEnd[e]
    BY <1>0, <1>8 DEF Write, WriteInVain
  <2>3. clientEnd'[c] # "idle"
    BY <1>0, <1>8 DEF Write, WriteInVain, Gone
  <2> QED BY <1>0, <1>1, <2>1, <2>2, <2>3 DEF Served, Spared
<1> QED BY <1>2, <1>3, <1>4, <1>6, <1>7, <1>8 DEF ServerStep, SessionStep, HandlerStep

\* And no step of a client does to one the server has not registered.
Untold(e) ==
  /\ Served(e)' => Served(e)
  /\ toClient[e] = <<>> => toClient'[e] = <<>> /\ clientName'[e] = clientName[e]
                           /\ chatHistory'[e] = chatHistory[e]
  /\ clientEnd'[e] = "idle" => clientEnd[e] = "idle"
  /\ clientEnd[e] = "idle" => serverEnd'[e] = serverEnd[e]

\* Every step of a client is like that.
LEMMA ClientsSpare ==
  ASSUME MessengerInv, EndsMeet, NEW c \in Clients, ClientProgram(c), NEW e \in Clients
  PROVE  Untold(e)
<1>0. /\ serverEnd \in [Clients -> Ends] /\ clientEnd \in [Clients -> Ends]
      /\ toClient \in [Clients -> Seq(Messages)]
      /\ clientName \in [Clients -> Names] /\ chatHistory \in [Clients -> Seq(Rows)]
  BY DEF MessengerInv, ClientTypeOK, NetworkTypeOK
<1>1. clientEnd[e] = "idle" => serverEnd[e] = "idle"
  BY DEF EndsMeet
<1>2. ASSUME NEW type, Takes(c, type), UNCHANGED clientEnd \/ Aborts(c),
             \/ UNCHANGED <<clientName, chatHistory>>
             \/ \E row : NewRow(c, row) /\ UNCHANGED clientName
             \/ \E name : clientName' = [clientName EXCEPT ![c] = name] /\ UNCHANGED chatHistory
      PROVE  Untold(e)
  <2>1. toClient[c] # <<>> /\ UNCHANGED serverEnd
        /\ toClient' = [toClient EXCEPT ![c] = Tail(@)]
    BY <1>2 DEF Takes
  <2>2. clientEnd'[e] = "idle" => clientEnd[e] = "idle"
    BY <1>0, <1>2 DEF Aborts, AfterClose
  <2>3. e # c => /\ toClient'[e] = toClient[e] /\ clientName'[e] = clientName[e]
                 /\ chatHistory'[e] = chatHistory[e]
    BY <1>0, <1>2, <2>1 DEF NewRow
  <2> QED BY <2>1, <2>2, <2>3 DEF Untold, Served
<1>3. CASE TakesStatus(c)
  BY <1>2, <1>3 DEF TakesStatus
<1>4. CASE TakesNickname(c)
  BY <1>2, <1>4 DEF TakesNickname
<1>5. CASE TakesChat(c)
  BY <1>2, <1>5 DEF TakesChat
<1>6. CASE TakesBye(c) \/ TakesFileRequest(c)
  BY <1>2, <1>6 DEF TakesBye, TakesFileRequest
<1>7. CASE TakesFileData(c)
  BY <1>2, <1>7 DEF TakesFileData
<1>8. CASE ClientWrites(c)
  BY <1>8 DEF ClientWrites, Untold, Served
<1>9. CASE ClientWritesInVain(c) \/ ClientEnds(c)
  <2>1. UNCHANGED <<toClient, clientName, chatHistory>>
    BY <1>9 DEF ClientWritesInVain, ClientEnds
  <2>2. clientEnd'[e] = "idle" => clientEnd[e] = "idle"
    BY <1>0, <1>9 DEF ClientWritesInVain, ClientEnds, AfterClose
  <2>3. \/ UNCHANGED serverEnd
        \/ serverEnd[c] \in Gone /\ \E end \in Gone : serverEnd' = [serverEnd EXCEPT ![c] = end]
    BY <1>9 DEF ClientWritesInVain, ClientEnds
  <2> QED BY <1>0, <1>1, <2>1, <2>2, <2>3 DEF Untold, Served, Gone
<1>10. CASE ClientConnects(c)
  BY <1>0, <1>10 DEF ClientConnects, Untold, Served
<1>11. CASE \/ Cycle(c) \/ UserAnswers(c) \/ TypesText(c)
            \/ \E name \in TypedNames : TypesNickname(c, name)
            \/ \E file \in Files : SendsFile(c, file)
            \/ OpensDialog(c) \/ ClosesDialog(c) \/ Quits(c)
  <2>1. UNCHANGED <<networkVars, clientName, chatHistory>>
    BY <1>11 DEF Cycle, UserAnswers, TypesText, TypesNickname, SendsFile, OpensDialog,
                 ClosesDialog, Quits
  <2> QED BY <2>1 DEF networkVars, Untold, Served
<1> QED BY <1>3, <1>4, <1>5, <1>6, <1>7, <1>8, <1>9, <1>10, <1>11 DEF ClientProgram, NetworkThread

\* At the start nobody is there ...
LEMMA PresenceInit == MessengerInit => PresenceInv
BY NoClientAssumption
   DEF MessengerInit, Init, ClientInit, NetworkInit, ServerInit, PresenceInv, EndsMeet,
       NewcomersQuiet

\* ... and every step keeps it so for those who are not.
LEMMA PresenceStep ==
  ASSUME SystemInv, PresenceInv, [MessengerNext]_messengerVars
  PROVE  PresenceInv'
<1>1. CASE ServerStep /\ UNCHANGED clientVars
  <2>1. UNCHANGED <<clientName, chatHistory>>
    BY <1>1 DEF clientVars
  <2>2. ASSUME NEW e \in Clients PROVE Spared(e)
    BY <1>1, ServerSpares DEF PresenceInv
  <2>3. EndsMeet'
    BY <2>2 DEF EndsMeet, Spared
  <2>4. NewcomersQuiet'
    BY <2>1, <2>2 DEF PresenceInv, NewcomersQuiet, Spared
  <2> QED BY <2>3, <2>4 DEF PresenceInv
<1>2. ASSUME NEW c \in Clients, ClientProgram(c), UNCHANGED serverVars
      PROVE  PresenceInv'
  <2>1. UNCHANGED <<sessions, listener, sendingQueue>>
    BY <1>2 DEF serverVars, sessionVars
  <2>2. ASSUME NEW e \in Clients PROVE Untold(e)
    BY <1>2, ClientsSpare DEF PresenceInv, SystemInv
  <2>3. EndsMeet'
    BY <2>1, <2>2 DEF PresenceInv, EndsMeet, Untold
  <2>4. NewcomersQuiet'
    BY <2>1, <2>2 DEF PresenceInv, NewcomersQuiet, Untold
  <2> QED BY <2>3, <2>4 DEF PresenceInv
<1>3. CASE UNCHANGED messengerVars
  BY <1>3 DEF messengerVars, vars, networkVars, serverVars, sessionVars, clientVars, PresenceInv,
     EndsMeet, NewcomersQuiet, Served
<1> QED BY <1>1, <1>2, <1>3 DEF MessengerNext

\* What ServerProofs and MessengerProofs show, in every state.
LEMMA AlwaysSystemInv == MessengerSpec => []SystemInv
BY AlwaysMessengerInv, SystemIsServer, Invariance, PTL DEF SystemInv

\* So nobody is told anything before its session is registered ...
LEMMA AlwaysPresence == MessengerSpec => []PresenceInv
<1>1. SystemInv /\ PresenceInv /\ [MessengerNext]_messengerVars => PresenceInv'
  BY PresenceStep
<1> QED BY <1>1, PresenceInit, AlwaysSystemInv, PTL DEF MessengerSpec

-----------------------------------------------------------------------------
(* No text is missing.                                                     *)

\* Between two texts of a user there are all.
NoGaps(S) ==
  \A s, t \in S : s[1] = t[1] => \A k \in s[2]..t[2] : <<s[1], k>> \in S

\* From the first of c's texts on its way to the server, all that c has typed is.
LineWhole(c) ==
  Served(c) => \A t \in TextsIn(Outgoing(c)) : \A k \in t[2]..typed[c] :
                  <<c, k>> \in TextsIn(Outgoing(c))

\* From the first of d's texts that c has been shown, or will be, all that d has
\* typed has come to c, or will.
SeenWhole(c, d) ==
  (Current(c) /\ Served(c) /\ Served(d)) =>
     \A t \in Seen(c) : t[1] = d => \A k \in t[2]..typed[d] :
        <<d, k>> \in Seen(c) \cup TextsIn(Outgoing(d))

\* Together: what a client has yet to be shown continues what it has been, and what the
\* server has yet to read continues that.
GapInv ==
  /\ \A c \in Clients : Current(c) => NoGaps(Seen(c))
  /\ \A c \in Clients : LineWhole(c)
  /\ \A c, d \in Clients : SeenWhole(c, d)
  /\ ChatWithoutGaps

\* The beginning of what has no gaps has none.
LEMMA FirstPart ==
  ASSUME NEW S \in SUBSET Texts, NEW T \in SUBSET Texts, NoGaps(S \cup T), Before(S, T)
  PROVE  NoGaps(S)
<1>1. ASSUME NEW s \in S, NEW t \in S, s[1] = t[1], NEW k \in s[2]..t[2]
      PROVE  <<s[1], k>> \in S
  <2>1. <<s[1], k>> \in S \cup T
    BY <1>1 DEF NoGaps
  <2>2. <<s[1], k>>[1] = t[1] /\ <<s[1], k>>[2] = k
    BY <1>1
  <2>3. s[2] \in Nat /\ t[2] \in Nat
    BY DEF Texts
  <2>4. k \in Int /\ k <= t[2]
    BY <1>1, <2>3
  <2>5. <<s[1], k>> \in T => t[2] < k
    BY <2>2 DEF Before
  <2> QED BY <2>1, <2>3, <2>4, <2>5
<1> QED BY <1>1 DEF NoGaps

\* A text that follows on the last.
LEMMA OneMore ==
  ASSUME NEW S \in SUBSET Texts, NEW m \in Texts, NoGaps(S),
         \A t \in S : t[1] = m[1] =>
            t[2] < m[2] /\ \A k \in t[2]..m[2] : k < m[2] => <<m[1], k>> \in S
  PROVE  NoGaps(S \cup {m})
<1>1. m = <<m[1], m[2]>> /\ m[2] \in Nat /\ \A t \in S : t[2] \in Nat
  BY DEF Texts
<1>2. ASSUME NEW s \in S \cup {m}, NEW t \in S \cup {m}, s[1] = t[1], NEW k \in s[2]..t[2]
      PROVE  <<s[1], k>> \in S \cup {m}
  <2>1. CASE s \in S /\ t \in S
    BY <1>2, <2>1 DEF NoGaps
  <2>2. CASE s \in S /\ t = m
    <3>1. k = m[2] \/ k < m[2]
      BY <1>1, <1>2, <2>2
    <3> QED BY <1>1, <1>2, <2>2, <3>1
  <2>3. CASE s = m /\ t \in S
    <3>1. t[2] < m[2]
      BY <1>2, <2>3
    <3> QED BY <1>1, <1>2, <2>3, <3>1
  <2>4. CASE s = m /\ t = m
    <3>1. k = m[2]
      BY <1>1, <1>2, <2>4
    <3> QED BY <1>1, <2>4, <3>1
  <2> QED BY <2>1, <2>2, <2>3, <2>4
<1> QED BY <1>2 DEF NoGaps

\* ChatWithoutGaps, by its parts.
LEMMA ShownWithoutGaps == ChatWithoutGaps <=> \A c \in Clients : NoGaps(TextsShown(c))
BY DEF ChatWithoutGaps, NoGaps

\* A step that moves no text opens no gap.
LEMMA CalmGaps ==
  ASSUME MessengerInv, MessengerInv', OrderInv, GapInv, Calm
  PROVE  GapInv'
<1>1. ASSUME NEW c \in Clients
      PROVE  /\ Current(c)' => Current(c) /\ NoGaps(Seen(c)')
             /\ Served(c)' => Served(c) /\ TextsIn(Outgoing(c)') = TextsIn(Outgoing(c))
             /\ Current(c)' /\ Served(c)' => Seen(c)' = Seen(c)
  <2>1. TextsShown(c)' = TextsShown(c)
    BY HistoryShown DEF Calm
  <2>2. /\ Seen(c) = TextsShown(c) \cup TextsIn(ToCome(c))
        /\ Seen(c)' = TextsShown(c)' \cup TextsIn(ToCome(c)')
    BY DEF Seen
  <2>3. /\ Served(c)' => Served(c) /\ TextsIn(Outgoing(c)') = TextsIn(Outgoing(c))
        /\ Current(c)' /\ Served(c)' => Seen(c)' = Seen(c)
    BY <2>1, <2>2 DEF Calm, Keeps
  <2>4. ASSUME Current(c)' PROVE Current(c) /\ NoGaps(Seen(c)')
    <3> DEFINE lost == TextsIn(ToCome(c)) \ TextsIn(ToCome(c)')
    <3>1. Current(c) /\ NoGaps(Seen(c))
      BY <2>4 DEF Calm, GapInv
    <3>2. /\ TextsIn(ToCome(c)') \subseteq TextsIn(ToCome(c))
          /\ Before(TextsIn(ToCome(c)'), lost)
      BY <2>4 DEF Calm, Thins, Shortens, OrderInv, SeenFits
    <3>3. Before(TextsShown(c)', lost)
      BY <2>1, FewerBefore DEF OrderInv, SeenFits
    <3>4. Before(Seen(c)', lost)
      BY <2>2, <3>2, <3>3, MoreBefore
    <3>5. Seen(c) = Seen(c)' \cup lost /\ lost \in SUBSET Texts
      BY <2>1, <2>2, <3>2, SeenType
    <3>6. Seen(c)' \in SUBSET Texts
      BY <3>5, SeenType
    <3> HIDE DEF lost
    <3> QED BY <3>1, <3>4, <3>5, <3>6, FirstPart
  <2> QED BY <2>3, <2>4
<1>2. typed' = typed
  BY DEF Calm
<1>3. ASSUME NEW c \in Clients PROVE LineWhole(c)'
  BY <1>1, <1>2 DEF GapInv, LineWhole
<1>4. ASSUME NEW c \in Clients, NEW d \in Clients PROVE SeenWhole(c, d)'
  BY <1>1, <1>2 DEF GapInv, SeenWhole
<1>5. ChatWithoutGaps'
  <2>1. \A c \in Clients : TextsShown(c)' = TextsShown(c)
    BY HistoryShown DEF Calm
  <2> QED BY <2>1 DEF GapInv, ChatWithoutGaps
<1> QED BY <1>1, <1>3, <1>4, <1>5 DEF GapInv

\* A session the server has registered has its socket.
LEMMA SessionsServed ==
  ASSUME SystemInv, Running, NEW c \in Clients, c \in sessions
  PROVE  Served(c)
BY DEF SystemInv, IInv, ThreadsInv, SessionsHaveThreads, Served, Gone

\* The text the server passes on follows, for every peer, on the last of its author.
LEMMA ChatGaps ==
  ASSUME SystemInv, MessengerInv', OrderInv, PresenceInv, GapInv, QueuesHaveRoom,
         UNCHANGED clientVars, NEW d \in Clients, ReceiveChat(d)
  PROVE  GapInv'
<1> DEFINE m == Arriving(d)
<1>0. MessengerInv
  BY DEF SystemInv
<1>1. /\ TextsIn(Outgoing(d)) = {m} \cup TextsIn(Outgoing(d)')
      /\ Before({m}, TextsIn(Outgoing(d)'))
      /\ \A e \in Clients \ {d} : Outgoing(e)' = Outgoing(e)
      /\ UNCHANGED <<chatHistory, typed, clientStatus, serverEnd>>
  BY <1>0, ChatArrives DEF OrderInv, OutgoingFits
<1>2. /\ m \in Texts /\ m[1] = d /\ m[2] \in Nat /\ m[2] <= typed[d] /\ typed[d] \in Nat
      /\ m = <<d, m[2]>>
  <2>1. m \in {d} \X (1..typed[d]) /\ m \in Texts
    BY <1>0, <1>1, SeenType DEF OrderInv, OutgoingFits
  <2>2. typed[d] \in Nat
    BY <1>0, TextsAssumption DEF MessengerInv, ClientTypeOK
  <2> QED BY <2>1, <2>2
<1>3. ASSUME NEW e \in Clients
      PROVE  /\ TextsShown(e)' = TextsShown(e)
             /\ e \in Peers(d) => Seen(e)' = Seen(e) \cup {m}
             /\ e \notin Peers(d) => Seen(e)' = Seen(e)
             /\ Current(e)' <=> Current(e)
             /\ Served(e)' <=> Served(e)
  <2>1. TextsShown(e)' = TextsShown(e)
    BY <1>1, SameHistory, HistoryShown
  <2>2. Seen(e)' = TextsShown(e)' \cup TextsIn(ToCome(e)')
    BY DEF Seen
  <2>3. /\ e \in Peers(d) => TextsIn(ToCome(e)') = TextsIn(ToCome(e)) \cup {m}
        /\ e \notin Peers(d) => TextsIn(ToCome(e)') = TextsIn(ToCome(e))
    BY <1>0, ChatArrives DEF Keeps, QueuesHaveRoom
  <2>4. (Current(e)' <=> Current(e)) /\ (Served(e)' <=> Served(e))
    BY <1>1 DEF Current, Served
  <2> HIDE DEF m
  <2>5. Seen(e) = TextsShown(e) \cup TextsIn(ToCome(e))
    BY DEF Seen
  <2> QED BY <2>1, <2>2, <2>3, <2>4, <2>5
<1>4. Running /\ d \in sessions
  BY DEF ReceiveChat, Reads, CanRead
<1>5. Served(d) /\ \A e \in Clients : e \in Peers(d) => Served(e) /\ e # d
  BY <1>4, SessionsServed DEF Peers
<1> HIDE DEF m
<1>6. ASSUME NEW e \in Clients PROVE Seen(e) \in SUBSET Texts /\ Before(Seen(e), {m})
  BY <1>0, <1>1, SeenType, FewerBefore DEF OrderInv
<1>7. ASSUME NEW e \in Clients PROVE LineWhole(e)'
  <2>1. CASE e # d
    BY <1>1, <1>3, <2>1 DEF GapInv, LineWhole
  <2>2. ASSUME NEW t \in TextsIn(Outgoing(d)'), NEW k \in t[2]..typed[d]
        PROVE  <<d, k>> \in TextsIn(Outgoing(d)')
    <3>1. <<d, k>> \in TextsIn(Outgoing(d))
      BY <1>1, <1>5, <2>2 DEF GapInv, LineWhole
    <3>2. t[1] = d /\ t[2] \in Nat /\ m[2] < t[2]
      <4>1. t \in {d} \X (1..typed[d])
        BY <1>1 DEF OrderInv, OutgoingFits
      <4>2. t[1] = d /\ t[2] \in Nat
        BY <1>2, <4>1
      <4> QED BY <1>1, <1>2, <4>2 DEF Before
    <3>3. k # m[2]
      BY <1>2, <2>2, <3>2
    <3>4. <<d, k>> # m
      BY <1>2, <3>3
    <3> QED BY <1>1, <3>1, <3>4
  <2> QED BY <1>1, <2>1, <2>2 DEF LineWhole
<1>8. ASSUME NEW e \in Clients, Current(e)' PROVE NoGaps(Seen(e)')
  <2>1. Current(e) /\ NoGaps(Seen(e))
    BY <1>3, <1>8 DEF GapInv
  <2>2. CASE e \notin Peers(d)
    BY <1>3, <2>1, <2>2
  <2>3. CASE e \in Peers(d)
    <3>1. ASSUME NEW t \in Seen(e), t[1] = m[1]
          PROVE  t[2] < m[2] /\ \A k \in t[2]..m[2] : k < m[2] => <<m[1], k>> \in Seen(e)
      <4>1. t[2] < m[2] /\ t[2] \in Nat
        BY <1>6, <3>1 DEF Before, Texts
      <4>2. ASSUME NEW k \in t[2]..m[2], k < m[2] PROVE <<d, k>> \in Seen(e)
        <5>1. k \in Int /\ k \in t[2]..typed[d]
          BY <1>2, <4>1, <4>2
        <5>2. <<d, k>> \in Seen(e) \cup TextsIn(Outgoing(d))
          BY <1>2, <1>5, <2>1, <2>3, <3>1, <5>1 DEF GapInv, SeenWhole
        <5>3. <<d, k>>[1] = m[1] /\ <<d, k>>[2] = k
          BY <1>2
        <5>4. <<d, k>> \notin TextsIn(Outgoing(d)')
          <6>1. <<d, k>> \in TextsIn(Outgoing(d)') => m[2] < k
            BY <1>1, <5>3 DEF Before
          <6> QED BY <1>2, <4>2, <5>1, <6>1
        <5>5. <<d, k>> # m
          BY <1>2, <4>2, <5>3
        <5> QED BY <1>1, <5>2, <5>4, <5>5
      <4> QED BY <1>2, <4>1, <4>2
    <3> QED BY <1>2, <1>3, <1>6, <2>1, <2>3, <3>1, OneMore
  <2> QED BY <2>2, <2>3
<1>9. ASSUME NEW e \in Clients, NEW g \in Clients PROVE SeenWhole(e, g)'
  <2> SUFFICES ASSUME Current(e)', Served(e)', Served(g)', NEW t \in Seen(e)', t[1] = g,
                      NEW k \in t[2]..typed[g]
               PROVE  <<g, k>> \in Seen(e)' \cup TextsIn(Outgoing(g)')
    BY <1>1 DEF SeenWhole
  <2>0. Current(e) /\ Served(e) /\ Served(g) /\ SeenWhole(e, g)
    BY <1>3 DEF GapInv
  <2>1. CASE g # d
    BY <1>1, <1>2, <1>3, <2>0, <2>1 DEF SeenWhole
  <2>2. CASE g = d /\ e \in Peers(d)
    <3>1. CASE t \in Seen(e)
      BY <1>1, <1>3, <2>0, <2>2, <3>1 DEF SeenWhole
    <3>2. CASE t = m
      BY <1>1, <1>3, <2>0, <2>2, <3>2 DEF GapInv, LineWhole
    <3> QED BY <1>3, <2>2, <3>1, <3>2
  <2>3. CASE g = d /\ e \notin Peers(d)
    <3>1. t \in Seen(e)
      BY <1>3, <2>3
    <3>2. e # d
      BY <2>3, <3>1 DEF OrderInv, SeenFits
    <3>3. e \notin sessions
      BY <2>3, <3>2 DEF Peers
    <3>4. /\ toClient[e] = <<>> /\ sendingQueue[e] = <<>> /\ chatHistory[e] = <<>>
      BY <2>0, <3>3 DEF PresenceInv, NewcomersQuiet
    <3>5. ToCome(e) = <<>> /\ ChatRows(e) = {}
      BY <3>4 DEF ToCome, ChatRows
    <3>6. Seen(e) = {}
      BY <3>5, NoText DEF Seen, TextsShown
    <3> QED BY <3>1, <3>6
  <2> QED BY <2>1, <2>2, <2>3
<1>10. ChatWithoutGaps'
  BY <1>3 DEF GapInv, ChatWithoutGaps
<1> QED BY <1>7, <1>8, <1>9, <1>10 DEF GapInv

\* The text that is shown follows on the last that was.
LEMMA ShownGaps ==
  ASSUME MessengerInv, MessengerInv', OrderInv, OrderInv', GapInv, UNCHANGED serverVars,
         NEW c \in Clients, TakesChat(c)
  PROVE  GapInv'
<1> DEFINE m == Received(c).text
<1>1. /\ TextsIn(ToCome(c)) = {m} \cup TextsIn(ToCome(c)')
      /\ \A e \in Clients \ {c} : ToCome(e)' = ToCome(e) /\ chatHistory'[e] = chatHistory[e]
      /\ \A e \in Clients : Outgoing(e)' = Outgoing(e)
      /\ UNCHANGED <<typed, clientStatus, serverEnd>>
  BY ChatIsShown
<1>2. TextsShown(c)' = TextsShown(c) \cup {m}
  <2>1. chatHistory'[c] = Append(chatHistory[c],
                             [kind |-> "chat", sender |-> Received(c).sender, text |-> m])
    BY ChatIsShown
  <2> HIDE DEF m
  <2> QED BY <2>1, RowsOfLonger
<1> HIDE DEF m
<1>3. ASSUME NEW e \in Clients, e # c
      PROVE  TextsShown(e)' = TextsShown(e) /\ Seen(e)' = Seen(e)
  <2>1. TextsShown(e)' = TextsShown(e)
    BY <1>1, <1>3 DEF TextsShown, ChatRows
  <2> QED BY <1>1, <1>3, <2>1 DEF Seen
<1>4. Seen(c)' = Seen(c)
  BY <1>1, <1>2 DEF Seen
<1>5. ASSUME NEW e \in Clients PROVE (Current(e)' <=> Current(e)) /\ (Served(e)' <=> Served(e))
  BY <1>1 DEF Current, Served
<1>6. /\ \A e \in Clients : Current(e)' => NoGaps(Seen(e)')
      /\ \A e \in Clients : LineWhole(e)'
      /\ \A e, g \in Clients : SeenWhole(e, g)'
  BY <1>1, <1>3, <1>4, <1>5 DEF GapInv, LineWhole, SeenWhole
<1>7. NoGaps(TextsShown(c)')
  <2>1. NoGaps(Seen(c)')
    <3>1. Current(c)
      BY DEF TakesChat, Takes, ClientRuns, Current
    <3> QED BY <1>5, <1>6, <3>1
  <2>2. Before(TextsShown(c)', TextsIn(ToCome(c)'))
    BY DEF OrderInv, SeenFits
  <2>3. Seen(c)' = TextsShown(c)' \cup TextsIn(ToCome(c)')
    BY DEF Seen
  <2>4. Seen(c)' \in SUBSET Texts
    BY <1>4, SeenType
  <2> QED BY <2>1, <2>2, <2>3, <2>4, FirstPart
<1>8. ChatWithoutGaps'
  <2>1. \A e \in Clients : NoGaps(TextsShown(e)')
    BY <1>3, <1>7, ShownWithoutGaps DEF GapInv
  <2> QED BY <2>1 DEF ChatWithoutGaps, NoGaps
<1> QED BY <1>6, <1>8 DEF GapInv

\* The text that is typed follows on the last that was.
LEMMA TypedGaps ==
  ASSUME MessengerInv, MessengerInv', OrderInv, GapInv, QueuesHaveRoom, UNCHANGED serverVars,
         NEW c \in Clients, TypesText(c)
  PROVE  GapInv'
<1> DEFINE m == <<c, typed[c] + 1>>
<1>0. typed \in [Clients -> Nat]
  BY TextsAssumption DEF MessengerInv, ClientTypeOK
<1>1. /\ typed' = [typed EXCEPT ![c] = @ + 1]
      /\ \A e \in Clients \ {c} : Outgoing(e)' = Outgoing(e)
      /\ \A e \in Clients : ToCome(e)' = ToCome(e)
      /\ UNCHANGED <<chatHistory, clientStatus, serverEnd>>
      /\ TextsIn(Outgoing(c)') = TextsIn(Outgoing(c)) \cup {m}
  BY TextIsTyped DEF QueuesHaveRoom
<1>2. /\ typed'[c] = typed[c] + 1 /\ typed[c] \in Nat
      /\ \A e \in Clients : e # c => typed'[e] = typed[e]
  BY <1>0, <1>1
<1>3. ASSUME NEW e \in Clients
      PROVE  /\ TextsShown(e)' = TextsShown(e) /\ Seen(e)' = Seen(e)
             /\ Current(e)' <=> Current(e)
             /\ Served(e)' <=> Served(e)
  <2>1. TextsShown(e)' = TextsShown(e)
    BY <1>1 DEF TextsShown, ChatRows
  <2>2. Seen(e)' = Seen(e)
    BY <1>1, <2>1 DEF Seen
  <2> QED BY <1>1, <2>1, <2>2 DEF Current, Served
<1>4. ASSUME NEW first \in Nat, NEW k \in first..typed'[c]
      PROVE  k \in first..typed[c] \/ <<c, k>> = m
  BY <1>2, <1>4
<1> HIDE DEF m
<1>5. ASSUME NEW e \in Clients PROVE LineWhole(e)'
  <2>1. CASE e # c
    BY <1>1, <1>2, <1>3, <2>1 DEF GapInv, LineWhole
  <2>2. ASSUME Served(c)', NEW t \in TextsIn(Outgoing(c)'), NEW k \in t[2]..typed'[c]
        PROVE  <<c, k>> \in TextsIn(Outgoing(c)')
    <3>1. CASE t = m
      <4>1. k = typed[c] + 1
        BY <1>2, <2>2, <3>1 DEF m
      <4> QED BY <1>1, <4>1 DEF m
    <3>2. CASE t \in TextsIn(Outgoing(c))
      <4>1. t[2] \in Nat
        BY <3>2, SeenType DEF Texts
      <4>2. k \in t[2]..typed[c] \/ <<c, k>> = m
        BY <1>4, <2>2, <4>1
      <4> QED BY <1>1, <1>3, <2>2, <3>2, <4>2 DEF GapInv, LineWhole
    <3> QED BY <1>1, <2>2, <3>1, <3>2
  <2> QED BY <2>1, <2>2 DEF LineWhole
<1>6. ASSUME NEW e \in Clients, NEW g \in Clients PROVE SeenWhole(e, g)'
  <2>1. CASE g # c
    BY <1>1, <1>2, <1>3, <2>1 DEF GapInv, SeenWhole
  <2>2. ASSUME Current(e)', Served(e)', Served(c)', NEW t \in Seen(e)', t[1] = c,
               NEW k \in t[2]..typed'[c]
        PROVE  <<c, k>> \in Seen(e)' \cup TextsIn(Outgoing(c)')
    <3>1. t \in Seen(e) /\ t[2] \in Nat
      BY <1>3, <2>2, SeenType DEF Texts
    <3>2. k \in t[2]..typed[c] \/ <<c, k>> = m
      BY <1>4, <2>2, <3>1
    <3> QED BY <1>1, <1>3, <2>2, <3>1, <3>2 DEF GapInv, SeenWhole
  <2> QED BY <2>1, <2>2 DEF SeenWhole
<1>7. ChatWithoutGaps'
  BY <1>3 DEF GapInv, ChatWithoutGaps
<1> QED BY <1>3, <1>5, <1>6, <1>7 DEF GapInv

\* No texts, no gaps.
LEMMA GapInit == MessengerInit => GapInv
<1> SUFFICES ASSUME MessengerInit PROVE GapInv
  OBVIOUS
<1>1. ASSUME NEW c \in Clients
      PROVE  Outgoing(c) = <<>> /\ ToCome(c) = <<>> /\ ChatRows(c) = {}
  BY DEF MessengerInit, Init, ClientInit, NetworkInit, ServerInit, Outgoing, ToCome, ChatRows
<1>2. \A c \in Clients : Seen(c) = {} /\ TextsShown(c) = {} /\ TextsIn(Outgoing(c)) = {}
  BY <1>1, NoText DEF Seen, TextsShown
<1> QED BY <1>2 DEF GapInv, NoGaps, LineWhole, SeenWhole, ChatWithoutGaps

\* And the three steps that move one leave none, as no queue drops it.
LEMMA GapStep ==
  ASSUME SystemInv, MessengerInv', OrderInv, OrderInv', PresenceInv, GapInv, QueuesHaveRoom,
         [MessengerNext]_messengerVars
  PROVE  GapInv'
<1>0. MessengerInv
  BY DEF SystemInv
<1>1. CASE ServerStep /\ UNCHANGED clientVars
  BY <1>0, <1>1, ServerCalm, CalmGaps, ChatGaps
<1>2. ASSUME NEW c \in Clients, ClientProgram(c), UNCHANGED serverVars
      PROVE  GapInv'
  BY <1>0, <1>2, ProgramCalm, CalmGaps, ShownGaps, TypedGaps
<1>3. CASE UNCHANGED messengerVars
  BY <1>0, <1>3, NothingCalm, CalmGaps
<1> QED BY <1>1, <1>2, <1>3 DEF MessengerNext

\* clientSentChatMessage(): as long as no sending queue is so full that sendMessage()
\* drops what it is given, whoever is shown two texts of a user is shown all the user
\* has typed between them, whoever joins, leaves or is disconnected meanwhile.
THEOREM TextsWithoutGaps == MessengerSpec /\ []QueuesHaveRoom => []ChatWithoutGaps
<1>1. /\ SystemInv /\ MessengerInv' /\ OrderInv /\ OrderInv' /\ PresenceInv /\ GapInv
      /\ QueuesHaveRoom /\ [MessengerNext]_messengerVars
      => GapInv'
  BY GapStep
<1>2. GapInv => ChatWithoutGaps
  BY DEF GapInv
<1> QED BY <1>1, <1>2, GapInit, AlwaysSystemInv, AlwaysMessengerInv, AlwaysOrder, AlwaysPresence,
           PTL DEF MessengerSpec

-----------------------------------------------------------------------------
(* The names.                                                              *)

\* The places of the names in a line.
NamesOn(line) == {i \in 1..Len(line) : line[i].type = "NICKNAME"}

\* Who knows itself by known and has that line to read will know itself by name.
Told(line, known, name) ==
  /\ \A i \in NamesOn(line) : (\A j \in NamesOn(line) : j <= i) => line[i].name = name
  /\ NamesOn(line) = {} => known \in {name, Anyone}

\* c is told the name its session has.
ToldItsName(c) ==
  (c \in sessions /\ clientEnd[c] = "open") => Told(ToCome(c), clientName[c], nickName[c])

\* NamesAgree says that of every client with a session.
LEMMA NamesAreTold ==
  ASSUME MessengerInv
  PROVE  NamesAgree <=> \A c \in Clients : ToldItsName(c)
<1>1. sessions \in SUBSET Clients
  BY DEF MessengerInv, TypeInv, TypeOK
<1> QED BY <1>1 DEF NamesAgree, ToldItsName, Told, NamesOn

\* A line with more messages at its end, none of them a name.
Nameless(q) == NamesOn(q) = {}
Adds(s, r) == \E q \in Seq(Messages) : r = s \o q /\ Nameless(q)

\* More messages, none of them a name, tell nothing new ...
LEMMA ToldLonger ==
  ASSUME NEW s \in Seq(Messages), NEW q \in Seq(Messages), Nameless(q), NEW known, NEW name,
         Told(s, known, name)
  PROVE  Told(s \o q, known, name)
<1>1. NamesOn(s \o q) = NamesOn(s)
  <2>1. \A i \in 1..Len(s \o q) : i \notin 1..Len(s) =>
           (i - Len(s)) \in 1..Len(q) /\ (s \o q)[i] = q[i - Len(s)]
    OBVIOUS
  <2>2. \A i \in 1..Len(s) : i \in 1..Len(s \o q) /\ (s \o q)[i] = s[i]
    OBVIOUS
  <2> QED BY <2>1, <2>2 DEF Nameless, NamesOn
<1>2. \A i \in NamesOn(s) : (s \o q)[i] = s[i]
  BY JoinedAt DEF NamesOn
<1> QED BY <1>1, <1>2 DEF Told

\* ... a name at the end is the one that counts ...
LEMMA ToldAtLast ==
  ASSUME NEW s \in Seq(Messages), NEW name \in Names, NEW known
  PROVE  Told(Append(s, Nickname(name)), known, name)
<1> DEFINE n == Len(s) + 1
           r == Append(s, Nickname(name))
<1>1. Nickname(name).type = "NICKNAME" /\ Nickname(name).name = name
  BY DEF Nickname
<1>2. n \in Nat \ {0} /\ Len(r) = n /\ r[n] = Nickname(name)
  OBVIOUS
<1> HIDE DEF n, r
<1>3. n \in NamesOn(r)
  BY <1>1, <1>2 DEF NamesOn
<1>4. \A i \in NamesOn(r) : n <= i => i = n
  BY <1>2 DEF NamesOn
<1> QED BY <1>1, <1>2, <1>3, <1>4 DEF Told, r

\* ... and a message that is read is no longer to come, but a name is known from then on.
LEMMA ToldRest ==
  ASSUME NEW s \in Seq(Messages), s # <<>>, NEW known, NEW name, Told(s, known, name)
  PROVE  Told(Tail(s), IF Head(s).type = "NICKNAME" THEN Head(s).name ELSE known, name)
<1> DEFINE r == Tail(s)
           now == IF Head(s).type = "NICKNAME" THEN Head(s).name ELSE known
<1>1. /\ Len(s) \in Nat \ {0} /\ Len(r) = Len(s) - 1 /\ Head(s) = s[1]
      /\ \A i \in 1..Len(r) : r[i] = s[i + 1]
  OBVIOUS
<1> HIDE DEF r
<1>2. \A i \in NamesOn(r) : i \in Nat /\ i + 1 \in NamesOn(s) /\ r[i] = s[i + 1]
  BY <1>1 DEF NamesOn
<1>3. \A j \in NamesOn(s) : j = 1 \/ (j \in Nat /\ (j - 1) \in NamesOn(r))
  BY <1>1 DEF NamesOn
<1>4. ASSUME NEW i \in NamesOn(r), \A j \in NamesOn(r) : j <= i
      PROVE  r[i].name = name
  <2>1. \A j \in NamesOn(s) : j <= i + 1
    BY <1>2, <1>3, <1>4
  <2> QED BY <1>2, <2>1 DEF Told
<1>5. ASSUME NamesOn(r) = {} PROVE now \in {name, Anyone}
  <2>1. \A j \in NamesOn(s) : j = 1
    BY <1>3, <1>5
  <2>2. CASE Head(s).type = "NICKNAME"
    <3>1. 1 \in NamesOn(s)
      BY <1>1, <2>2 DEF NamesOn
    <3>2. s[1].name = name
      BY <2>1, <3>1 DEF Told
    <3> QED BY <1>1, <2>2, <3>2
  <2>3. CASE Head(s).type # "NICKNAME"
    <3>1. NamesOn(s) = {}
      BY <1>1, <2>1, <2>3 DEF NamesOn
    <3> QED BY <2>3, <3>1 DEF Told
  <2> QED BY <2>2, <2>3
<1> QED BY <1>4, <1>5 DEF Told, r

\* A queue that adds no name adds none to the line it ends.
LEMMA ToldByAdding ==
  ASSUME NEW wire \in Seq(Messages), NEW s \in Seq(Messages), NEW r, Adds(s, r),
         NEW known, NEW name, Told(wire \o s, known, name)
  PROVE  Told(wire \o r, known, name)
<1>1. PICK q \in Seq(Messages) : r = s \o q /\ Nameless(q)
  BY DEF Adds
<1>2. wire \o r = (wire \o s) \o q
  BY <1>1, LineAssoc
<1>3. wire \o s \in Seq(Messages)
  OBVIOUS
<1> QED BY <1>1, <1>2, <1>3, ToldLonger

\* A queue that is left alone,
LEMMA AddsItself ==
  ASSUME NEW s \in Seq(Messages)
  PROVE  Adds(s, s)
<1>1. <<>> \in Seq(Messages) /\ s = s \o <<>> /\ Nameless(<<>>)
  BY DEF Nameless, NamesOn
<1> QED BY <1>1 DEF Adds

\* one message more that is no name,
LEMMA AddsPush ==
  ASSUME NEW s \in Seq(Messages), NEW m \in Messages, m.type # "NICKNAME"
  PROVE  Adds(s, Push(s, m))
<1>1. <<m>> \in Seq(Messages) /\ Append(s, m) = s \o <<m>> /\ Len(<<m>>) = 1 /\ <<m>>[1] = m
  OBVIOUS
<1>2. Nameless(<<m>>)
  BY <1>1 DEF Nameless, NamesOn
<1>3. Adds(s, Append(s, m))
  BY <1>1, <1>2 DEF Adds
<1> QED BY <1>3, AddsItself DEF Push

\* and another.
LEMMA AddsTwice ==
  ASSUME NEW s \in Seq(Messages), NEW r, NEW m \in Messages, m.type # "NICKNAME",
         Adds(s, r)
  PROVE  Adds(s, Push(r, m))
<1>1. PICK q \in Seq(Messages) : r = s \o q /\ Nameless(q)
  BY DEF Adds
<1>2. s \o Append(q, m) = Append(s \o q, m) /\ Append(q, m) \in Seq(Messages)
  BY LinePushed
<1>3. Nameless(Append(q, m))
  <2>1. /\ Len(Append(q, m)) = Len(q) + 1 /\ Append(q, m)[Len(q) + 1] = m
        /\ \A i \in 1..(Len(q) + 1) : i = Len(q) + 1 \/ (i \in 1..Len(q) /\ Append(q, m)[i] = q[i])
    OBVIOUS
  <2> QED BY <1>1, <2>1 DEF Nameless, NamesOn
<1>4. Adds(s, Append(r, m))
  BY <1>1, <1>2, <1>3 DEF Adds
<1> QED BY <1>4 DEF Push

\* sendMessage() of anything but a name, by whichever handler.
NoneRenamed == \A e \in Clients : Adds(sendingQueue[e], sendingQueue'[e])

\* A reply, or a message to others.
LEMMA SentAdds ==
  ASSUME TypeOK, NEW to, NEW m \in Messages, m.type # "NICKNAME",
         \/ sendingQueue' = Sent(to, m)
         \/ \E c \in Clients : sendingQueue' = Reply(c, m)
         \/ UNCHANGED sendingQueue
  PROVE  NoneRenamed
<1>1. sendingQueue \in [Clients -> Seq(Messages)]
  BY DEF TypeOK
<1>2. ASSUME NEW e \in Clients
      PROVE  sendingQueue'[e] \in {sendingQueue[e], Push(sendingQueue[e], m)}
  BY <1>1 DEF Sent, Reply
<1>3. ASSUME NEW e \in Clients PROVE Adds(sendingQueue[e], sendingQueue'[e])
  BY <1>1, <1>2, AddsItself, AddsPush
<1> QED BY <1>3 DEF NoneRenamed

\* The BYE of disconnect().
LEMMA CheckedAdds ==
  ASSUME TypeOK, NEW c \in Clients, NEW type
  PROVE  /\ Checked(c, type) \in Seq(Messages)
         /\ Adds(sendingQueue[c], Checked(c, type))
<1>1. sendingQueue[c] \in Seq(Messages) /\ Checked(c, type) \in Seq(Messages)
  BY CheckedType DEF TypeOK
<1>2. Adds(sendingQueue[c], Push(sendingQueue[c], Bye))
  BY <1>1, AddsPush, ServerMessages
<1> QED BY <1>1, <1>2, AddsItself DEF Checked

\* All of them but those of HELLO and, at last, NICKNAME.
LEMMA HandlersAdd ==
  ASSUME TypeInv, NEW c \in Clients, HandlerStep(c), ~ReceiveHello(c), ~Rename(c)
  PROVE  NoneRenamed
<1>0. TypeOK /\ HandsFit /\ sendingQueue \in [Clients -> Seq(Messages)]
  BY DEF TypeInv, TypeOK
<1>1. \A code \in StatusCodes : Status(code) \in Messages /\ Status(code).type # "NICKNAME"
  BY ServerMessages
<1>2. CASE ReceiveBye(c) \/ ReceiveNickname(c)
  <2>1. /\ Status("NickNameAlreadyRegistered") \in Messages
        /\ Status("NickNameAlreadyRegistered").type # "NICKNAME"
    BY <1>1 DEF StatusCodes
  <2>2. \E type :
          \/ sendingQueue' = [sendingQueue EXCEPT ![c] = Checked(c, type)]
          \/ sendingQueue' = [sendingQueue EXCEPT ![c] =
                                Push(Checked(c, type), Status("NickNameAlreadyRegistered"))]
    BY <1>2 DEF ReceiveBye, ReceiveNickname
  <2>3. Adds(sendingQueue[c], sendingQueue'[c])
    BY <1>0, <2>1, <2>2, CheckedAdds, AddsTwice
  <2>4. ASSUME NEW e \in Clients, e # c PROVE Adds(sendingQueue[e], sendingQueue'[e])
    <3>1. sendingQueue'[e] = sendingQueue[e]
      BY <1>0, <2>2, <2>4
    <3> QED BY <1>0, <3>1, AddsItself
  <2> QED BY <2>3, <2>4 DEF NoneRenamed
<1>3. CASE ReceiveStatus(c) \/ ReceiveFileRequest(c)
  <2>1. Status("FileTransferCanceled") \in Messages /\ Status("FileTransferCanceled").type # "NICKNAME"
    BY <1>1 DEF StatusCodes
  <2>2. UNCHANGED sendingQueue \/ sendingQueue' = Reply(c, Status("FileTransferCanceled"))
    BY <1>3 DEF ReceiveStatus, ReceiveFileRequest
  <2> QED BY <1>0, <2>1, <2>2, SentAdds
<1>4. CASE ReceiveChat(c)
  <2>1. Status("ChattingAlone") \in Messages /\ Status("ChattingAlone").type # "NICKNAME"
    BY <1>1 DEF StatusCodes
  <2>2. /\ Chat(nickName[c], Incoming(c).text) \in Messages
        /\ Chat(nickName[c], Incoming(c).text).type # "NICKNAME"
    <3>1. Incoming(c) \in Messages /\ Incoming(c).type = "CHAT"
      BY <1>0, <1>4, ReadsType DEF ReceiveChat
    <3>2. Incoming(c).text \in Texts /\ nickName[c] \in Names
      BY <1>0, <3>1, MessageFields DEF TypeOK
    <3>3. Chat(nickName[c], Incoming(c).text).type # "NICKNAME"
      BY DEF Chat
    <3> QED BY <3>2, <3>3, MessageTypes
  <2> QED BY <1>0, <1>4, <2>1, <2>2, SentAdds DEF ReceiveChat
<1>5. CASE ScanAnswers(c)
  <2>1. Verdict(c) \in Messages /\ Verdict(c).type # "NICKNAME"
    BY <1>1 DEF Verdict, StatusCodes
  <2> QED BY <1>0, <1>5, <2>1, SentAdds DEF ScanAnswers
<1>6. CASE AnnounceTransfer(c)
  <2>1. hand[c].file \in Files
    BY <1>0, <1>6, MessageFields DEF AnnounceTransfer, HandsFit
  <2>2. /\ FileRequest(nickName[c], hand[c].file) \in Messages
        /\ FileRequest(nickName[c], hand[c].file).type # "NICKNAME"
    BY <1>0, <2>1, ServerMessages DEF TypeOK
  <2>3. Status("ChattingAlone") \in Messages /\ Status("ChattingAlone").type # "NICKNAME"
    BY <1>1 DEF StatusCodes
  <2> QED BY <1>0, <1>6, <2>2, <2>3, SentAdds DEF AnnounceTransfer
<1>7. CASE ReceiveFileData(c)
  <2>1. Incoming(c) \in Messages /\ Incoming(c).type # "NICKNAME"
    BY <1>0, <1>7, ReadsType DEF ReceiveFileData
  <2> QED BY <1>0, <1>7, <2>1, SentAdds DEF ReceiveFileData
<1>8. CASE SaveAnswer(c) \/ FlagSender(c) \/ AcceptOwnTransfer(c) \/ ResetStatus(c)
  BY <1>0, <1>8, AddsItself
     DEF SaveAnswer, FlagSender, AcceptOwnTransfer, ResetStatus, NoneRenamed
<1> QED BY <1>2, <1>3, <1>4, <1>5, <1>6, <1>7, <1>8 DEF HandlerStep

\* They leave the names of sessions alone.
LEMMA HandlersNameNobody ==
  ASSUME NEW c \in Clients, HandlerStep(c), ~Rename(c)
  PROVE  UNCHANGED nickName
BY DEF HandlerStep, ReceiveHello, ReceiveBye, ReceiveNickname, ReceiveChat, ReceiveStatus,
       SaveAnswer, ScanAnswers, ReceiveFileRequest, AnnounceTransfer, FlagSender,
       AcceptOwnTransfer, ReceiveFileData, ResetStatus, LoginIdle

\* One client's part of it, at each step of the server.
LEMMA ServerTells ==
  ASSUME SystemInv, SystemInv', PresenceInv, QueuesHaveRoom, ServerStep, UNCHANGED clientVars,
         NEW e \in Clients, ToldItsName(e)
  PROVE  ToldItsName(e)'
<1>0. /\ MessengerInv /\ TypeInv /\ TypeOK /\ clientEnd \in [Clients -> Ends]
      /\ nickName \in [Clients -> Names]
      /\ sendingQueue \in [Clients -> Seq(Messages)] /\ toClient \in [Clients -> Seq(Messages)]
      /\ UNCHANGED clientName
  BY DEF SystemInv, MessengerInv, TypeInv, TypeOK, NetworkTypeOK, clientVars
<1>1. CASE Register
  <2>1. UNCHANGED <<toClient, clientEnd, nickName, sendingQueue>> /\ Running
        /\ sessions' = sessions \cup {listener}
    BY <1>1 DEF Register, networkVars, sessionVars
  <2>2. ToCome(e)' = ToCome(e)
    BY <2>1 DEF ToCome
  <2>3. CASE e # listener
    BY <1>0, <2>1, <2>2, <2>3 DEF ToldItsName
  <2>4. CASE e = listener
    <3>1. e \notin sessions /\ Served(e)
      BY <2>1, <2>4 DEF SystemInv, IInv, ThreadsInv, NewcomerUnregistered, SessionsHaveThreads,
                        Served, Gone
    <3>2. ToCome(e) = <<>> /\ clientName[e] = Anyone
      BY <3>1 DEF PresenceInv, NewcomersQuiet, ToCome
    <3> QED BY <1>0, <2>2, <3>2 DEF ToldItsName, Told, NamesOn
  <2> QED BY <2>3, <2>4
<1>2. ASSUME NEW c \in Clients, Accept(c) PROVE ToldItsName(e)'
  <2>1. /\ UNCHANGED <<toClient, clientEnd, sessions, sendingQueue>> /\ serverEnd[c] = "idle" /\ Running
        /\ \A d \in Clients : d # c => nickName'[d] = nickName[d]
    BY <1>0, <1>2 DEF Accept
  <2>2. c \notin sessions
    BY <2>1 DEF SystemInv, IInv, ThreadsInv, SessionsHaveThreads
  <2>3. ToCome(e)' = ToCome(e)
    BY <2>1 DEF ToCome
  <2> QED BY <1>0, <2>1, <2>2, <2>3 DEF ToldItsName
<1>3. ASSUME NEW c \in Clients, HandlerStep(c) PROVE ToldItsName(e)'
  <2>1. UNCHANGED <<toClient, clientEnd, sessions>>
    BY <1>3, HandlersLeaveClients, HandlerFrame DEF SystemInv, MessengerInv, IInv, ThreadsInv
  <2>2. ToCome(e) = toClient[e] \o sendingQueue[e] /\ ToCome(e)' = toClient[e] \o sendingQueue'[e]
    BY <2>1 DEF ToCome
  <2>3. CASE ReceiveHello(c)
    <3>1. /\ UNCHANGED nickName
          /\ sendingQueue' = [sendingQueue EXCEPT ![c] =
                                Push(Checked(c, "HELLO"), Nickname(nickName[c]))]
      BY <2>3 DEF ReceiveHello
    <3>2. CASE e # c
      BY <1>0, <2>1, <2>2, <3>1, <3>2 DEF ToldItsName
    <3>3. CASE e = c /\ CanSend(Checked(c, "HELLO"))
      <4>1. /\ sendingQueue'[e] = Append(Checked(c, "HELLO"), Nickname(nickName[c]))
            /\ Nickname(nickName[c]) \in Messages /\ Checked(c, "HELLO") \in Seq(Messages)
        BY <1>0, <3>1, <3>3, MessageTypes, CheckedAdds DEF Push
      <4>2. ToCome(e)' = Append(toClient[e] \o Checked(c, "HELLO"), Nickname(nickName[c]))
        BY <1>0, <2>2, <4>1, LinePushed
      <4>3. toClient[e] \o Checked(c, "HELLO") \in Seq(Messages)
        BY <1>0, <4>1
      <4> QED BY <1>0, <3>1, <3>3, <4>2, <4>3, ToldAtLast DEF ToldItsName
    <3>4. CASE e = c /\ ~CanSend(Checked(c, "HELLO"))
      <4>1. sendingQueue'[e] = Checked(c, "HELLO")
        BY <1>0, <3>1, <3>4 DEF Push
      <4>2. Adds(sendingQueue[e], sendingQueue'[e])
        BY <1>0, <3>4, <4>1, CheckedAdds
      <4> QED BY <1>0, <2>1, <2>2, <3>1, <4>2, ToldByAdding DEF ToldItsName
    <3> QED BY <3>2, <3>3, <3>4
  <2>4. CASE Rename(c)
    <3>1. /\ nickName' = [nickName EXCEPT ![c] = hand[c].name]
          /\ sendingQueue' = Reply(c, Nickname(hand[c].name))
      BY <2>4 DEF Rename
    <3>2. CASE e # c
      BY <1>0, <2>1, <2>2, <3>1, <3>2 DEF ToldItsName, Reply
    <3>3. CASE e = c
      <4>1. hand[c].name \in Names
        BY <1>0, <2>4, MessageFields DEF Rename, TypeInv, HandsFit
      <4>2. sendingQueue'[e] = Append(sendingQueue[e], Nickname(hand[c].name))
        BY <1>0, <3>1, <3>3 DEF Reply, Push, QueuesHaveRoom
      <4>3. Nickname(hand[c].name) \in Messages /\ nickName'[e] = hand[c].name
        BY <1>0, <3>1, <3>3, <4>1, MessageTypes
      <4>4. ToCome(e)' = Append(ToCome(e), Nickname(nickName'[e]))
        BY <1>0, <2>2, <4>2, <4>3, LinePushed
      <4> QED BY <1>0, <4>1, <4>3, <4>4, LinesType, ToldAtLast DEF ToldItsName
    <3> QED BY <3>2, <3>3
  <2>5. CASE ~ReceiveHello(c) /\ ~Rename(c)
    <3>1. NoneRenamed /\ UNCHANGED nickName
      BY <1>0, <1>3, <2>5, HandlersAdd, HandlersNameNobody
    <3> QED BY <1>0, <2>1, <2>2, <3>1, ToldByAdding DEF ToldItsName, NoneRenamed
  <2> QED BY <2>3, <2>4, <2>5
<1>4. ASSUME NEW c \in Clients, ReceiveUnknown(c) \/ WriteAfterReset(c) PROVE ToldItsName(e)'
  BY <1>0, <1>4 DEF ReceiveUnknown, WriteAfterReset, sessionVars, ToldItsName, ToCome
<1>5. ASSUME NEW c \in Clients, Leave(c) \/ Hangup(c) PROVE ToldItsName(e)'
  <2>1. RemoveSession(c) /\ UNCHANGED <<toClient, clientEnd, nickName>>
    BY <1>5 DEF Leave, Hangup
  <2>2. e \in sessions' => e \in sessions /\ sendingQueue'[e] = sendingQueue[e]
    BY <1>0, <2>1 DEF RemoveSession
  <2> QED BY <1>0, <2>1, <2>2 DEF ToldItsName, ToCome
<1>6. ASSUME NEW c \in Clients, Write(c) PROVE ToldItsName(e)'
  <2>1. /\ sendingQueue[c] # <<>> /\ UNCHANGED <<sessions, nickName, clientEnd>>
        /\ sendingQueue' = [sendingQueue EXCEPT ![c] = Tail(@)]
        /\ toClient' = [toClient EXCEPT ![c] = Append(@, Head(sendingQueue[c]))]
    BY <1>6 DEF Write, ServerIdle, LoginIdle
  <2>2. ToCome(e)' = ToCome(e)
    <3>1. CASE e # c
      BY <1>0, <2>1, <3>1 DEF ToCome
    <3>2. CASE e = c
      <4>1. /\ toClient'[e] = Append(toClient[e], Head(sendingQueue[e]))
            /\ sendingQueue'[e] = Tail(sendingQueue[e])
        BY <1>0, <2>1, <3>2
      <4> QED BY <1>0, <2>1, <3>2, <4>1, LineMoved DEF ToCome
    <3> QED BY <3>1, <3>2
  <2> QED BY <1>0, <2>1, <2>2 DEF ToldItsName
<1>7. ASSUME NEW c \in Clients, WriteInVain(c) PROVE ToldItsName(e)'
  <2>1. /\ UNCHANGED <<sessions, nickName, toClient>>
        /\ \A d \in Clients : d # c => sendingQueue'[d] = sendingQueue[d] /\ clientEnd'[d] = clientEnd[d]
        /\ clientEnd'[c] # "open"
    BY <1>0, <1>7 DEF WriteInVain, ServerIdle, LoginIdle, Gone
  <2> QED BY <1>0, <2>1 DEF ToldItsName, ToCome
<1> QED BY <1>1, <1>2, <1>3, <1>4, <1>5, <1>6, <1>7 DEF ServerStep, SessionStep, HandlerStep

\* The same at each step of a client program: only NICKNAME changes its name, and only
\* reading shortens the line.
LEMMA ClientTells ==
  ASSUME SystemInv, PresenceInv, NEW c \in Clients, ClientProgram(c), UNCHANGED serverVars,
         NEW e \in Clients, ToldItsName(e)
  PROVE  ToldItsName(e)'
<1>0. /\ MessengerInv /\ clientEnd \in [Clients -> Ends] /\ clientName \in [Clients -> Names]
      /\ toClient \in [Clients -> Seq(Messages)] /\ sendingQueue \in [Clients -> Seq(Messages)]
      /\ UNCHANGED <<sessions, nickName, sendingQueue>>
  BY DEF SystemInv, MessengerInv, TypeInv, TypeOK, ClientTypeOK, NetworkTypeOK, serverVars,
         sessionVars
<1>1. ASSUME UNCHANGED <<toClient, clientName>>, clientEnd'[e] = "open" => clientEnd[e] = "open"
      PROVE  ToldItsName(e)'
  BY <1>0, <1>1 DEF ToldItsName, ToCome
<1>2. ASSUME NEW type, Takes(c, type), UNCHANGED clientEnd \/ Aborts(c),
             clientName' = IF type = "NICKNAME"
                           THEN [clientName EXCEPT ![c] = Received(c).name] ELSE clientName
      PROVE  ToldItsName(e)'
  <2>1. /\ toClient[c] # <<>> /\ Received(c).type = type
        /\ toClient' = [toClient EXCEPT ![c] = Tail(@)]
    BY <1>2 DEF Takes
  <2>2. clientEnd'[e] = "open" => clientEnd[e] = "open"
    BY <1>0, <1>2 DEF Aborts, AfterClose
  <2>3. CASE e # c
    BY <1>0, <1>2, <2>1, <2>2, <2>3 DEF ToldItsName, ToCome
  <2>4. CASE e = c
    <3>1. /\ toClient[e] \in Seq(Messages) /\ sendingQueue[e] \in Seq(Messages)
          /\ toClient'[e] = Tail(toClient[e]) /\ toClient[e] # <<>>
          /\ Received(e) = Head(toClient[e])
      BY <1>0, <2>1, <2>4 DEF Received
    <3>2. /\ ToCome(e) \in Seq(Messages) /\ ToCome(e) # <<>>
          /\ Head(ToCome(e)) = Received(e) /\ Tail(ToCome(e)) = ToCome(e)'
      BY <1>0, <3>1, LineTaken DEF ToCome
    <3>3. clientName'[e] = IF Received(e).type = "NICKNAME" THEN Received(e).name
                                                            ELSE clientName[e]
      BY <1>0, <1>2, <2>1, <2>4
    <3>4. CASE e \in sessions /\ clientEnd[e] = "open"
      <4>1. Told(ToCome(e), clientName[e], nickName[e])
        BY <3>4 DEF ToldItsName
      <4>2. Told(ToCome(e)', clientName'[e], nickName[e])
        BY <3>2, <3>3, <4>1, ToldRest
      <4> QED BY <1>0, <4>2 DEF ToldItsName
    <3>5. CASE ~(e \in sessions /\ clientEnd[e] = "open")
      BY <1>0, <2>2, <3>5 DEF ToldItsName
    <3> QED BY <3>4, <3>5
  <2> QED BY <2>3, <2>4
<1>3. CASE TakesStatus(c)
  BY <1>2, <1>3 DEF TakesStatus
<1>4. CASE TakesNickname(c)
  BY <1>2, <1>4 DEF TakesNickname
<1>5. CASE TakesChat(c) \/ TakesBye(c)
  BY <1>2, <1>5 DEF TakesChat, TakesBye
<1>6. CASE TakesFileRequest(c) \/ TakesFileData(c)
  BY <1>2, <1>6 DEF TakesFileRequest, TakesFileData
<1>7. CASE ClientWrites(c)
  BY <1>1, <1>7 DEF ClientWrites
<1>8. CASE ClientWritesInVain(c) \/ ClientEnds(c)
  <2>1. UNCHANGED <<toClient, clientName>>
    BY <1>8 DEF ClientWritesInVain, ClientEnds
  <2>2. clientEnd'[e] = "open" => clientEnd[e] = "open"
    BY <1>0, <1>8 DEF ClientWritesInVain, ClientEnds, AfterClose
  <2> QED BY <1>1, <2>1, <2>2
<1>9. CASE ClientConnects(c)
  <2>1. /\ clientStatus[c] = "idle" /\ UNCHANGED <<toClient, clientName>>
        /\ clientEnd' = [clientEnd EXCEPT ![c] = "open"]
    BY <1>9 DEF ClientConnects
  <2>2. CASE e # c
    BY <1>0, <1>1, <2>1, <2>2
  <2>3. CASE e = c
    <3>1. clientEnd[c] = "idle"
      BY <2>1 DEF SystemInv, MessengerInv, EndsFit
    <3>2. e \notin sessions
      BY <2>3, <3>1 DEF PresenceInv, EndsMeet
    <3> QED BY <1>0, <3>2 DEF ToldItsName
  <2> QED BY <2>2, <2>3
<1>10. CASE \/ Cycle(c) \/ UserAnswers(c) \/ TypesText(c)
            \/ \E name \in TypedNames : TypesNickname(c, name)
            \/ \E file \in Files : SendsFile(c, file)
            \/ OpensDialog(c) \/ ClosesDialog(c) \/ Quits(c)
  <2>1. UNCHANGED <<toClient, clientEnd, clientName>>
    BY <1>10 DEF Cycle, UserAnswers, TypesText, TypesNickname, SendsFile, OpensDialog,
                 ClosesDialog, Quits, networkVars
  <2> QED BY <1>1, <2>1
<1> QED BY <1>3, <1>4, <1>5, <1>6, <1>7, <1>8, <1>9, <1>10 DEF ClientProgram, NetworkThread

\* So does everybody.
EverybodyTold == \A c \in Clients : ToldItsName(c)

\* Nobody has a session at the start ...
LEMMA ToldInit == MessengerInit => EverybodyTold
BY DEF MessengerInit, Init, ServerInit, EverybodyTold, ToldItsName

\* ... and every step of either side keeps every client informed.
LEMMA ToldStep ==
  ASSUME SystemInv, SystemInv', PresenceInv, QueuesHaveRoom, EverybodyTold,
         [MessengerNext]_messengerVars
  PROVE  EverybodyTold'
<1>1. CASE ServerStep /\ UNCHANGED clientVars
  BY <1>1, ServerTells DEF EverybodyTold
<1>2. ASSUME NEW c \in Clients, ClientProgram(c), UNCHANGED serverVars
      PROVE  EverybodyTold'
  BY <1>2, ClientTells DEF EverybodyTold
<1>3. CASE UNCHANGED messengerVars
  BY <1>3 DEF messengerVars, vars, networkVars, serverVars, sessionVars, clientVars, EverybodyTold,
     ToldItsName, ToCome
<1> QED BY <1>1, <1>2, <1>3 DEF MessengerNext

\* setNickName() and the NICKNAME that answers (sessionclient.cpp:71-72), and the answer
\* to HELLO: as long as no full queue drops such an answer, a client that has read what
\* is on its way knows the name its texts carry, through whatever changes of name.
THEOREM NamesKeptInStep == MessengerSpec /\ []QueuesHaveRoom => []NamesAgree
<1>1. /\ SystemInv /\ SystemInv' /\ PresenceInv /\ QueuesHaveRoom /\ EverybodyTold
      /\ [MessengerNext]_messengerVars
      => EverybodyTold'
  BY ToldStep
<1>2. SystemInv /\ EverybodyTold => NamesAgree
  BY NamesAreTold DEF SystemInv, EverybodyTold
<1> QED BY <1>1, <1>2, ToldInit, AlwaysSystemInv, AlwaysPresence, PTL DEF MessengerSpec

=============================================================================
