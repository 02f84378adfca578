---------------------------- MODULE ServerProofs ----------------------------
(***************************************************************************)
(* Proofs about Server, for any number of clients and whatever they send.  *)
(* Four facts about the sessions hold together, so they are proved as one  *)
(* inductive invariant, after the types.                                   *)
(***************************************************************************)
EXTENDS Server, TLAPS

\* The message a thread is in the middle of is one its handler can work on.
HandsFit ==
  \A c \in Clients :
      /\ pc[c] = "renaming" => hand[c] \in Messages /\ hand[c].type = "NICKNAME"
      /\ pc[c] = "answering" => hand[c] \in Messages /\ hand[c].type = "STATUS"
      /\ pc[c] = "requesting" => hand[c] \in Messages /\ hand[c].type = "FILE_REQUEST"

TypeInv == TypeOK /\ HandsFit

-----------------------------------------------------------------------------
(* The messages.                                                           *)

\* What the server writes itself are messages of the protocol.
LEMMA MessageTypes ==
  /\ Bye \in Messages
  /\ \A name \in Names : Nickname(name) \in Messages
  /\ \A code \in StatusCodes : Status(code) \in Messages
  /\ \A sender \in Names, text \in Texts : Chat(sender, text) \in Messages
  /\ \A sender \in Names, file \in Files : FileRequest(sender, file) \in Messages
<1>1. Bye \in Messages
  BY DEF Messages
<1>2. \A name \in Names : Nickname(name) \in Messages
  BY DEF Messages, Nickname
<1>3. \A code \in StatusCodes : Status(code) \in Messages
  BY DEF Messages, Status
<1>4. \A sender \in Names, text \in Texts : Chat(sender, text) \in Messages
  BY DEF Messages, Chat
<1>5. \A sender \in Names, file \in Files : FileRequest(sender, file) \in Messages
  BY DEF Messages, FileRequest
<1> QED BY <1>1, <1>2, <1>3, <1>4, <1>5

\* A message has the fields its handler reads.
LEMMA MessageFields ==
  ASSUME NEW m \in Messages
  PROVE  /\ m.type = "NICKNAME" => m.name \in Names
         /\ m.type = "STATUS" => m.code \in StatusCodes
         /\ m.type = "CHAT" => m.text \in Texts
         /\ m.type = "FILE_REQUEST" => m.file \in Files
<1>1. m.type = "NICKNAME" => m.name \in Names
  BY DEF Messages, Hello, Bye
<1>2. m.type = "STATUS" => m.code \in StatusCodes
  BY DEF Messages, Hello, Bye
<1>3. m.type = "CHAT" => m.text \in Texts
  BY DEF Messages, Hello, Bye
<1>4. m.type = "FILE_REQUEST" => m.file \in Files
  BY DEF Messages, Hello, Bye
<1> QED BY <1>1, <1>2, <1>3, <1>4

\* addSession() gives a session a name.
LEMMA DefaultNames == \A k \in Nat : DefaultName(k) \in Names
BY DEF DefaultName, Names

\* SessionBase::sendMessage() keeps a queue a queue.
LEMMA PushType ==
  ASSUME NEW queue \in Seq(Messages), NEW m \in Messages
  PROVE  Push(queue, m) \in Seq(Messages)
BY DEF Push

\* A session that answers its own client keeps the queues queues ...
LEMMA ReplyType ==
  ASSUME TypeOK, NEW c \in Clients, NEW m \in Messages
  PROVE  Reply(c, m) \in [Clients -> Seq(Messages)]
BY PushType DEF Reply, TypeOK

\* ... so does one that writes to others ...
LEMMA SentType ==
  ASSUME TypeOK, NEW to, NEW m \in Messages
  PROVE  Sent(to, m) \in [Clients -> Seq(Messages)]
BY PushType DEF Sent, TypeOK

\* ... and so does the BYE to a client that breaks the sequence.
LEMMA CheckedType ==
  ASSUME TypeOK, NEW c \in Clients, NEW type
  PROVE  Checked(c, type) \in Seq(Messages)
BY PushType, MessageTypes DEF Checked, TypeOK

\* A message that is read comes from the wire, and leaves a wire.
LEMMA ReadsType ==
  ASSUME TypeOK, NEW c \in Clients, NEW type, Reads(c, type)
  PROVE  /\ Incoming(c) \in Messages
         /\ Incoming(c).type = type
         /\ toServer' \in [Clients -> Seq(Messages)]
         /\ pc[c] = "poll" /\ c \in sessions /\ Running
<1>1. toServer[c] \in Seq(Messages) /\ toServer[c] # <<>>
  BY DEF Reads, CanRead, TypeOK, NetworkTypeOK
<1>2. Head(toServer[c]) \in Messages /\ Tail(toServer[c]) \in Seq(Messages)
  BY <1>1
<1>3. toServer' = [toServer EXCEPT ![c] = Tail(toServer[c])]
  BY DEF Reads
<1>4. toServer' \in [Clients -> Seq(Messages)]
  BY <1>2, <1>3 DEF TypeOK, NetworkTypeOK
<1> QED BY <1>2, <1>4 DEF Reads, CanRead, Incoming

\* checkSessionStateChange() leaves a session in one of its states.
LEMMA CheckType ==
  ASSUME TypeOK, NEW c \in Clients, NEW type \in {"HELLO", "NICKNAME", "BYE"},
         CheckSessionStateChange(c, type)
  PROVE  /\ state' \in [Clients -> States]
         /\ disconnectionFlag' \in [Clients -> BOOLEAN]
<1>1. NextState[type] \in States
  BY DEF NextState, States
<1>2. state' \in [Clients -> States]
  BY <1>1 DEF CheckSessionStateChange, TypeOK
<1>3. disconnectionFlag' \in [Clients -> BOOLEAN]
  <2>1. disconnectionFlag' =
          [disconnectionFlag EXCEPT ![c] = disconnectionFlag[c] \/ ~InOrder(c, type)]
    BY DEF CheckSessionStateChange
  <2>2. (disconnectionFlag[c] \/ ~InOrder(c, type)) \in BOOLEAN
    BY Zenon
  <2> QED BY <2>1, <2>2, Zenon DEF TypeOK
<1> QED BY <1>2, <1>3

\* A process that dies leaves closed sockets behind.
LEMMA DiesType ==
  ASSUME TypeOK, NEW cause \in {"fatal", "sigpipe"}, Dies(cause)
  PROVE  /\ serverStatus' \in {"running", "fatal", "sigpipe"}
         /\ serverEnd' \in [Clients -> Ends]
BY DEF Dies, AfterClose, Ends, TypeOK, NetworkTypeOK

\* removeSession() and the close() of the socket keep every field in its type.
LEMMA RemoveSessionType ==
  ASSUME TypeOK, NEW c \in Clients, RemoveSession(c)
  PROVE  /\ serverStatus' \in {"running", "fatal", "sigpipe"}
         /\ serverEnd' \in [Clients -> Ends]
         /\ sessions' \in SUBSET Clients
         /\ fileTransferModeActive' \in BOOLEAN
         /\ pc' \in [Clients -> Steps]
         /\ sendingQueue' \in [Clients -> Seq(Messages)]
         /\ disconnectionFlag' \in [Clients -> BOOLEAN]
<1>1. CASE c \notin sessions
  BY <1>1, DiesType DEF RemoveSession, TypeOK
<1>2. CASE c \in sessions
  <2>1. fileTransferModeActive' \in BOOLEAN
    BY <1>2, Zenon DEF RemoveSession, TypeOK
  <2>2. serverEnd' \in [Clients -> Ends]
    BY <1>2 DEF RemoveSession, AfterClose, Ends, TypeOK, NetworkTypeOK
  <2>3. sessions' \in SUBSET Clients /\ UNCHANGED serverStatus
    BY <1>2 DEF RemoveSession, TypeOK
  <2>4. pc' \in [Clients -> Steps]
    BY <1>2 DEF RemoveSession, Steps, TypeOK
  <2>5. sendingQueue' \in [Clients -> Seq(Messages)]
    <3>1. <<>> \in Seq(Messages)
      OBVIOUS
    <3> QED BY <1>2, <3>1 DEF RemoveSession, TypeOK
  <2>6. disconnectionFlag' \in [Clients -> BOOLEAN]
    BY <1>2 DEF RemoveSession, TypeOK
  <2> QED BY <2>1, <2>2, <2>3, <2>4, <2>5, <2>6 DEF TypeOK
<1> QED BY <1>1, <1>2

\* Where a handler stops between two steps, it has the message it needs.
LEMMA GoesOnFits ==
  ASSUME HandsFit, TypeOK, NEW c \in Clients, NEW step \in Steps,
         NEW m \in Messages \cup {NoMessage}, GoesOn(c, step, m),
         step = "renaming" => m \in Messages /\ m.type = "NICKNAME",
         step = "answering" => m \in Messages /\ m.type = "STATUS",
         step = "requesting" => m \in Messages /\ m.type = "FILE_REQUEST"
  PROVE  /\ HandsFit'
         /\ pc' \in [Clients -> Steps]
         /\ hand' \in [Clients -> Messages \cup {NoMessage}]
<1>1. /\ pc' = [pc EXCEPT ![c] = step]
      /\ hand' = [hand EXCEPT ![c] = m]
      /\ pc \in [Clients -> Steps]
      /\ hand \in [Clients -> Messages \cup {NoMessage}]
  BY DEF GoesOn, TypeOK
<1>2. ASSUME NEW d \in Clients
      PROVE  /\ pc'[d] = "renaming" => hand'[d] \in Messages /\ hand'[d].type = "NICKNAME"
             /\ pc'[d] = "answering" => hand'[d] \in Messages /\ hand'[d].type = "STATUS"
             /\ pc'[d] = "requesting"
                  => hand'[d] \in Messages /\ hand'[d].type = "FILE_REQUEST"
  <2>1. CASE d = c
    <3>1. pc'[d] = step /\ hand'[d] = m
      BY <1>1, <2>1
    <3> QED BY <3>1
  <2>2. CASE d # c
    <3>1. pc'[d] = pc[d] /\ hand'[d] = hand[d]
      BY <1>1, <2>2
    <3> QED BY <3>1 DEF HandsFit
  <2> QED BY <2>1, <2>2
<1>3. HandsFit'
  BY <1>2, Zenon DEF HandsFit
<1> QED BY <1>1, <1>3

\* A handler that ends leaves no message in hand.
LEMMA FinishesFits ==
  ASSUME HandsFit, TypeOK, NEW c \in Clients, Finishes(c)
  PROVE  /\ HandsFit'
         /\ pc' \in [Clients -> Steps]
         /\ hand' \in [Clients -> Messages \cup {NoMessage}]
<1>1. "poll" \in Steps /\ NoMessage \in Messages \cup {NoMessage}
  BY DEF Steps
<1> QED BY <1>1, GoesOnFits DEF Finishes

\* A thread that starts or ends has no message in hand to work on.
LEMMA PollFits ==
  ASSUME HandsFit, TypeOK, NEW c \in Clients, NEW step \in {"poll", "none"},
         pc' = [pc EXCEPT ![c] = step] \/ UNCHANGED pc, UNCHANGED hand
  PROVE  HandsFit'
BY DEF HandsFit, TypeOK

-----------------------------------------------------------------------------
(* Types, action by action.                                                *)

\* HELLO, BYE and NICKNAME, in or out of their order.
LEMMA LoginTypes ==
  ASSUME TypeInv, NEW c \in Clients,
         \/ ReceiveHello(c) \/ ReceiveBye(c) \/ ReceiveNickname(c) \/ Rename(c)
  PROVE  TypeInv'
<1> USE DEF NetworkIdle, ServerIdle, TransferIdle
<1>0. TypeOK /\ HandsFit
  BY DEF TypeInv
<1>1. CASE ReceiveHello(c)
  <2>1. Reads(c, "HELLO") /\ CheckSessionStateChange(c, "HELLO")
    BY <1>1 DEF ReceiveHello
  <2>2. toServer' \in [Clients -> Seq(Messages)]
    BY <1>0, <2>1, ReadsType
  <2>3. state' \in [Clients -> States] /\ disconnectionFlag' \in [Clients -> BOOLEAN]
    BY <1>0, <2>1, CheckType
  <2>4. Push(Checked(c, "HELLO"), Nickname(nickName[c])) \in Seq(Messages)
    BY <1>0, CheckedType, PushType, MessageTypes DEF TypeOK
  <2>5. sendingQueue' \in [Clients -> Seq(Messages)]
    BY <1>0, <1>1, <2>4 DEF ReceiveHello, TypeOK
  <2>6. HandsFit'
    BY <1>0, <1>1 DEF ReceiveHello, HandsFit
  <2> QED BY <1>0, <1>1, <2>2, <2>3, <2>5, <2>6
          DEF ReceiveHello, TypeInv, TypeOK, NetworkTypeOK
<1>2. CASE ReceiveBye(c)
  <2>1. Reads(c, "BYE") /\ CheckSessionStateChange(c, "BYE")
    BY <1>2 DEF ReceiveBye
  <2>2. toServer' \in [Clients -> Seq(Messages)]
    BY <1>0, <2>1, ReadsType
  <2>3. state' \in [Clients -> States] /\ disconnectionFlag' \in [Clients -> BOOLEAN]
    BY <1>0, <2>1, CheckType
  <2>4. sendingQueue' \in [Clients -> Seq(Messages)]
    BY <1>0, <1>2, CheckedType DEF ReceiveBye, TypeOK
  <2>5. HandsFit'
    BY <1>0, <1>2 DEF ReceiveBye, HandsFit
  <2> QED BY <1>0, <1>2, <2>2, <2>3, <2>4, <2>5
          DEF ReceiveBye, TypeInv, TypeOK, NetworkTypeOK
<1>3. CASE ReceiveNickname(c)
  <2>1. Reads(c, "NICKNAME") /\ CheckSessionStateChange(c, "NICKNAME")
    BY <1>3 DEF ReceiveNickname
  <2>2. /\ Incoming(c) \in Messages /\ Incoming(c).type = "NICKNAME"
        /\ toServer' \in [Clients -> Seq(Messages)]
    BY <1>0, <2>1, ReadsType
  <2>3. state' \in [Clients -> States] /\ disconnectionFlag' \in [Clients -> BOOLEAN]
    BY <1>0, <2>1, CheckType
  <2>4. CASE /\ GoesOn(c, "renaming", Incoming(c))
             /\ sendingQueue' = [sendingQueue EXCEPT ![c] = Checked(c, "NICKNAME")]
    <3>1. sendingQueue' \in [Clients -> Seq(Messages)]
      BY <1>0, <2>4, CheckedType DEF TypeOK
    <3>2. "renaming" \in Steps /\ Incoming(c) \in Messages \cup {NoMessage}
      BY <2>2 DEF Steps
    <3>3. /\ HandsFit' /\ pc' \in [Clients -> Steps]
          /\ hand' \in [Clients -> Messages \cup {NoMessage}]
      BY <1>0, <2>2, <2>4, <3>2, GoesOnFits
    <3> QED BY <1>0, <1>3, <2>2, <2>3, <3>1, <3>3
            DEF ReceiveNickname, TypeInv, TypeOK, NetworkTypeOK
  <2>5. CASE /\ sendingQueue' = [sendingQueue EXCEPT ![c] =
                    Push(Checked(c, "NICKNAME"), Status("NickNameAlreadyRegistered"))]
             /\ UNCHANGED <<pc, hand>>
    <3>1. Status("NickNameAlreadyRegistered") \in Messages
      BY MessageTypes DEF StatusCodes
    <3>2. sendingQueue' \in [Clients -> Seq(Messages)]
      BY <1>0, <2>5, <3>1, CheckedType, PushType DEF TypeOK
    <3>3. HandsFit'
      BY <1>0, <2>5 DEF HandsFit
    <3> QED BY <1>0, <1>3, <2>2, <2>3, <2>5, <3>2, <3>3
            DEF ReceiveNickname, TypeInv, TypeOK, NetworkTypeOK
  <2> QED BY <1>3, <2>4, <2>5 DEF ReceiveNickname
<1>4. CASE Rename(c)
  <2>1. hand[c] \in Messages /\ hand[c].type = "NICKNAME"
    BY <1>0, <1>4 DEF Rename, HandsFit
  <2>2. hand[c].name \in Names
    BY <2>1, MessageFields
  <2>3. nickName' \in [Clients -> Names]
    BY <1>0, <1>4, <2>2 DEF Rename, TypeOK
  <2>4. sendingQueue' \in [Clients -> Seq(Messages)]
    BY <1>0, <1>4, <2>2, MessageTypes, ReplyType DEF Rename
  <2>5. /\ HandsFit' /\ pc' \in [Clients -> Steps]
        /\ hand' \in [Clients -> Messages \cup {NoMessage}]
    BY <1>0, <1>4, FinishesFits DEF Rename
  <2> QED BY <1>0, <1>4, <2>3, <2>4, <2>5 DEF Rename, TypeInv, TypeOK, NetworkTypeOK
<1> QED BY <1>1, <1>2, <1>3, <1>4

\* Replies and broadcasts keep the queues queues.
LEMMA ReceiveChatTypes ==
  ASSUME TypeInv, NEW c \in Clients, ReceiveChat(c)
  PROVE  TypeInv'
<1>1. TypeOK /\ HandsFit /\ Reads(c, "CHAT")
  BY DEF TypeInv, ReceiveChat
<1>2. /\ Incoming(c) \in Messages /\ Incoming(c).type = "CHAT"
      /\ toServer' \in [Clients -> Seq(Messages)]
  BY <1>1, ReadsType
<1>3. nickName[c] \in Names /\ Incoming(c).text \in Texts
  BY <1>1, <1>2, MessageFields DEF TypeOK
<1>4. Chat(nickName[c], Incoming(c).text) \in Messages
  BY <1>3, MessageTypes
<1>5. Status("ChattingAlone") \in Messages
  BY MessageTypes DEF StatusCodes
<1>6. sendingQueue' \in [Clients -> Seq(Messages)]
  BY <1>1, <1>4, <1>5, ReplyType, SentType DEF ReceiveChat
<1>7. HandsFit'
  BY <1>1 DEF ReceiveChat, HandsFit
<1> QED BY <1>1, <1>2, <1>6, <1>7
        DEF ReceiveChat, NetworkIdle, ServerIdle, LoginIdle, TransferIdle,
            TypeInv, TypeOK, NetworkTypeOK

\* STATUS: the answer is saved and the answers are counted.
LEMMA AnswerTypes ==
  ASSUME TypeInv, NEW c \in Clients,
         ReceiveStatus(c) \/ SaveAnswer(c) \/ ScanAnswers(c)
  PROVE  TypeInv'
<1> USE DEF NetworkIdle, ServerIdle, LoginIdle
<1>0. TypeOK /\ HandsFit
  BY DEF TypeInv
<1>1. CASE ReceiveStatus(c)
  <2>1. /\ Incoming(c) \in Messages /\ Incoming(c).type = "STATUS"
        /\ toServer' \in [Clients -> Seq(Messages)]
    BY <1>0, <1>1, ReadsType DEF ReceiveStatus
  <2>2. CASE Incoming(c).code \in Answers /\ fileTransferModeActive
    <3>1. "answering" \in Steps /\ Incoming(c) \in Messages \cup {NoMessage}
      BY <2>1 DEF Steps
    <3>2. GoesOn(c, "answering", Incoming(c)) /\ UNCHANGED sendingQueue
      BY <1>1, <2>2 DEF ReceiveStatus
    <3>3. /\ HandsFit' /\ pc' \in [Clients -> Steps]
          /\ hand' \in [Clients -> Messages \cup {NoMessage}]
      BY <1>0, <2>1, <3>1, <3>2, GoesOnFits
    <3> QED BY <1>0, <1>1, <2>1, <3>2, <3>3
            DEF ReceiveStatus, TransferIdle, TypeInv, TypeOK, NetworkTypeOK
  <2>3. CASE ~(Incoming(c).code \in Answers /\ fileTransferModeActive)
    <3>1. Status("FileTransferCanceled") \in Messages
      BY MessageTypes DEF StatusCodes
    <3>2. /\ UNCHANGED <<pc, hand>>
          /\ sendingQueue' = IF Incoming(c).code \in Answers
                             THEN Reply(c, Status("FileTransferCanceled"))
                             ELSE sendingQueue
      BY <1>1, <2>3 DEF ReceiveStatus
    <3>3. sendingQueue' \in [Clients -> Seq(Messages)]
      BY <1>0, <3>1, <3>2, ReplyType DEF TypeOK
    <3>4. HandsFit'
      BY <1>0, <3>2 DEF HandsFit
    <3> QED BY <1>0, <1>1, <2>1, <3>2, <3>3, <3>4
            DEF ReceiveStatus, TransferIdle, TypeInv, TypeOK, NetworkTypeOK
  <2> QED BY <2>2, <2>3
<1>2. CASE SaveAnswer(c)
  <2>1. hand[c] \in Messages /\ hand[c].type = "STATUS"
    BY <1>0, <1>2 DEF SaveAnswer, HandsFit
  <2>2. fileTransferStatus' \in [Clients -> StatusCodes]
    BY <1>0, <1>2, <2>1, MessageFields DEF SaveAnswer, TypeOK
  <2>3. "scanning" \in Steps /\ NoMessage \in Messages \cup {NoMessage}
    BY DEF Steps
  <2>4. /\ HandsFit' /\ pc' \in [Clients -> Steps]
        /\ hand' \in [Clients -> Messages \cup {NoMessage}]
    BY <1>0, <1>2, <2>3, GoesOnFits DEF SaveAnswer
  <2> QED BY <1>0, <1>2, <2>2, <2>4 DEF SaveAnswer, TypeInv, TypeOK, NetworkTypeOK
<1>3. CASE ScanAnswers(c)
  <2>1. Verdict(c) \in Messages
    BY MessageTypes DEF Verdict, StatusCodes
  <2>2. sendingQueue' \in [Clients -> Seq(Messages)]
    BY <1>0, <1>3, <2>1, ReplyType DEF ScanAnswers, TypeOK
  <2>3. /\ HandsFit' /\ pc' \in [Clients -> Steps]
        /\ hand' \in [Clients -> Messages \cup {NoMessage}]
    BY <1>0, <1>3, FinishesFits DEF ScanAnswers
  <2> QED BY <1>0, <1>3, <2>2, <2>3
          DEF ScanAnswers, TransferIdle, TypeInv, TypeOK, NetworkTypeOK
<1> QED BY <1>1, <1>2, <1>3

\* FILE_REQUEST, up to the last assignment of its handler.
LEMMA RequestTypes ==
  ASSUME TypeInv, NEW c \in Clients,
         \/ ReceiveFileRequest(c) \/ AnnounceTransfer(c)
         \/ FlagSender(c) \/ AcceptOwnTransfer(c)
  PROVE  TypeInv'
<1> USE DEF NetworkIdle, ServerIdle, LoginIdle
<1>0. TypeOK /\ HandsFit
  BY DEF TypeInv
<1>1. CASE ReceiveFileRequest(c)
  <2>1. /\ Incoming(c) \in Messages /\ Incoming(c).type = "FILE_REQUEST"
        /\ toServer' \in [Clients -> Seq(Messages)]
    BY <1>0, <1>1, ReadsType DEF ReceiveFileRequest
  <2>2. CASE fileTransferModeActive
    <3>1. Status("FileTransferCanceled") \in Messages
      BY MessageTypes DEF StatusCodes
    <3>2. sendingQueue' \in [Clients -> Seq(Messages)] /\ UNCHANGED <<pc, hand>>
      BY <1>0, <1>1, <2>2, <3>1, ReplyType DEF ReceiveFileRequest
    <3>3. HandsFit'
      BY <1>0, <3>2 DEF HandsFit
    <3> QED BY <1>0, <1>1, <2>1, <3>2, <3>3
            DEF ReceiveFileRequest, TransferIdle, TypeInv, TypeOK, NetworkTypeOK
  <2>3. CASE ~fileTransferModeActive
    <3>1. "requesting" \in Steps /\ Incoming(c) \in Messages \cup {NoMessage}
      BY <2>1 DEF Steps
    <3>2. GoesOn(c, "requesting", Incoming(c)) /\ UNCHANGED sendingQueue
      BY <1>1, <2>3 DEF ReceiveFileRequest
    <3>3. /\ HandsFit' /\ pc' \in [Clients -> Steps]
          /\ hand' \in [Clients -> Messages \cup {NoMessage}]
      BY <1>0, <2>1, <3>1, <3>2, GoesOnFits
    <3> QED BY <1>0, <1>1, <2>1, <3>2, <3>3
            DEF ReceiveFileRequest, TransferIdle, TypeInv, TypeOK, NetworkTypeOK
  <2> QED BY <2>2, <2>3
<1>2. CASE AnnounceTransfer(c)
  <2>1. hand[c] \in Messages /\ hand[c].type = "FILE_REQUEST"
    BY <1>0, <1>2 DEF AnnounceTransfer, HandsFit
  <2>2. FileRequest(nickName[c], hand[c].file) \in Messages
    BY <1>0, <2>1, MessageFields, MessageTypes DEF TypeOK
  <2>3. Status("ChattingAlone") \in Messages
    BY MessageTypes DEF StatusCodes
  <2>4. sendingQueue' \in [Clients -> Seq(Messages)]
    BY <1>0, <1>2, <2>2, <2>3, ReplyType, SentType DEF AnnounceTransfer
  <2>5. "flagging" \in Steps /\ NoMessage \in Messages \cup {NoMessage}
    BY DEF Steps
  <2>6. /\ HandsFit' /\ pc' \in [Clients -> Steps]
        /\ hand' \in [Clients -> Messages \cup {NoMessage}]
    BY <1>0, <1>2, <2>5, FinishesFits, GoesOnFits DEF AnnounceTransfer
  <2>7. fileTransferModeActive' \in BOOLEAN
    BY <1>0, <1>2 DEF AnnounceTransfer, TypeOK
  <2> QED BY <1>0, <1>2, <2>4, <2>6, <2>7
          DEF AnnounceTransfer, TypeInv, TypeOK, NetworkTypeOK
<1>3. CASE FlagSender(c)
  <2>1. "accepting" \in Steps /\ NoMessage \in Messages \cup {NoMessage}
    BY DEF Steps
  <2>2. /\ HandsFit' /\ pc' \in [Clients -> Steps]
        /\ hand' \in [Clients -> Messages \cup {NoMessage}]
    BY <1>0, <1>3, <2>1, GoesOnFits DEF FlagSender
  <2>3. isFileTransferSender' \in [Clients -> BOOLEAN]
    BY <1>0, <1>3 DEF FlagSender, TypeOK
  <2> QED BY <1>0, <1>3, <2>2, <2>3 DEF FlagSender, TypeInv, TypeOK, NetworkTypeOK
<1>4. CASE AcceptOwnTransfer(c)
  <2>1. /\ HandsFit' /\ pc' \in [Clients -> Steps]
        /\ hand' \in [Clients -> Messages \cup {NoMessage}]
    BY <1>0, <1>4, FinishesFits DEF AcceptOwnTransfer
  <2>2. fileTransferStatus' \in [Clients -> StatusCodes]
    BY <1>0, <1>4 DEF AcceptOwnTransfer, StatusCodes, TypeOK
  <2> QED BY <1>0, <1>4, <2>1, <2>2
          DEF AcceptOwnTransfer, TypeInv, TypeOK, NetworkTypeOK
<1> QED BY <1>1, <1>2, <1>3, <1>4

\* FILE_DATA and the reset after the last block.
LEMMA DataTypes ==
  ASSUME TypeInv, NEW c \in Clients, ReceiveFileData(c) \/ ResetStatus(c)
  PROVE  TypeInv'
<1> USE DEF NetworkIdle, ServerIdle, LoginIdle
<1>0. TypeOK /\ HandsFit
  BY DEF TypeInv
<1>1. CASE ReceiveFileData(c)
  <2>1. /\ Incoming(c) \in Messages
        /\ toServer' \in [Clients -> Seq(Messages)]
    BY <1>0, <1>1, ReadsType DEF ReceiveFileData
  <2>2. sendingQueue' \in [Clients -> Seq(Messages)]
    BY <1>0, <1>1, <2>1, SentType DEF ReceiveFileData
  <2>3. /\ isFileTransferSender' \in [Clients -> BOOLEAN]
        /\ fileTransferModeActive' \in BOOLEAN
    BY <1>0, <1>1 DEF ReceiveFileData, TypeOK
  <2>4. "resetting" \in Steps /\ NoMessage \in Messages \cup {NoMessage}
    BY DEF Steps
  <2>5. /\ HandsFit' /\ pc' \in [Clients -> Steps]
        /\ hand' \in [Clients -> Messages \cup {NoMessage}]
    <3>1. CASE Incoming(c).last
      BY <1>0, <1>1, <2>4, <3>1, GoesOnFits DEF ReceiveFileData
    <3>2. CASE ~Incoming(c).last
      BY <1>0, <1>1, <3>2 DEF ReceiveFileData, HandsFit, TypeOK
    <3> QED BY <3>1, <3>2
  <2> QED BY <1>0, <1>1, <2>1, <2>2, <2>3, <2>5
          DEF ReceiveFileData, TypeInv, TypeOK, NetworkTypeOK
<1>2. CASE ResetStatus(c)
  <2>1. /\ HandsFit' /\ pc' \in [Clients -> Steps]
        /\ hand' \in [Clients -> Messages \cup {NoMessage}]
    BY <1>0, <1>2, FinishesFits DEF ResetStatus
  <2>2. fileTransferStatus' \in [Clients -> StatusCodes]
    BY <1>0, <1>2 DEF ResetStatus, StatusCodes, TypeOK
  <2> QED BY <1>0, <1>2, <2>1, <2>2 DEF ResetStatus, TypeInv, TypeOK, NetworkTypeOK
<1> QED BY <1>1, <1>2

\* writeData(), to a client that reads and to one that is gone.
LEMMA WriteTypes ==
  ASSUME TypeInv, NEW c \in Clients,
         Write(c) \/ WriteInVain(c) \/ WriteAfterReset(c) \/ ReceiveUnknown(c)
  PROVE  TypeInv'
<1> USE DEF ServerIdle, LoginIdle, TransferIdle
<1>0. TypeOK /\ HandsFit
  BY DEF TypeInv
<1>1. ASSUME sendingQueue[c] # <<>>
      PROVE  /\ Head(sendingQueue[c]) \in Messages
             /\ Tail(sendingQueue[c]) \in Seq(Messages)
  <2>1. sendingQueue[c] \in Seq(Messages)
    BY <1>0 DEF TypeOK
  <2> QED BY <1>1, <2>1
<1>2. UNCHANGED <<pc, hand>> => HandsFit'
  BY <1>0 DEF HandsFit
<1>3. CASE Write(c)
  <2>1. sendingQueue' \in [Clients -> Seq(Messages)]
    BY <1>0, <1>1, <1>3 DEF Write, TypeOK
  <2>2. toClient' \in [Clients -> Seq(Messages)]
    <3>1. Append(toClient[c], Head(sendingQueue[c])) \in Seq(Messages)
      BY <1>0, <1>1, <1>3 DEF Write, TypeOK, NetworkTypeOK
    <3> QED BY <1>0, <1>3, <3>1 DEF Write, TypeOK, NetworkTypeOK
  <2> QED BY <1>0, <1>2, <1>3, <2>1, <2>2 DEF Write, TypeInv, TypeOK, NetworkTypeOK
<1>4. CASE WriteInVain(c)
  <2>1. sendingQueue' \in [Clients -> Seq(Messages)]
    BY <1>0, <1>1, <1>4 DEF WriteInVain, TypeOK
  <2>2. clientEnd' \in [Clients -> Ends]
    BY <1>0, <1>4 DEF WriteInVain, Gone, Ends, TypeOK, NetworkTypeOK
  <2> QED BY <1>0, <1>2, <1>4, <2>1, <2>2
          DEF WriteInVain, TypeInv, TypeOK, NetworkTypeOK
<1>5. CASE WriteAfterReset(c)
  <2>1. serverStatus' \in {"running", "fatal", "sigpipe"} /\ serverEnd' \in [Clients -> Ends]
    BY <1>0, <1>5, DiesType DEF WriteAfterReset
  <2> QED BY <1>0, <1>2, <1>5, <2>1
          DEF WriteAfterReset, sessionVars, TypeInv, TypeOK, NetworkTypeOK
<1>6. CASE ReceiveUnknown(c)
  <2>1. serverStatus' \in {"running", "fatal", "sigpipe"} /\ serverEnd' \in [Clients -> Ends]
    BY <1>0, <1>6, DiesType DEF ReceiveUnknown
  <2> QED BY <1>0, <1>2, <1>6, <2>1
          DEF ReceiveUnknown, sessionVars, TypeInv, TypeOK, NetworkTypeOK
<1> QED BY <1>3, <1>4, <1>5, <1>6

\* The end of a session, and the message that finds it unregistered.
LEMMA EndTypes ==
  ASSUME TypeInv, NEW c \in Clients, Leave(c) \/ Hangup(c)
  PROVE  TypeInv'
<1>1. TypeOK /\ HandsFit /\ RemoveSession(c)
  BY DEF TypeInv, Leave, Hangup
<1>2. /\ serverStatus' \in {"running", "fatal", "sigpipe"}
      /\ serverEnd' \in [Clients -> Ends]
      /\ sessions' \in SUBSET Clients
      /\ fileTransferModeActive' \in BOOLEAN
      /\ pc' \in [Clients -> Steps]
      /\ sendingQueue' \in [Clients -> Seq(Messages)]
      /\ disconnectionFlag' \in [Clients -> BOOLEAN]
  BY <1>1, RemoveSessionType
<1>3. UNCHANGED <<toServer, toClient, clientEnd, connectionsCounter, listener, state,
                  isFileTransferSender, nickName, fileTransferStatus, hand>>
  BY DEF Leave, Hangup
<1>4. pc' = [pc EXCEPT ![c] = "none"] \/ UNCHANGED pc
  BY <1>1 DEF RemoveSession
<1>5. HandsFit'
  BY <1>1, <1>3, <1>4, PollFits
<1> QED BY <1>1, <1>2, <1>3, <1>5 DEF TypeInv, TypeOK, NetworkTypeOK

\* The two halves of addSession().
LEMMA ListenerTypes ==
  ASSUME TypeInv, Register \/ \E c \in Clients : Accept(c)
  PROVE  TypeInv'
<1>0. TypeOK /\ HandsFit
  BY DEF TypeInv
<1>1. CASE Register
  <2>1. HandsFit'
    BY <1>0, <1>1 DEF Register, sessionVars, HandsFit
  <2>2. listener' \in Clients \cup {NoClient} /\ sessions' \in SUBSET Clients
    BY <1>0, <1>1 DEF Register, TypeOK
  <2> QED BY <1>0, <1>1, <2>1, <2>2
          DEF Register, networkVars, sessionVars, TypeInv, TypeOK, NetworkTypeOK
<1>2. ASSUME NEW c \in Clients, Accept(c) PROVE TypeInv'
  <2>1. connectionsCounter' \in Nat
    BY <1>0, <1>2 DEF Accept, TypeOK
  <2>2. nickName' \in [Clients -> Names]
    BY <1>0, <1>2, <2>1, DefaultNames DEF Accept, TypeOK
  <2>3. serverEnd' \in [Clients -> Ends] /\ state' \in [Clients -> States]
    BY <1>0, <1>2 DEF Accept, Ends, States, TypeOK, NetworkTypeOK
  <2>4. pc' \in [Clients -> Steps] /\ isFileTransferSender' \in [Clients -> BOOLEAN]
    BY <1>0, <1>2 DEF Accept, Steps, TypeOK
  <2>5. HandsFit'
    BY <1>0, <1>2, PollFits DEF Accept
  <2>6. listener' \in Clients \cup {NoClient}
    BY <1>2 DEF Accept
  <2> QED BY <1>0, <1>2, <2>1, <2>2, <2>3, <2>4, <2>5, <2>6
          DEF Accept, TypeInv, TypeOK, NetworkTypeOK
<1> QED BY <1>1, <1>2

\* Clients touch the connections only.
LEMMA ClientTypes ==
  ASSUME TypeInv, NEW c \in Clients, ClientStep(c)
  PROVE  TypeInv'
<1>0. TypeOK /\ HandsFit
  BY DEF TypeInv
<1>1. UNCHANGED serverVars
  BY DEF ClientStep, Connect, ClientSends, ClientSendsInVain, ClientReceives, ClientCloses
<1>2. HandsFit'
  BY <1>0, <1>1 DEF serverVars, sessionVars, HandsFit
<1>3. NetworkTypeOK'
  <2> USE DEF TypeOK, NetworkTypeOK
  <2>1. CASE Connect(c)
    BY <1>0, <2>1 DEF Connect, Ends
  <2>2. ASSUME NEW m \in Messages, ClientSends(c, m) PROVE NetworkTypeOK'
    <3>1. Append(toServer[c], m) \in Seq(Messages)
      BY <1>0
    <3> QED BY <1>0, <2>2, <3>1 DEF ClientSends
  <2>3. CASE ClientSendsInVain(c)
    BY <1>0, <2>3 DEF ClientSendsInVain, Ends
  <2>4. CASE ClientReceives(c)
    <3>1. toClient[c] \in Seq(Messages) /\ toClient[c] # <<>>
      BY <1>0, <2>4 DEF ClientReceives
    <3>2. Tail(toClient[c]) \in Seq(Messages)
      BY <3>1
    <3>3. clientEnd' \in [Clients -> Ends]
      BY <1>0, <2>4 DEF ClientReceives, AfterClose, Ends
    <3>4. UNCHANGED <<toServer, serverEnd>>
      BY <2>4 DEF ClientReceives
    <3>5. toClient' = [toClient EXCEPT ![c] = Tail(toClient[c])]
      BY <2>4 DEF ClientReceives
    <3> QED BY <1>0, <3>2, <3>3, <3>4, <3>5
  <2>5. CASE ClientCloses(c)
    BY <1>0, <2>5 DEF ClientCloses, AfterClose, Ends
  <2> QED BY <2>1, <2>2, <2>3, <2>4, <2>5 DEF ClientStep
<1> QED BY <1>0, <1>1, <1>2, <1>3 DEF serverVars, sessionVars, TypeInv, TypeOK

\* The constructor of Server.
LEMMA InitTypes == Init => TypeInv
<1> SUFFICES ASSUME Init PROVE TypeInv
  OBVIOUS
<1> USE DEF Init, NetworkInit, ServerInit
<1>1. <<>> \in Seq(Messages)
  OBVIOUS
<1>2. NetworkTypeOK
  BY <1>1 DEF NetworkTypeOK, Ends
<1>3. nickName \in [Clients -> Names]
  BY DefaultNames
<1>4. TypeOK
  BY <1>1, <1>2, <1>3 DEF TypeOK, States, Steps, StatusCodes
<1>5. HandsFit
  BY DEF HandsFit
<1> QED BY <1>4, <1>5 DEF TypeInv

\* Every step of the server and its clients keeps the types.
LEMMA NextTypes == TypeInv /\ [Next]_vars => TypeInv'
<1> SUFFICES ASSUME TypeInv, [Next]_vars PROVE TypeInv'
  OBVIOUS
<1>1. ASSUME NEW c \in Clients, SessionStep(c) PROVE TypeInv'
  BY <1>1, LoginTypes, ReceiveChatTypes, AnswerTypes, RequestTypes, DataTypes,
     WriteTypes, EndTypes DEF SessionStep
<1>2. CASE UNCHANGED vars
  BY <1>2 DEF vars, networkVars, serverVars, sessionVars, TypeInv, TypeOK,
              NetworkTypeOK, HandsFit
<1> QED BY <1>1, <1>2, ListenerTypes, ClientTypes DEF Next, ServerStep

\* Whatever the clients send, every handler of the server finds in its message
\* the fields it uses and leaves every field of its sessions in its type.
THEOREM TypeCorrect == Spec => []TypeInv
BY InitTypes, NextTypes, PTL DEF Spec

\* The type invariant the runs check holds for any number of clients, queue
\* limit and wire: it is TypeInv without what the proof needs of the hands.
THEOREM TypesHold == Spec => []TypeOK
BY TypeCorrect, PTL DEF TypeInv

-----------------------------------------------------------------------------
(* The sessions.                                                           *)

\* Only registered sessions are in the middle of a handler, for a message to a
\* session that is not yet registered aborts the server.
HandlersRegistered == \A c \in Clients : pc[c] \notin {"none", "poll"} => c \in sessions

NewcomerUnregistered == listener \notin sessions

ThreadsInv == HandlersRegistered /\ NewcomerUnregistered /\ SessionsHaveThreads

IInv == ThreadsInv /\ ActiveTransferHasSender /\ UnknownOnlyInChanges

\* The actions that work on a message of a registered session.
HandlerStep(c) ==
  \/ ReceiveHello(c) \/ ReceiveBye(c) \/ ReceiveNickname(c) \/ Rename(c)
  \/ ReceiveChat(c) \/ ReceiveStatus(c) \/ SaveAnswer(c) \/ ScanAnswers(c)
  \/ ReceiveFileRequest(c) \/ AnnounceTransfer(c) \/ FlagSender(c)
  \/ AcceptOwnTransfer(c) \/ ReceiveFileData(c) \/ ResetStatus(c)

\* A handler neither registers nor removes anybody, and its thread goes on.
LEMMA HandlerFrame ==
  ASSUME TypeInv, HandlersRegistered, NEW c \in Clients, HandlerStep(c)
  PROVE  /\ c \in sessions /\ pc[c] # "none"
         /\ UNCHANGED <<sessions, listener, serverStatus, serverEnd>>
         /\ UNCHANGED pc \/ \E step \in Steps \ {"none"} : pc' = [pc EXCEPT ![c] = step]
<1> USE DEF NetworkIdle, ServerIdle, GoesOn, Finishes, Steps
<1>1. CASE ReceiveHello(c) \/ ReceiveBye(c) \/ ReceiveNickname(c) \/ ReceiveChat(c)
  BY <1>1 DEF ReceiveHello, ReceiveBye, ReceiveNickname, ReceiveChat, Reads, CanRead
<1>2. CASE ReceiveStatus(c) \/ ReceiveFileRequest(c) \/ ReceiveFileData(c)
  BY <1>2 DEF ReceiveStatus, ReceiveFileRequest, ReceiveFileData, Reads, CanRead
<1>3. CASE Rename(c) \/ SaveAnswer(c) \/ ScanAnswers(c) \/ ResetStatus(c)
  BY <1>3 DEF Rename, SaveAnswer, ScanAnswers, ResetStatus, HandlersRegistered
<1>4. CASE AnnounceTransfer(c) \/ FlagSender(c) \/ AcceptOwnTransfer(c)
  BY <1>4 DEF AnnounceTransfer, FlagSender, AcceptOwnTransfer, HandlersRegistered
<1> QED BY <1>1, <1>2, <1>3, <1>4 DEF HandlerStep

\* Nothing of it happens in a dead process.
LEMMA HandlerRuns ==
  ASSUME NEW c \in Clients, HandlerStep(c)
  PROVE  Running
<1>1. CASE ReceiveHello(c) \/ ReceiveBye(c) \/ ReceiveNickname(c) \/ ReceiveChat(c)
  BY <1>1 DEF ReceiveHello, ReceiveBye, ReceiveNickname, ReceiveChat, Reads, CanRead
<1>2. CASE ReceiveStatus(c) \/ ReceiveFileRequest(c) \/ ReceiveFileData(c)
  BY <1>2 DEF ReceiveStatus, ReceiveFileRequest, ReceiveFileData, Reads, CanRead
<1>3. CASE Rename(c) \/ SaveAnswer(c) \/ ScanAnswers(c) \/ ResetStatus(c)
  BY <1>3 DEF Rename, SaveAnswer, ScanAnswers, ResetStatus
<1>4. CASE AnnounceTransfer(c) \/ FlagSender(c) \/ AcceptOwnTransfer(c)
  BY <1>4 DEF AnnounceTransfer, FlagSender, AcceptOwnTransfer
<1> QED BY <1>1, <1>2, <1>3, <1>4 DEF HandlerStep

\* So sessions, threads and sockets correspond as they did.
LEMMA HandlerThreads ==
  ASSUME TypeInv, ThreadsInv, NEW c \in Clients, HandlerStep(c)
  PROVE  ThreadsInv'
<1>1. /\ c \in sessions /\ pc[c] # "none"
      /\ UNCHANGED <<sessions, listener, serverStatus, serverEnd>>
      /\ UNCHANGED pc \/ \E step \in Steps \ {"none"} : pc' = [pc EXCEPT ![c] = step]
  BY HandlerFrame DEF ThreadsInv
<1>2. pc \in [Clients -> Steps]
  BY DEF TypeInv, TypeOK
<1>3. \A d \in Clients : d # c => pc'[d] = pc[d]
  BY <1>1, <1>2
<1>4. pc'[c] # "none"
  BY <1>1, <1>2
<1>5. HandlersRegistered'
  BY <1>1, <1>3 DEF ThreadsInv, HandlersRegistered
<1>6. SessionsHaveThreads'
  BY <1>1, <1>3, <1>4 DEF ThreadsInv, SessionsHaveThreads, Running
<1> QED BY <1>1, <1>5, <1>6 DEF ThreadsInv, NewcomerUnregistered

\* A handler ends a transfer only with the flag that marks its sender.
LEMMA HandlerTransfer ==
  ASSUME TypeInv, ThreadsInv, ActiveTransferHasSender, NEW c \in Clients, HandlerStep(c)
  PROVE  ActiveTransferHasSender'
<1>1. /\ c \in sessions /\ UNCHANGED sessions
      /\ UNCHANGED pc \/ \E step \in Steps : pc' = [pc EXCEPT ![c] = step]
  BY HandlerFrame DEF ThreadsInv
<1>2. /\ pc \in [Clients -> Steps] /\ isFileTransferSender \in [Clients -> BOOLEAN]
      /\ sessions \in SUBSET Clients
  BY DEF TypeInv, TypeOK
<1>3. \A d \in Clients : d # c => pc'[d] = pc[d]
  BY <1>1, <1>2
<1>4. ASSUME UNCHANGED <<fileTransferModeActive, isFileTransferSender>>,
             pc[c] # "flagging"
      PROVE  ActiveTransferHasSender'
  BY <1>1, <1>2, <1>3, <1>4 DEF ActiveTransferHasSender
<1>5. CASE AnnounceTransfer(c)
  <2>1. CASE Alone(c)
    <3>1. UNCHANGED <<fileTransferModeActive, isFileTransferSender>> /\ pc[c] # "flagging"
      BY <1>5, <2>1 DEF AnnounceTransfer
    <3> QED BY <1>4, <3>1
  <2>2. CASE ~Alone(c)
    <3>1. pc'[c] = "flagging"
      BY <1>2, <1>5, <2>2 DEF AnnounceTransfer, GoesOn
    <3> QED BY <1>1, <3>1 DEF ActiveTransferHasSender
  <2> QED BY <2>1, <2>2
<1>6. CASE FlagSender(c)
  <2>1. isFileTransferSender'[c]
    BY <1>2, <1>6 DEF FlagSender
  <2> QED BY <1>1, <2>1 DEF ActiveTransferHasSender
<1>7. CASE ReceiveFileData(c)
  <2>1. CASE Incoming(c).last /\ ~Alone(c)
    <3>1. ~fileTransferModeActive'
      BY <1>7, <2>1 DEF ReceiveFileData
    <3> QED BY <3>1 DEF ActiveTransferHasSender
  <2>2. CASE ~(Incoming(c).last /\ ~Alone(c))
    <3>1. UNCHANGED <<fileTransferModeActive, isFileTransferSender>> /\ pc[c] # "flagging"
      BY <1>7, <2>2 DEF ReceiveFileData, Reads, CanRead
    <3> QED BY <1>4, <3>1
  <2> QED BY <2>1, <2>2
<1>8. CASE ~(AnnounceTransfer(c) \/ FlagSender(c) \/ ReceiveFileData(c))
  <2>1. UNCHANGED <<fileTransferModeActive, isFileTransferSender>> /\ pc[c] # "flagging"
    <3>1. CASE ReceiveHello(c) \/ ReceiveBye(c) \/ ReceiveNickname(c) \/ ReceiveChat(c)
      BY <3>1 DEF ReceiveHello, ReceiveBye, ReceiveNickname, ReceiveChat, Reads,
                  CanRead, TransferIdle
    <3>2. CASE ReceiveStatus(c) \/ ReceiveFileRequest(c)
      BY <3>2 DEF ReceiveStatus, ReceiveFileRequest, Reads, CanRead, TransferIdle
    <3>3. CASE Rename(c) \/ ScanAnswers(c)
      BY <3>3 DEF Rename, ScanAnswers, TransferIdle
    <3>4. CASE SaveAnswer(c) \/ ResetStatus(c) \/ AcceptOwnTransfer(c)
      BY <3>4 DEF SaveAnswer, ResetStatus, AcceptOwnTransfer
    <3> QED BY <1>8, <3>1, <3>2, <3>3, <3>4 DEF HandlerStep
  <2> QED BY <1>4, <2>1
<1> QED BY <1>5, <1>6, <1>7, <1>8

\* A dead process changes no session, and a client that is gone stays gone.
LEMMA StillLeaving ==
  ASSUME UnknownOnlyInChanges,
         UNCHANGED <<serverStatus, listener, sessions, pc, disconnectionFlag, sendingQueue>>,
         \A d \in sessions : clientEnd[d] \in Gone => clientEnd'[d] \in Gone
  PROVE  UnknownOnlyInChanges'
<1> SUFFICES ASSUME serverStatus' = "fatal", listener' = NoClient
             PROVE  \E d \in sessions' : Leaving(d)'
  BY DEF UnknownOnlyInChanges
<1>1. PICK d \in sessions : Leaving(d)
  BY DEF UnknownOnlyInChanges
<1>2. Leaving(d)'
  BY <1>1 DEF Leaving, KeepsPolling
<1> QED BY <1>1, <1>2

\* What changes nothing else the invariant is about.
LEMMA Undisturbed ==
  ASSUME IInv, UnknownOnlyInChanges',
         UNCHANGED <<pc, sessions, listener, serverStatus, serverEnd,
                     fileTransferModeActive, isFileTransferSender>>
  PROVE  IInv'
BY DEF IInv, ThreadsInv, HandlersRegistered, NewcomerUnregistered, SessionsHaveThreads,
       ActiveTransferHasSender, Running

\* An unregistered session that polls is the newcomer.
LEMMA UnregisteredIsNewcomer ==
  ASSUME ThreadsInv, NEW c \in Clients, pc[c] = "poll", c \notin sessions
  PROVE  listener # NoClient
<1>1. c = listener
  BY DEF ThreadsInv, SessionsHaveThreads
<1> QED BY <1>1, NoClientAssumption

\* A process that dies takes all its threads and sockets with it.
LEMMA DyingInv ==
  ASSUME IInv, NEW cause \in {"fatal", "sigpipe"}, Dies(cause),
         cause = "fatal" => listener # NoClient \/ \E d \in sessions : Leaving(d),
         UNCHANGED <<pc, sessions, listener, fileTransferModeActive, isFileTransferSender,
                     disconnectionFlag, sendingQueue, clientEnd>>
  PROVE  IInv'
<1>1. serverStatus' = cause /\ ~Running'
  BY DEF Dies, Running
<1>2. ThreadsInv'
  BY <1>1 DEF IInv, ThreadsInv, HandlersRegistered, NewcomerUnregistered,
              SessionsHaveThreads
<1>3. ActiveTransferHasSender'
  BY DEF IInv, ActiveTransferHasSender
<1>4. UnknownOnlyInChanges'
  BY <1>1 DEF UnknownOnlyInChanges, Leaving, KeepsPolling
<1> QED BY <1>2, <1>3, <1>4 DEF IInv

\* A session that ends takes the transfer it has started with it.
LEMMA RemovedInv ==
  ASSUME TypeInv, IInv, NEW c \in Clients, pc[c] = "poll", RemoveSession(c),
         Running, UNCHANGED <<listener, isFileTransferSender, clientEnd>>
  PROVE  IInv'
<1>1. CASE c \notin sessions
  <2>1. /\ Dies("fatal")
        /\ UNCHANGED <<sessions, fileTransferModeActive, pc, sendingQueue, disconnectionFlag>>
    BY <1>1 DEF RemoveSession
  <2>2. listener # NoClient
    BY <1>1, UnregisteredIsNewcomer DEF IInv
  <2> QED BY <2>1, <2>2, DyingInv
<1>2. CASE c \in sessions
  <2>1. /\ sessions' = sessions \ {c} /\ UNCHANGED serverStatus
        /\ fileTransferModeActive' = (fileTransferModeActive /\ ~isFileTransferSender[c])
    BY <1>2 DEF RemoveSession
  <2>2. /\ pc \in [Clients -> Steps] /\ serverEnd \in [Clients -> Ends]
        /\ sessions \in SUBSET Clients
    BY DEF TypeInv, TypeOK, NetworkTypeOK
  <2>3. /\ pc'[c] = "none" /\ serverEnd'[c] # "open"
        /\ \A d \in Clients \ {c} : pc'[d] = pc[d] /\ serverEnd'[d] = serverEnd[d]
    BY <1>2, <2>2 DEF RemoveSession, AfterClose
  <2>4. c # listener
    BY <1>2 DEF IInv, ThreadsInv, NewcomerUnregistered
  <2>5. ThreadsInv'
    <3>1. HandlersRegistered'
      BY <2>1, <2>3 DEF IInv, ThreadsInv, HandlersRegistered
    <3>2. NewcomerUnregistered'
      BY <2>1 DEF IInv, ThreadsInv, NewcomerUnregistered
    <3>3. SessionsHaveThreads'
      BY <2>1, <2>3, <2>4 DEF IInv, ThreadsInv, SessionsHaveThreads, Running
    <3> QED BY <3>1, <3>2, <3>3 DEF ThreadsInv
  <2>6. ActiveTransferHasSender'
    <3> SUFFICES ASSUME fileTransferModeActive'
                 PROVE  \E d \in sessions' : isFileTransferSender'[d] \/ pc'[d] = "flagging"
      BY DEF ActiveTransferHasSender
    <3>1. fileTransferModeActive /\ ~isFileTransferSender[c]
      BY <2>1
    <3>2. PICK d \in sessions : isFileTransferSender[d] \/ pc[d] = "flagging"
      BY <3>1 DEF IInv, ActiveTransferHasSender
    <3>3. d # c
      BY <3>1, <3>2
    <3>4. d \in sessions' /\ pc'[d] = pc[d]
      BY <2>1, <2>2, <2>3, <3>3
    <3> QED BY <3>2, <3>4
  <2>7. UnknownOnlyInChanges'
    BY <2>1 DEF UnknownOnlyInChanges, Running
  <2> QED BY <2>5, <2>6, <2>7 DEF IInv
<1> QED BY <1>1, <1>2

\* Every step of a session's thread.
LEMMA SessionInv ==
  ASSUME TypeInv, IInv, NEW c \in Clients, SessionStep(c)
  PROVE  IInv'
<1>1. CASE HandlerStep(c)
  <2>1. ThreadsInv' /\ ActiveTransferHasSender'
    BY <1>1, HandlerThreads, HandlerTransfer DEF IInv
  <2>2. serverStatus' = serverStatus /\ Running
    BY <1>1, HandlerFrame, HandlerRuns DEF IInv, ThreadsInv
  <2>3. UnknownOnlyInChanges'
    BY <2>2 DEF UnknownOnlyInChanges, Running
  <2> QED BY <2>1, <2>3 DEF IInv
<1>2. CASE Write(c) \/ WriteInVain(c)
  <2>1. serverStatus' = "running"
    BY <1>2 DEF Write, WriteInVain, ServerIdle, Running
  <2>2. UnknownOnlyInChanges'
    BY <2>1 DEF UnknownOnlyInChanges
  <2> QED BY <1>2, <2>2, Undisturbed DEF Write, WriteInVain, ServerIdle, TransferIdle
<1>3. CASE WriteAfterReset(c)
  BY <1>3, DyingInv DEF WriteAfterReset, sessionVars
<1>4. CASE ReceiveUnknown(c)
  <2>1. CASE c \in sessions
    BY <1>4, <2>1, DyingInv DEF ReceiveUnknown, MayMiss, sessionVars
  <2>2. CASE c \notin sessions
    <3>1. pc[c] = "poll"
      BY <1>4, <2>2
      DEF ReceiveUnknown, Searches, CanRead, IInv, ThreadsInv, HandlersRegistered
    <3>2. listener # NoClient
      BY <2>2, <3>1, UnregisteredIsNewcomer DEF IInv
    <3> QED BY <1>4, <3>2, DyingInv DEF ReceiveUnknown, sessionVars
  <2> QED BY <2>1, <2>2
<1>5. CASE Leave(c) \/ Hangup(c)
  BY <1>5, RemovedInv DEF Leave, Hangup
<1> QED BY <1>1, <1>2, <1>3, <1>4, <1>5 DEF SessionStep, HandlerStep

\* The newcomer has a thread before it is in sessions_.
LEMMA ListenerInv ==
  ASSUME TypeInv, IInv, Register \/ \E c \in Clients : Accept(c)
  PROVE  IInv'
<1>1. /\ pc \in [Clients -> Steps] /\ serverEnd \in [Clients -> Ends]
      /\ isFileTransferSender \in [Clients -> BOOLEAN] /\ sessions \in SUBSET Clients
  BY DEF TypeInv, TypeOK, NetworkTypeOK
<1>2. CASE Register
  <2> USE <1>2 DEF Register, networkVars, sessionVars
  <2>1. ThreadsInv'
    <3>1. HandlersRegistered'
      BY DEF IInv, ThreadsInv, HandlersRegistered
    <3>2. NewcomerUnregistered'
      BY <1>1, NoClientAssumption DEF NewcomerUnregistered, TypeInv, TypeOK
    <3>3. SessionsHaveThreads'
      BY NoClientAssumption DEF IInv, ThreadsInv, SessionsHaveThreads, Running
    <3> QED BY <3>1, <3>2, <3>3 DEF ThreadsInv
  <2>2. ActiveTransferHasSender'
    BY DEF IInv, ActiveTransferHasSender
  <2>3. UnknownOnlyInChanges'
    BY DEF UnknownOnlyInChanges, Running
  <2> QED BY <2>1, <2>2, <2>3 DEF IInv
<1>3. ASSUME NEW c \in Clients, Accept(c) PROVE IInv'
  <2>1. /\ listener' = c /\ UNCHANGED <<sessions, serverStatus, fileTransferModeActive>>
        /\ pc'[c] = "poll" /\ serverEnd'[c] = "open"
        /\ listener = NoClient /\ Running /\ serverEnd[c] = "idle"
        /\ \A d \in Clients \ {c} :
              /\ pc'[d] = pc[d] /\ serverEnd'[d] = serverEnd[d]
              /\ isFileTransferSender'[d] = isFileTransferSender[d]
    BY <1>1, <1>3 DEF Accept
  <2>2. c \notin sessions /\ pc[c] = "none"
    BY <2>1 DEF IInv, ThreadsInv, SessionsHaveThreads
  <2>3. ThreadsInv'
    <3>1. HandlersRegistered'
      BY <2>1 DEF IInv, ThreadsInv, HandlersRegistered
    <3>2. NewcomerUnregistered'
      BY <2>1, <2>2 DEF NewcomerUnregistered
    <3>3. SessionsHaveThreads'
      BY <2>1, <2>2, NoClientAssumption DEF IInv, ThreadsInv, SessionsHaveThreads, Running
    <3> QED BY <3>1, <3>2, <3>3 DEF ThreadsInv
  <2>4. ActiveTransferHasSender'
    BY <1>1, <2>1, <2>2 DEF IInv, ActiveTransferHasSender
  <2>5. UnknownOnlyInChanges'
    BY <2>1 DEF UnknownOnlyInChanges, Running
  <2> QED BY <2>3, <2>4, <2>5 DEF IInv
<1> QED BY <1>2, <1>3

\* Clients end connections, but not the server's sessions.
LEMMA ClientInv ==
  ASSUME TypeInv, IInv, NEW c \in Clients, ClientStep(c)
  PROVE  IInv'
<1>1. UNCHANGED serverVars
  BY DEF ClientStep, Connect, ClientSends, ClientSendsInVain, ClientReceives, ClientCloses
<1>2. \A d \in Clients : clientEnd[d] \in Gone => clientEnd'[d] \in Gone
  BY DEF ClientStep, Connect, ClientSends, ClientSendsInVain, ClientReceives, ClientCloses,
         Gone, TypeInv, TypeOK, NetworkTypeOK
<1>3. UnknownOnlyInChanges'
  BY <1>1, <1>2, StillLeaving DEF IInv, TypeInv, TypeOK, serverVars, sessionVars
<1>4. CASE ClientSendsInVain(c)
  <2>1. \A d \in Clients : (serverEnd'[d] = "open") <=> (serverEnd[d] = "open")
    BY <1>4 DEF ClientSendsInVain, TypeInv, TypeOK, NetworkTypeOK
  <2> QED BY <1>1, <1>3, <2>1
          DEF serverVars, sessionVars, IInv, ThreadsInv, HandlersRegistered,
              NewcomerUnregistered, SessionsHaveThreads, ActiveTransferHasSender, Running
<1>5. CASE ~ClientSendsInVain(c)
  <2>1. UNCHANGED serverEnd
    BY <1>5 DEF ClientStep, Connect, ClientSends, ClientReceives, ClientCloses
  <2> QED BY <1>1, <1>3, <2>1, Undisturbed DEF serverVars, sessionVars
<1> QED BY <1>4, <1>5

\* The server starts without a session, a thread or a transfer.
LEMMA InitInv == Init => IInv
BY NoClientAssumption
   DEF Init, NetworkInit, ServerInit, IInv, ThreadsInv, HandlersRegistered,
       NewcomerUnregistered, SessionsHaveThreads, ActiveTransferHasSender,
       UnknownOnlyInChanges, Running

\* The inductive step, relative to the types.
LEMMA NextInv == TypeInv /\ IInv /\ [Next]_vars => IInv'
<1> SUFFICES ASSUME TypeInv, IInv, [Next]_vars PROVE IInv'
  OBVIOUS
<1>1. CASE UNCHANGED vars
  <2>1. UnknownOnlyInChanges'
    BY <1>1, StillLeaving DEF IInv, vars, networkVars, serverVars, sessionVars
  <2> QED BY <1>1, <2>1, Undisturbed DEF vars, networkVars, serverVars, sessionVars
<1> QED BY <1>1, SessionInv, ListenerInv, ClientInv DEF Next, ServerStep

\* The inductive invariant behind the three theorems below: registered sessions,
\* threads and sockets correspond, and no transfer is left without its sender.
THEOREM Invariance == Spec => []IInv
BY InitInv, NextInv, TypeCorrect, PTL DEF Spec

\* clientSentFileTransferRequest(), clientSentFileData(), removeSession(): for
\* any number of sessions, whatever they send and however their threads
\* interleave, an active transfer has a session that is able to end it.
THEOREM TransfersHaveSenders == Spec => []ActiveTransferHasSender
BY Invariance, PTL DEF IInv

\* addSession(), removeSession(): registered sessions, threads and open sockets
\* correspond one to one, but for the one session being accepted.
THEOREM ThreadsAndSessions == Spec => []SessionsHaveThreads
BY Invariance, PTL DEF IInv, ThreadsInv

\* findSession(), addSession(), removeSession(): the server aborts over an unknown
\* session only while the insertion of a new one, or the erasure of another, may be
\* under way: no step of any handler takes a session off sessions_ that goes on.
THEOREM UnknownOnlyInRaces == Spec => []UnknownOnlyInChanges
BY Invariance, PTL DEF IInv
=============================================================================
