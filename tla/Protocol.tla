------------------------------ MODULE Protocol ------------------------------
(***************************************************************************)
(* The messages clients and server exchange (common/messages, the command  *)
(* set of common/protocol.h, the codes of common/errors.h) and the sending *)
(* queue every session has.  A text is known by who typed it and when, a   *)
(* block of a file by the file and its number in it.                       *)
(***************************************************************************)
EXTENDS Naturals, Sequences

CONSTANTS Clients,      \* the client programs
          TypedNames,   \* nicknames users type
          MaxTexts,     \* texts a user types (a bound)
          Files,        \* files users send
          QueueLimit    \* MAX_NETWORK_MESSAGE_QUEUE

ASSUME QueueAssumption == QueueLimit \in Nat

ASSUME TextsAssumption == MaxTexts \in Nat

\* "User %d", the name the server gives a new session.
DefaultName(k) == <<"User", k>>
\* The sender of a message the client itself writes: none.
Anyone == DefaultName(0)
Names == TypedNames \cup ({"User"} \X Nat)

\* The k-th text the user of client c typed.
Texts == Clients \X (1..MaxTexts)

\* Block k of a file; how many blocks a file has is the sending client's
\* business.  Garbage is what a failed fread() leaves in a block, NoData a
\* block of no bytes.
Garbage == <<"garbage", 0>>
NoData == <<"no data", 0>>
Contents == (Files \X Nat) \cup {Garbage, NoData}

\* Neither of them is the block of a file.
ASSUME ContentsAssumption == \A x \in {Garbage, NoData} : x \notin Files \X Nat

StatusCodes == {"Ok", "ChattingAlone", "NickNameAlreadyRegistered",
                "AcceptFileTransfer", "RejectFileTransfer",
                "FileTransferCanceled"}

Hello == [type |-> "HELLO"]
Bye == [type |-> "BYE"]
Nickname(name) == [type |-> "NICKNAME", name |-> name]
Status(code) == [type |-> "STATUS", code |-> code]
Chat(sender, text) == [type |-> "CHAT", sender |-> sender, text |-> text]
FileRequest(sender, file) ==
  [type |-> "FILE_REQUEST", sender |-> sender, file |-> file]
FileData(offset, content, last) ==
  [type |-> "FILE_DATA", offset |-> offset, content |-> content, last |-> last]

Messages ==
  {Hello, Bye}
    \cup [type : {"NICKNAME"}, name : Names]
    \cup [type : {"STATUS"}, code : StatusCodes]
    \cup [type : {"CHAT"}, sender : Names, text : Texts]
    \cup [type : {"FILE_REQUEST"}, sender : Names, file : Files]
    \cup [type : {"FILE_DATA"}, offset : Nat, content : Contents, last : BOOLEAN]

\* Mutant of CanSend: whether the queue is full.
QueueIsFull(queue) == Len(queue) > QueueLimit

\* Mutant of CanSend: a session takes a message only when none is waiting.
QueueIsEmpty(queue) == queue = <<>>

\* SessionBase::canSendMessages()
CanSend(queue) == Len(queue) <= QueueLimit

\* Mutant of Push: the newest message first, as receiveMessage() takes them.
PushFirst(queue, message) ==
  IF CanSend(queue) THEN <<message>> \o queue ELSE queue

\* SessionBase::sendMessage(): a message for a full queue is dropped.  Its
\* result, which would tell, is ignored by every caller.
Push(queue, message) ==
  IF CanSend(queue) THEN Append(queue, message) ELSE queue
=============================================================================
