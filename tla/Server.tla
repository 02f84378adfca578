------------------------------- MODULE Server -------------------------------
(***************************************************************************)
(* The server program: class Server and the SessionClient of every         *)
(* connection.  Each session runs pollForData() in a thread of its own,    *)
(* and every thread reads and writes fileTransferModeActive_, sessions_    *)
(* and the other sessions' fields without a lock.  A handler is therefore  *)
(* cut at its accesses to that shared state: pc says which step of it is   *)
(* next, hand the message it works on.  One walk over sessions_ is one     *)
(* step.  What clients may do here is whatever the protocol's messages     *)
(* allow, in any order; Messenger replaces them by the real client.        *)
(***************************************************************************)
EXTENDS Network, FiniteSets

CONSTANTS NoClient,    \* no session
          NoMessage,   \* no message in hand
          Address,     \* where each SessionClient is: the order of sessions_
          SpaceExtends \* <<a, b>>: the name b begins with a and a blank

ASSUME NoClientAssumption == NoClient \notin Clients

ASSUME AddressAssumption ==
  /\ Address \in [Clients -> Nat]
  /\ \A c, d \in Clients : Address[c] = Address[d] => c = d

VARIABLES
  serverStatus,            \* "running", or what ended the process
  connectionsCounter,      \* connectionsCounter_
  listener,                \* the session addSession() has yet to register
  sessions,                \* the keys of sessions_
  fileTransferModeActive,  \* fileTransferModeActive_
  state,                   \* SessionData::state
  isFileTransferSender,    \* SessionData::isFileTransferSender
  nickName,                \* SessionClient::nickName_
  fileTransferStatus,      \* SessionClient::fileTransferStatus_
  sendingQueue,            \* SessionBase::sendingQueue_
  disconnectionFlag,       \* SessionBase::disconnectionFlag_
  pc,                      \* what the session's thread does next
  hand                     \* the message its handler works on

sessionVars == <<state, isFileTransferSender, nickName, fileTransferStatus,
                 sendingQueue, disconnectionFlag, pc, hand>>
serverVars == <<serverStatus, connectionsCounter, listener, sessions,
                fileTransferModeActive, sessionVars>>
vars == <<networkVars, serverVars>>

States == {"start", "identify", "ready", "invalid"}
Steps == {"none", "poll", "renaming", "answering", "scanning",
          "requesting", "flagging", "accepting", "resetting"}

TypeOK ==
  /\ NetworkTypeOK
  /\ serverStatus \in {"running", "fatal", "sigpipe"}
  /\ connectionsCounter \in Nat
  /\ listener \in Clients \cup {NoClient}
  /\ sessions \in SUBSET Clients
  /\ fileTransferModeActive \in BOOLEAN
  /\ state \in [Clients -> States]
  /\ isFileTransferSender \in [Clients -> BOOLEAN]
  /\ nickName \in [Clients -> Names]
  /\ fileTransferStatus \in [Clients -> StatusCodes]
  /\ sendingQueue \in [Clients -> Seq(Messages)]
  /\ disconnectionFlag \in [Clients -> BOOLEAN]
  /\ pc \in [Clients -> Steps]
  /\ hand \in [Clients -> Messages \cup {NoMessage}]

ServerInit ==
  /\ serverStatus = "running"
  /\ connectionsCounter = 0
  /\ listener = NoClient
  /\ sessions = {}
  /\ fileTransferModeActive = FALSE
  /\ state = [c \in Clients |-> "start"]
  /\ isFileTransferSender = [c \in Clients |-> FALSE]
  /\ nickName = [c \in Clients |-> DefaultName(0)]
  /\ fileTransferStatus = [c \in Clients |-> "FileTransferCanceled"]
  /\ sendingQueue = [c \in Clients |-> <<>>]
  /\ disconnectionFlag = [c \in Clients |-> FALSE]
  /\ pc = [c \in Clients |-> "none"]
  /\ hand = [c \in Clients |-> NoMessage]

Running == serverStatus = "running"

\* Mutant of Peers: the walk over sessions_ does not skip the sender.
PeersAndSelf(c) == sessions

Peers(c) == sessions \ {c}
Alone(c) == sessions = {c}

\* The queues after c's own session sends itself a reply.
Reply(c, message) == [sendingQueue EXCEPT ![c] = Push(@, message)]

\* The queues after the same message is sent to every session in to.
Sent(to, message) ==
  [p \in Clients |-> IF p \in to THEN Push(sendingQueue[p], message)
                                 ELSE sendingQueue[p]]

-----------------------------------------------------------------------------
(* The listening thread: accept() and addSession().                        *)

\* Up to pthread_create(): the session exists and its thread runs, but
\* sessions_ does not have it yet.
Accept(c) ==
  /\ Running
  /\ listener = NoClient
  /\ clientEnd[c] # "idle"
  /\ serverEnd[c] = "idle"
  /\ connectionsCounter' = connectionsCounter + 1
  /\ serverEnd' = [serverEnd EXCEPT ![c] = "open"]
  /\ nickName' = [nickName EXCEPT ![c] = DefaultName(connectionsCounter')]
  /\ state' = [state EXCEPT ![c] = "start"]
  /\ isFileTransferSender' = [isFileTransferSender EXCEPT ![c] = FALSE]
  /\ pc' = [pc EXCEPT ![c] = "poll"]
  /\ listener' = c
  /\ UNCHANGED <<toServer, toClient, clientEnd, serverStatus, sessions,
                 fileTransferModeActive, fileTransferStatus, sendingQueue,
                 disconnectionFlag, hand>>

\* The rest of it, under the mutex.
Register ==
  /\ Running
  /\ listener # NoClient
  /\ sessions' = sessions \cup {listener}
  /\ listener' = NoClient
  /\ UNCHANGED <<networkVars, serverStatus, connectionsCounter,
                 fileTransferModeActive, sessionVars>>

-----------------------------------------------------------------------------
(* A session's thread: reading one message.                                *)

\* The condition of pollForData()'s loop.
KeepsPolling(c) == ~disconnectionFlag[c] \/ sendingQueue[c] # <<>>

\* readData() may find a message in the stream of c's connection.  When it must
\* is for module Reception to say.
CanRead(c) ==
  /\ Running
  /\ pc[c] = "poll"
  /\ KeepsPolling(c)
  /\ toServer[c] # <<>>

Incoming(c) == Head(toServer[c])

\* A registered session takes a message of that type.
Reads(c, type) ==
  /\ CanRead(c)
  /\ c \in sessions
  /\ Incoming(c).type = type
  /\ toServer' = [toServer EXCEPT ![c] = Tail(@)]

\* Mutant of ExpectedStates: who has no name yet cannot take one.
ExpectedStatesNamed ==
  [HELLO |-> {"start"},
   NICKNAME |-> {"ready"},
   BYE |-> {"start", "identify", "ready"}]

\* The states in which a message that changes the state may come.
ExpectedStates ==
  [HELLO |-> {"start"},
   NICKNAME |-> {"identify", "ready"},
   BYE |-> {"start", "identify", "ready"}]

\* Mutant of NextState: BYE leads to CLIENT_STATE_END, which no case expects.
NextStateEnding == [HELLO |-> "identify", NICKNAME |-> "ready", BYE |-> "end"]

NextState == [HELLO |-> "identify", NICKNAME |-> "ready", BYE |-> "invalid"]

InOrder(c, type) == state[c] \in ExpectedStates[type]

\* checkSessionStateChange(): a message out of order has the session
\* disconnected, that is BYE queued and the flag set, once.
CheckSessionStateChange(c, type) ==
  /\ state' = [state EXCEPT ![c] = IF InOrder(c, type) THEN NextState[type] ELSE @]
  /\ disconnectionFlag' = [disconnectionFlag EXCEPT ![c] = @ \/ ~InOrder(c, type)]

\* What that leaves in the session's own queue.
Checked(c, type) ==
  IF InOrder(c, type) \/ disconnectionFlag[c]
  THEN sendingQueue[c]
  ELSE Push(sendingQueue[c], Bye)

\* The handler goes on with m at its next step.
GoesOn(c, step, m) ==
  /\ pc' = [pc EXCEPT ![c] = step]
  /\ hand' = [hand EXCEPT ![c] = m]

\* The last step of a handler.
Finishes(c) == GoesOn(c, "poll", NoMessage)

\* What the handlers of one session leave alone.
NetworkIdle == UNCHANGED <<toClient, clientEnd, serverEnd>>
ServerIdle == UNCHANGED <<serverStatus, connectionsCounter, listener, sessions>>
LoginIdle == UNCHANGED <<state, nickName, disconnectionFlag>>
TransferIdle == UNCHANGED <<fileTransferModeActive, isFileTransferSender,
                            fileTransferStatus>>

\* The process dies and its kernel closes every connection.
Dies(cause) ==
  /\ serverStatus' = cause
  /\ serverEnd' = [c \in Clients |->
                     IF clientEnd[c] = "idle" \/ serverEnd[c] \in Gone
                     THEN serverEnd[c]
                     ELSE AfterClose(toServer[c])]

\* A registered session is on its way out: its loop is over, or may be, and its
\* destructor erases it from sessions_.
Leaving(c) ==
  /\ pc[c] = "poll"
  /\ ~KeepsPolling(c) \/ clientEnd[c] \in Gone

\* The handlers' findSession() takes no lock: a search that overlaps another
\* thread's insertion or erasure may miss a session sessions_ has.
MayMiss(c) == listener # NoClient \/ \E d \in sessions \ {c} : Leaving(d)

\* The thread searches sessions_: for every message, and once more in the
\* handlers that are cut into steps.
Searches(c) == CanRead(c) \/ (Running /\ pc[c] \in {"requesting", "scanning"})

\* The search does not find the session: Common::fatal() aborts.
ReceiveUnknown(c) ==
  /\ Searches(c)
  /\ c \notin sessions \/ MayMiss(c)
  /\ Dies("fatal")
  /\ UNCHANGED <<toServer, toClient, clientEnd, connectionsCounter, listener, sessions,
                 fileTransferModeActive, sessionVars>>

ReceiveHello(c) ==
  /\ Reads(c, "HELLO")
  /\ CheckSessionStateChange(c, "HELLO")
  /\ sendingQueue' = [sendingQueue EXCEPT ![c] =
                        Push(Checked(c, "HELLO"), Nickname(nickName[c]))]
  /\ UNCHANGED <<nickName, pc, hand>>
  /\ NetworkIdle /\ ServerIdle /\ TransferIdle

\* BYE only changes the state: the session lives on until its client closes.
ReceiveBye(c) ==
  /\ Reads(c, "BYE")
  /\ CheckSessionStateChange(c, "BYE")
  /\ sendingQueue' = [sendingQueue EXCEPT ![c] = Checked(c, "BYE")]
  /\ UNCHANGED <<nickName, pc, hand>>
  /\ NetworkIdle /\ ServerIdle /\ TransferIdle

\* clientChangedNickName(): the loop that cleans the name also turns its final
\* NUL into a blank, so the copy that is compared is the name, a blank and
\* whatever was on the stack.  Only the name of a peer that goes on like that
\* can equal it, and need not.
MayClash(c, name) == \E p \in Peers(c) : <<name, nickName[p]>> \in SpaceExtends

\* NICKNAME, up to the verdict of clientChangedNickName().
ReceiveNickname(c) ==
  LET name == Incoming(c).name
      checked == Checked(c, "NICKNAME")
  IN  /\ Reads(c, "NICKNAME")
      /\ CheckSessionStateChange(c, "NICKNAME")
      /\ \/ /\ GoesOn(c, "renaming", Incoming(c))
            /\ sendingQueue' = [sendingQueue EXCEPT ![c] = checked]
         \/ /\ MayClash(c, name)
            /\ sendingQueue' = [sendingQueue EXCEPT ![c] =
                                  Push(checked, Status("NickNameAlreadyRegistered"))]
            /\ UNCHANGED <<pc, hand>>
      /\ UNCHANGED nickName
      /\ NetworkIdle /\ ServerIdle /\ TransferIdle

\* Mutant of Rename: the answer is made before the name is set.
RenameAnsweringFirst(c) ==
  /\ Running
  /\ pc[c] = "renaming"
  /\ sendingQueue' = Reply(c, Nickname(nickName[c]))
  /\ nickName' = [nickName EXCEPT ![c] = hand[c].name]
  /\ Finishes(c)
  /\ UNCHANGED <<toServer, state, disconnectionFlag>>
  /\ NetworkIdle /\ ServerIdle /\ TransferIdle

\* The rest of it: setNickName() and, in the same step, the answer.
Rename(c) ==
  /\ Running
  /\ pc[c] = "renaming"
  /\ nickName' = [nickName EXCEPT ![c] = hand[c].name]
  /\ sendingQueue' = Reply(c, Nickname(hand[c].name))
  /\ Finishes(c)
  /\ UNCHANGED <<toServer, state, disconnectionFlag>>
  /\ NetworkIdle /\ ServerIdle /\ TransferIdle

\* CHAT: everybody else gets the text under the sender's current name.
ReceiveChat(c) ==
  /\ Reads(c, "CHAT")
  /\ sendingQueue' =
       IF Alone(c)
       THEN Reply(c, Status("ChattingAlone"))
       ELSE Sent(Peers(c), Chat(nickName[c], Incoming(c).text))
  /\ UNCHANGED <<pc, hand>>
  /\ NetworkIdle /\ ServerIdle /\ LoginIdle /\ TransferIdle

-----------------------------------------------------------------------------
(* A session's thread: file transfers.                                     *)

Answers == {"AcceptFileTransfer", "RejectFileTransfer"}

\* STATUS: an answer to a file request counts only while a transfer is active.
ReceiveStatus(c) ==
  /\ Reads(c, "STATUS")
  /\ IF Incoming(c).code \in Answers /\ fileTransferModeActive
     THEN GoesOn(c, "answering", Incoming(c)) /\ UNCHANGED sendingQueue
     ELSE /\ UNCHANGED <<pc, hand>>
          /\ sendingQueue' = IF Incoming(c).code \in Answers
                             THEN Reply(c, Status("FileTransferCanceled"))
                             ELSE sendingQueue
  /\ NetworkIdle /\ ServerIdle /\ LoginIdle /\ TransferIdle

SaveAnswer(c) ==
  /\ Running
  /\ pc[c] = "answering"
  /\ fileTransferStatus' = [fileTransferStatus EXCEPT ![c] = hand[c].code]
  /\ GoesOn(c, "scanning", NoMessage)
  /\ UNCHANGED <<toServer, sendingQueue, fileTransferModeActive,
                 isFileTransferSender>>
  /\ NetworkIdle /\ ServerIdle /\ LoginIdle

\* Mutant of AllConfirmed: one answer is enough.
SomeConfirmed(c) ==
  \E p \in Peers(c) : fileTransferStatus[p] # "FileTransferCanceled"

AllConfirmed(c) ==
  \A p \in Peers(c) : fileTransferStatus[p] # "FileTransferCanceled"

CanStart(c) ==
  \E p \in Peers(c) : fileTransferStatus[p] = "AcceptFileTransfer"

Verdict(c) ==
  Status(IF CanStart(c) THEN "AcceptFileTransfer" ELSE "RejectFileTransfer")

Flagged(c) == {p \in Peers(c) : isFileTransferSender[p]}

\* The one the walk takes for the sender: the last it meets.
IsSender(c, p) ==
  p \in Flagged(c) /\ \A q \in Flagged(c) : Address[q] <= Address[p]

\* clientSentFileTransferResponse(): when everybody else has answered, the
\* sender is told whether to start.
ScanAnswers(c) ==
  /\ Running
  /\ pc[c] = "scanning"
  /\ IF ~Alone(c) /\ AllConfirmed(c) /\ Flagged(c) # {}
     THEN \E p \in Clients : IsSender(c, p) /\ sendingQueue' = Reply(p, Verdict(c))
     ELSE UNCHANGED sendingQueue
  /\ Finishes(c)
  /\ UNCHANGED toServer
  /\ NetworkIdle /\ ServerIdle /\ LoginIdle /\ TransferIdle

\* FILE_REQUEST: denied at once while a transfer is active.
ReceiveFileRequest(c) ==
  /\ Reads(c, "FILE_REQUEST")
  /\ IF fileTransferModeActive
     THEN /\ sendingQueue' = Reply(c, Status("FileTransferCanceled"))
          /\ UNCHANGED <<pc, hand>>
     ELSE /\ GoesOn(c, "requesting", Incoming(c))
          /\ UNCHANGED sendingQueue
  /\ NetworkIdle /\ ServerIdle /\ LoginIdle /\ TransferIdle

\* clientSentFileTransferRequest() up to the end of the walk.
AnnounceTransfer(c) ==
  /\ Running
  /\ pc[c] = "requesting"
  /\ IF Alone(c)
     THEN /\ sendingQueue' = Reply(c, Status("ChattingAlone"))
          /\ Finishes(c)
          /\ UNCHANGED fileTransferModeActive
     ELSE /\ fileTransferModeActive' = TRUE
          /\ sendingQueue' = Sent(Peers(c), FileRequest(nickName[c], hand[c].file))
          /\ GoesOn(c, "flagging", NoMessage)
  /\ UNCHANGED <<toServer, isFileTransferSender, fileTransferStatus>>
  /\ NetworkIdle /\ ServerIdle /\ LoginIdle

\* Its last assignment ...
FlagSender(c) ==
  /\ Running
  /\ pc[c] = "flagging"
  /\ isFileTransferSender' = [isFileTransferSender EXCEPT ![c] = TRUE]
  /\ GoesOn(c, "accepting", NoMessage)
  /\ UNCHANGED <<toServer, sendingQueue, fileTransferModeActive,
                 fileTransferStatus>>
  /\ NetworkIdle /\ ServerIdle /\ LoginIdle

\* ... and its caller's.
AcceptOwnTransfer(c) ==
  /\ Running
  /\ pc[c] = "accepting"
  /\ fileTransferStatus' = [fileTransferStatus EXCEPT ![c] = "AcceptFileTransfer"]
  /\ Finishes(c)
  /\ UNCHANGED <<toServer, sendingQueue, fileTransferModeActive,
                 isFileTransferSender>>
  /\ NetworkIdle /\ ServerIdle /\ LoginIdle

\* Mutant of Accepting: who has answered is sent the data, whatever the answer.
Answering == {p \in Clients : fileTransferStatus[p] # "FileTransferCanceled"}

Accepting == {p \in Clients : fileTransferStatus[p] = "AcceptFileTransfer"}

\* FILE_DATA: the block goes to the peers that have accepted, and the last one
\* ends the transfer, unless its sender is alone: the mode and the sender's mark
\* are cleared in one step.
ReceiveFileData(c) ==
  LET block == Incoming(c)
  IN  /\ Reads(c, "FILE_DATA")
      /\ sendingQueue' = Sent(Peers(c) \cap Accepting, block)
      /\ IF block.last /\ ~Alone(c)
         THEN /\ isFileTransferSender' = [isFileTransferSender EXCEPT ![c] = FALSE]
              /\ fileTransferModeActive' = FALSE
         ELSE UNCHANGED <<isFileTransferSender, fileTransferModeActive>>
      /\ IF block.last
         THEN GoesOn(c, "resetting", NoMessage)
         ELSE UNCHANGED <<pc, hand>>
      /\ UNCHANGED fileTransferStatus
      /\ NetworkIdle /\ ServerIdle /\ LoginIdle

\* "Reset the file transfer status for the next file": the sender's own.
ResetStatus(c) ==
  /\ Running
  /\ pc[c] = "resetting"
  /\ fileTransferStatus' = [fileTransferStatus EXCEPT ![c] = "FileTransferCanceled"]
  /\ Finishes(c)
  /\ UNCHANGED <<toServer, sendingQueue, fileTransferModeActive,
                 isFileTransferSender>>
  /\ NetworkIdle /\ ServerIdle /\ LoginIdle

-----------------------------------------------------------------------------
(* A session's thread: writing, and its end.                               *)

\* writeData() while the client is connected.
Write(c) ==
  /\ Running
  /\ pc[c] = "poll"
  /\ clientEnd[c] = "open"
  /\ sendingQueue[c] # <<>>
  /\ HasSpace(toClient[c])
  /\ toClient' = [toClient EXCEPT ![c] = Append(@, Head(sendingQueue[c]))]
  /\ sendingQueue' = [sendingQueue EXCEPT ![c] = Tail(@)]
  /\ UNCHANGED <<toServer, clientEnd, serverEnd, pc, hand>>
  /\ ServerIdle /\ LoginIdle /\ TransferIdle

\* writeData() to a client that has closed: the message is lost, and the
\* client's kernel may answer with RST before the next one.
WriteInVain(c) ==
  /\ Running
  /\ pc[c] = "poll"
  /\ clientEnd[c] = "closed"
  /\ sendingQueue[c] # <<>>
  /\ sendingQueue' = [sendingQueue EXCEPT ![c] = Tail(@)]
  /\ \E end \in Gone : clientEnd' = [clientEnd EXCEPT ![c] = end]
  /\ UNCHANGED <<toServer, toClient, serverEnd, pc, hand>>
  /\ ServerIdle /\ LoginIdle /\ TransferIdle

\* writeData() after the RST: send() raises SIGPIPE, which nobody handles.
WriteAfterReset(c) ==
  /\ Running
  /\ pc[c] = "poll"
  /\ clientEnd[c] = "reset"
  /\ sendingQueue[c] # <<>>
  /\ Dies("sigpipe")
  /\ UNCHANGED <<toServer, toClient, clientEnd, connectionsCounter, listener, sessions,
                 fileTransferModeActive, sessionVars>>

\* Mutant of RemoveSession: the transfer of a leaving sender stays active.
RemoveSessionOnly(c) ==
  /\ sessions' = sessions \ {c}
  /\ serverEnd' = [serverEnd EXCEPT ![c] = AfterClose(toServer[c])]
  /\ pc' = [pc EXCEPT ![c] = "none"]
  /\ sendingQueue' = [sendingQueue EXCEPT ![c] = <<>>]
  /\ disconnectionFlag' = [disconnectionFlag EXCEPT ![c] = TRUE]
  /\ UNCHANGED <<serverStatus, fileTransferModeActive>>

\* Mutant of RemoveSession: whoever leaves takes the transfer along.
RemoveSessionAndTransfer(c) ==
  /\ c \in sessions
  /\ sessions' = sessions \ {c}
  /\ fileTransferModeActive' = FALSE
  /\ serverEnd' = [serverEnd EXCEPT ![c] = AfterClose(toServer[c])]
  /\ pc' = [pc EXCEPT ![c] = "none"]
  /\ sendingQueue' = [sendingQueue EXCEPT ![c] = <<>>]
  /\ disconnectionFlag' = [disconnectionFlag EXCEPT ![c] = TRUE]
  /\ UNCHANGED serverStatus

\* Mutant of RemoveSession: the thread does not return.
RemoveSessionAndGoOn(c) ==
  /\ IF c \notin sessions
     THEN Dies("fatal")
     ELSE /\ serverEnd' = [serverEnd EXCEPT ![c] = AfterClose(toServer[c])]
          /\ UNCHANGED serverStatus
  /\ sessions' = sessions \ {c}
  /\ UNCHANGED <<fileTransferModeActive, pc, sendingQueue, disconnectionFlag>>

\* Mutant of RemoveSession: the socket is not closed.
RemoveSessionLeakingSocket(c) ==
  /\ sessions' = sessions \ {c}
  /\ pc' = [pc EXCEPT ![c] = "none"]
  /\ UNCHANGED <<serverStatus, fileTransferModeActive, serverEnd, sendingQueue,
                 disconnectionFlag>>

\* removeSession(), from the destructor of a session pollForData() has left,
\* and close().  An unregistered session aborts the process; the search is made
\* under the mutex every change of sessions_ is made under, so it misses nobody.
\* The notices of a canceled transfer go to the leaver's own queue, which dies
\* with it.
RemoveSession(c) ==
  IF c \notin sessions
  THEN /\ Dies("fatal")
       /\ UNCHANGED <<sessions, fileTransferModeActive, pc, sendingQueue,
                      disconnectionFlag>>
  ELSE /\ sessions' = sessions \ {c}
       /\ fileTransferModeActive' =
            (fileTransferModeActive /\ ~isFileTransferSender[c])
       /\ serverEnd' = [serverEnd EXCEPT ![c] = AfterClose(toServer[c])]
       /\ pc' = [pc EXCEPT ![c] = "none"]
       /\ sendingQueue' = [sendingQueue EXCEPT ![c] = <<>>]
       /\ disconnectionFlag' = [disconnectionFlag EXCEPT ![c] = TRUE]
       /\ UNCHANGED serverStatus

\* The session was told to disconnect and has sent all it had.
Leave(c) ==
  /\ Running
  /\ pc[c] = "poll"
  /\ ~KeepsPolling(c)
  /\ RemoveSession(c)
  /\ UNCHANGED <<toServer, toClient, clientEnd, connectionsCounter, listener,
                 state, isFileTransferSender, nickName, fileTransferStatus, hand>>

\* recv() reports that the client has closed or vanished.  Whole messages may
\* still have been in the buffer (see ReceiveBuffer): they are lost.
Hangup(c) ==
  /\ Running
  /\ pc[c] = "poll"
  /\ KeepsPolling(c)
  /\ clientEnd[c] \in Gone
  /\ RemoveSession(c)
  /\ UNCHANGED <<toServer, toClient, clientEnd, connectionsCounter, listener,
                 state, isFileTransferSender, nickName, fileTransferStatus, hand>>

\* Everything the thread of session c does.
SessionStep(c) ==
  \/ ReceiveUnknown(c) \/ ReceiveHello(c) \/ ReceiveBye(c)
  \/ ReceiveNickname(c) \/ Rename(c) \/ ReceiveChat(c)
  \/ ReceiveStatus(c) \/ SaveAnswer(c) \/ ScanAnswers(c)
  \/ ReceiveFileRequest(c) \/ AnnounceTransfer(c) \/ FlagSender(c)
  \/ AcceptOwnTransfer(c) \/ ReceiveFileData(c) \/ ResetStatus(c)
  \/ Write(c) \/ WriteInVain(c) \/ WriteAfterReset(c)
  \/ Leave(c) \/ Hangup(c)

ServerStep == Register \/ \E c \in Clients : Accept(c) \/ SessionStep(c)

-----------------------------------------------------------------------------
(* The clients, as free as the protocol lets them be.                      *)

Connect(c) ==
  /\ Running
  /\ clientEnd[c] = "idle"
  /\ clientEnd' = [clientEnd EXCEPT ![c] = "open"]
  /\ UNCHANGED <<toServer, toClient, serverEnd, serverVars>>

ClientSends(c, m) ==
  /\ clientEnd[c] = "open"
  /\ serverEnd[c] \notin Gone
  /\ HasSpace(toServer[c])
  /\ toServer' = [toServer EXCEPT ![c] = Append(@, m)]
  /\ UNCHANGED <<toClient, clientEnd, serverEnd, serverVars>>

\* It writes to a session that has ended.
ClientSendsInVain(c) ==
  /\ clientEnd[c] = "open"
  /\ serverEnd[c] = "closed"
  /\ serverEnd' = [serverEnd EXCEPT ![c] = "reset"]
  /\ UNCHANGED <<toServer, toClient, clientEnd, serverVars>>

\* It reads a message, over which it may abort.
ClientReceives(c) ==
  /\ clientEnd[c] = "open"
  /\ toClient[c] # <<>>
  /\ toClient' = [toClient EXCEPT ![c] = Tail(@)]
  /\ \E end \in {"open", AfterClose(Tail(toClient[c]))} :
        clientEnd' = [clientEnd EXCEPT ![c] = end]
  /\ UNCHANGED <<toServer, serverEnd, serverVars>>

\* The client closes, or dies.
ClientCloses(c) ==
  /\ clientEnd[c] = "open"
  /\ clientEnd' = [clientEnd EXCEPT ![c] = AfterClose(toClient[c])]
  /\ UNCHANGED <<toServer, toClient, serverEnd, serverVars>>

ClientStep(c) ==
  \/ Connect(c)
  \/ \E m \in Messages : ClientSends(c, m)
  \/ ClientSendsInVain(c)
  \/ ClientReceives(c)
  \/ ClientCloses(c)

Init == NetworkInit /\ ServerInit

Next == ServerStep \/ \E c \in Clients : ClientStep(c)

Spec == Init /\ [][Next]_vars

-----------------------------------------------------------------------------
(* Properties.                                                             *)

\* An active file transfer always has a session to end it: one that is marked
\* as its sender, or is about to be.  Were it not so, removeSession() and the
\* last block would never clear the flag again, and every later request would
\* be denied.
ActiveTransferHasSender ==
  fileTransferModeActive =>
    \E c \in sessions : isFileTransferSender[c] \/ pc[c] = "flagging"

\* The server gives up over an unknown session only while sessions_ is, or is
\* about to be, changed: addSession() has started a thread it has not yet
\* registered, or a registered session is on its way out.  With nobody coming
\* and nobody leaving, every search finds its session.
UnknownOnlyInChanges ==
  serverStatus = "fatal" => listener # NoClient \/ \E c \in sessions : Leaving(c)

\* Every session the server holds has a thread, every thread a session the
\* server holds or is about to register; nothing else keeps a socket open.
SessionsHaveThreads ==
  /\ \A c \in Clients : (pc[c] # "none") <=> (c \in sessions \/ c = listener)
  /\ Running => \A c \in Clients : (serverEnd[c] = "open") <=> (pc[c] # "none")

\* "Assign a default unique name", "Check if the new name is unique": two
\* sessions that have identified themselves never go by the same name.
UniqueNickNames ==
  \A c, d \in sessions :
      (c # d /\ state[c] = "ready" /\ state[d] = "ready")
         => nickName[c] # nickName[d]
=============================================================================
