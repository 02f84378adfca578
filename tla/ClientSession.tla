--------------------------- MODULE ClientSession ---------------------------
(***************************************************************************)
(* The client program: the SessionServer a network thread runs, with the   *)
(* callbacks into Client that change its state, and the keys of            *)
(* Client::run() that start something.  Both threads use the sending queue *)
(* and the transfer fields.  gotFileTransferRequest() stops the network    *)
(* thread, and run() at its next key, until the user has answered.         *)
(***************************************************************************)
EXTENDS Network, FiniteSets

CONSTANTS NoFile,       \* the empty fileName_
          NoRequest,    \* no request to answer
          Absent,       \* a file the disk does not have
          Blocks,       \* Blocks[f]: blocks cycle() sends of file f
          Owned,        \* Owned[c]: files on c's disk at the start
          MaxOffset     \* blocks sent of one transfer (a bound)

ASSUME FilesAssumption ==
  /\ NoFile \notin Files
  /\ Blocks \in [Files -> Nat \ {0}]
  /\ Owned \in [Clients -> SUBSET Files]
  /\ MaxOffset \in Nat

VARIABLES
  clientStatus,  \* "idle", "running", "ended", "fatal" or "sigpipe"
  task,          \* where the network thread is in pollForData()
  request,       \* the file request the user is asked about
  dialog,        \* run() asks for the name of a file to send
  clientQueue,   \* sendingQueue_
  clientFlag,    \* disconnectionFlag_
  clientName,    \* nickName_
  transfer,      \* the file transfer fields, see NoTransfer
  disk,          \* the files of the client's machine
  chatHistory,   \* chatHistory_: incoming texts and received files
  typed          \* how many texts the user has typed

clientVars == <<clientStatus, task, request, dialog, clientQueue, clientFlag,
                clientName, transfer, disk, chatHistory, typed>>

NoHandle == [mode |-> "closed", file |-> NoFile, pos |-> 0]

\* disableFileTransferMode(), and the constructor.
NoTransfer ==
  [isSendingFile |-> FALSE, isReceivingFile |-> FALSE,
   hasFileTransferStarted |-> FALSE, fileName |-> NoFile,
   handle |-> NoHandle, offset |-> 0]

Handles == [mode : {"closed", "r", "w"}, file : Files \cup {NoFile}, pos : Nat]

Transfers ==
  [isSendingFile : BOOLEAN, isReceivingFile : BOOLEAN,
   hasFileTransferStarted : BOOLEAN, fileName : Files \cup {NoFile},
   handle : Handles, offset : Nat]

\* A file is the set of its <<position, content>>.
FileContents == SUBSET (Nat \X Contents)
Whole(f) == {<<k, <<f, k>>>> : k \in 0..(Blocks[f] - 1)}

Rows ==
  [kind : {"chat"}, sender : Names, text : Texts]
    \cup [kind : {"received"}, file : Files \cup {NoFile},
          content : FileContents \cup {Absent}]

ClientTypeOK ==
  /\ NetworkTypeOK
  /\ clientStatus \in [Clients -> {"idle", "running", "ended", "fatal", "sigpipe"}]
  /\ task \in [Clients -> {"poll", "asking", "read", "wrote"}]
  /\ request \in [Clients -> Messages \cup {NoRequest}]
  /\ dialog \in [Clients -> BOOLEAN]
  /\ clientQueue \in [Clients -> Seq(Messages)]
  /\ clientFlag \in [Clients -> BOOLEAN]
  /\ clientName \in [Clients -> Names]
  /\ transfer \in [Clients -> Transfers]
  /\ disk \in [Clients -> [Files -> FileContents \cup {Absent}]]
  /\ chatHistory \in [Clients -> Seq(Rows)]
  /\ typed \in [Clients -> 0..MaxTexts]

ClientInit ==
  /\ clientStatus = [c \in Clients |-> "idle"]
  /\ task = [c \in Clients |-> "poll"]
  /\ request = [c \in Clients |-> NoRequest]
  /\ dialog = [c \in Clients |-> FALSE]
  /\ clientQueue = [c \in Clients |-> <<>>]
  /\ clientFlag = [c \in Clients |-> FALSE]
  /\ clientName = [c \in Clients |-> Anyone]
  /\ transfer = [c \in Clients |-> NoTransfer]
  /\ disk = [c \in Clients |->
               [f \in Files |-> IF f \in Owned[c] THEN Whole(f) ELSE Absent]]
  /\ chatHistory = [c \in Clients |-> <<>>]
  /\ typed = [c \in Clients |-> 0]

ClientRuns(c) == clientStatus[c] = "running"

\* SessionServer's sendMessage( m ), from whichever thread.
Queues(c, m) == clientQueue' = [clientQueue EXCEPT ![c] = Push(@, m)]

SetTransfer(c, t) == transfer' = [transfer EXCEPT ![c] = t]

NewRow(c, row) == chatHistory' = [chatHistory EXCEPT ![c] = Append(@, row)]

-----------------------------------------------------------------------------
(* The network thread: connecting, and the messages it receives.           *)

\* Client::initialize(): connect() and a session that says HELLO first.
ClientConnects(c) ==
  /\ clientStatus[c] = "idle"
  /\ clientStatus' = [clientStatus EXCEPT ![c] = "running"]
  /\ clientEnd' = [clientEnd EXCEPT ![c] = "open"]
  /\ Queues(c, Hello)
  /\ UNCHANGED <<toServer, toClient, serverEnd, task, request, dialog,
                 clientFlag, clientName, transfer, disk, chatHistory, typed>>

\* Mutant of ClientKeepsPolling: the loop ignores disconnectionFlag_.
PollsForEver(c) == TRUE

\* The condition of pollForData()'s loop.
ClientKeepsPolling(c) == ~clientFlag[c] \/ clientQueue[c] # <<>>

Received(c) == Head(toClient[c])

\* readData() may hand over a message of that type.  When it must is for module
\* Reception to say.
Takes(c, type) ==
  /\ ClientRuns(c)
  /\ task[c] = "poll"
  /\ ClientKeepsPolling(c)
  /\ toClient[c] # <<>>
  /\ Received(c).type = type
  /\ toClient' = [toClient EXCEPT ![c] = Tail(@)]
  /\ UNCHANGED <<toServer, serverEnd>>

\* An iteration of the loop ends with cycle(), which matters to a transfer
\* under way and does nothing otherwise.
IsTransmitting(t) == t.isSendingFile /\ t.hasFileTransferStarted

\* Mutant of GoesTo: an iteration that only writes does not reach cycle().
GoesToAfterRead(c, where) ==
  task' = [task EXCEPT ![c] =
             IF IsTransmitting(transfer'[c]) /\ where = "read" THEN where ELSE "poll"]

GoesTo(c, where) ==
  task' = [task EXCEPT ![c] = IF IsTransmitting(transfer'[c]) THEN where ELSE "poll"]

\* Common::fatal() aborts the client and its kernel closes the connection.
Aborts(c) ==
  /\ clientStatus' = [clientStatus EXCEPT ![c] = "fatal"]
  /\ clientEnd' = [clientEnd EXCEPT ![c] = AfterClose(toClient'[c])]
  /\ UNCHANGED <<task, transfer>>

TakesStatus(c) ==
  LET t == transfer[c]
      code == Received(c).code
      named == t.isSendingFile /\ t.fileName # NoFile
  IN  /\ Takes(c, "STATUS")
      /\ IF \/ code \in {"AcceptFileTransfer", "RejectFileTransfer"} /\ ~named
            \/ code = "FileTransferCanceled" /\ ~t.isSendingFile
         THEN Aborts(c)
         ELSE /\ SetTransfer(c,
                   CASE code = "AcceptFileTransfer" ->
                          [t EXCEPT !.hasFileTransferStarted = TRUE]
                     [] code \in {"RejectFileTransfer", "FileTransferCanceled"} ->
                          NoTransfer
                     [] OTHER -> t)
              /\ GoesTo(c, "read")
              /\ UNCHANGED <<clientStatus, clientEnd>>
      /\ UNCHANGED <<request, dialog, clientQueue, clientFlag, clientName, disk,
                     chatHistory, typed>>

TakesNickname(c) ==
  /\ Takes(c, "NICKNAME")
  /\ clientName' = [clientName EXCEPT ![c] = Received(c).name]
  /\ UNCHANGED transfer
  /\ GoesTo(c, "read")
  /\ UNCHANGED <<clientEnd, clientStatus, request, dialog, clientQueue,
                 clientFlag, disk, chatHistory, typed>>

TakesChat(c) ==
  /\ Takes(c, "CHAT")
  /\ NewRow(c, [kind |-> "chat", sender |-> Received(c).sender,
                text |-> Received(c).text])
  /\ UNCHANGED transfer
  /\ GoesTo(c, "read")
  /\ UNCHANGED <<clientEnd, clientStatus, request, dialog, clientQueue,
                 clientFlag, clientName, disk, typed>>

\* BYE is among the messages availableMessages() ignores.
TakesBye(c) ==
  /\ Takes(c, "BYE")
  /\ UNCHANGED transfer
  /\ GoesTo(c, "read")
  /\ UNCHANGED <<clientEnd, clientStatus, request, dialog, clientQueue,
                 clientFlag, clientName, disk, chatHistory, typed>>

\* FILE_REQUEST: the user is asked, and the thread waits.
TakesFileRequest(c) ==
  /\ Takes(c, "FILE_REQUEST")
  /\ task' = [task EXCEPT ![c] = "asking"]
  /\ request' = [request EXCEPT ![c] = Received(c)]
  /\ UNCHANGED <<clientEnd, clientStatus, dialog, clientQueue, clientFlag,
                 clientName, transfer, disk, chatHistory, typed>>

\* gotFileTransferRequest() returns: yes, under the name the sender gave; no;
\* or no at the second question, which has emptied fileName_ by then.
Answered(t, file, answer) ==
  [t EXCEPT !.isReceivingFile = (answer = "yes"),
            !.fileName = CASE answer = "yes" -> file
                           [] answer = "no" -> @
                           [] answer = "escape" -> NoFile]

UserAnswers(c) ==
  /\ ClientRuns(c)
  /\ task[c] = "asking"
  /\ \E answer \in {"yes", "no", "escape"} :
        /\ SetTransfer(c, Answered(transfer[c], request[c].file, answer))
        /\ Queues(c, Status(IF answer = "yes" THEN "AcceptFileTransfer"
                                              ELSE "RejectFileTransfer"))
  /\ request' = [request EXCEPT ![c] = NoRequest]
  /\ GoesTo(c, "read")
  /\ UNCHANGED <<networkVars, clientStatus, dialog, clientFlag, clientName, disk,
                 chatHistory, typed>>

-----------------------------------------------------------------------------
(* The network thread: file data.                                          *)

\* fopen( fileName_, "w" ) unless a file is open, whichever that is.
SaveHandle(t) ==
  IF t.handle.mode = "closed"
  THEN [mode |-> "w", file |-> t.fileName, pos |-> 0]
  ELSE t.handle

\* Mutant of OpenedForSaving: the file is opened with "w" for every block.
OpenedAgain(t, files) == {}

\* The file after its "w" handle was opened (which empties it) or used before.
OpenedForSaving(t, files) ==
  IF t.handle.mode = "closed" THEN {} ELSE files[t.handle.file]

\* fseek() and fwrite() of one block.
Overwritten(old, block) ==
  IF block.content = NoData THEN old
  ELSE {b \in old : b[1] # block.offset} \cup {<<block.offset, block.content>>}

\* saveData(): a handle that is open for reading refuses the block, but its
\* position has moved.
Saved(t, block, files) ==
  LET h == SaveHandle(t)
  IN  IF h.mode = "w"
      THEN [files EXCEPT ![h.file] = Overwritten(OpenedForSaving(t, files), block)]
      ELSE files

TakesFileData(c) ==
  LET t == transfer[c]
      block == Received(c)
      handle == [SaveHandle(t) EXCEPT !.pos = block.offset]
      files == Saved(t, block, disk[c])
  IN  /\ Takes(c, "FILE_DATA")
      /\ IF ~t.isReceivingFile
         THEN UNCHANGED <<transfer, disk, chatHistory>>
         ELSE /\ disk' = [disk EXCEPT ![c] = files]
              /\ IF block.last
                 THEN /\ SetTransfer(c, NoTransfer)
                      /\ NewRow(c, [kind |-> "received", file |-> t.fileName,
                                    content |-> files[t.fileName]])
                 ELSE /\ SetTransfer(c, [t EXCEPT !.handle = handle])
                      /\ UNCHANGED chatHistory
      /\ GoesTo(c, "read")
      /\ UNCHANGED <<clientEnd, clientStatus, request, dialog, clientQueue,
                     clientFlag, clientName, typed>>

\* Mutant of BlockAt: the end of the file is seen a block too early.
BlockAtTooShort(h, file) ==
  [content |-> CHOOSE x \in {b[2] : b \in {y \in file : y[1] = h.pos}} : TRUE,
   last |-> \A b \in file : b[1] <= h.pos + 1]

\* fread() of the block at a handle's position.  A handle open for writing
\* reads nothing and never meets the end of the file.  The last block of a file
\* whose length is a multiple of the others' is a block without data.
BlockAt(h, file) ==
  LET here == {b[2] : b \in {x \in file : x[1] = h.pos}}
      later == {b \in file : b[1] > h.pos}
  IN  CASE h.mode = "w" -> [content |-> Garbage, last |-> FALSE]
        [] h.mode # "w" /\ here # {} ->
             [content |-> CHOOSE x \in here : TRUE, last |-> later = {}]
        [] h.mode # "w" /\ here = {} /\ later # {} ->
             [content |-> Garbage, last |-> FALSE]
        [] OTHER -> [content |-> NoData, last |-> TRUE]

\* cycle(), at the end of an iteration that moved data.  Its test of the queue and
\* its sendMessage() are one step.
Cycle(c) ==
  LET t == transfer[c]
      h == IF t.handle.mode = "closed"
           THEN [mode |-> "r", file |-> t.fileName, pos |-> 0]
           ELSE t.handle
      file == IF h.file = NoFile THEN Absent ELSE disk[c][h.file]
      block == BlockAt(h, file)
  IN  /\ ClientRuns(c)
      /\ task[c] \in {"read", "wrote"}
      /\ t.offset < MaxOffset
      /\ task' = [task EXCEPT ![c] = "poll"]
      /\ IF clientFlag[c] \/ ~IsTransmitting(t)
         THEN UNCHANGED <<transfer, clientQueue>>
         ELSE IF file = Absent
         THEN SetTransfer(c, NoTransfer) /\ UNCHANGED clientQueue
         ELSE IF ~CanSend(clientQueue[c])
         THEN SetTransfer(c, [t EXCEPT !.handle = h]) /\ UNCHANGED clientQueue
         ELSE /\ Queues(c, FileData(t.offset, block.content, block.last))
              /\ SetTransfer(c, IF block.last THEN NoTransfer
                                ELSE [t EXCEPT !.handle = [h EXCEPT !.pos = @ + 1],
                                               !.offset = @ + 1])
      /\ UNCHANGED <<networkVars, clientStatus, request, dialog, clientFlag,
                     clientName, disk, chatHistory, typed>>

-----------------------------------------------------------------------------
(* The network thread: writing, and its end.                               *)

\* writeData(), in an iteration of its own or after a read.
ClientWrites(c) ==
  /\ ClientRuns(c)
  /\ task[c] \in {"poll", "read"}
  /\ clientQueue[c] # <<>>
  /\ serverEnd[c] \notin Gone
  /\ HasSpace(toServer[c])
  /\ toServer' = [toServer EXCEPT ![c] = Append(@, Head(clientQueue[c]))]
  /\ clientQueue' = [clientQueue EXCEPT ![c] = Tail(@)]
  /\ UNCHANGED transfer
  /\ GoesTo(c, "wrote")
  /\ UNCHANGED <<toClient, clientEnd, serverEnd, clientStatus, request, dialog,
                 clientFlag, clientName, disk, chatHistory, typed>>

\* writeData() to a session the server has ended.  The RST that answers it
\* makes the next one fatal: SIGPIPE, which the client does not handle either.
ClientWritesInVain(c) ==
  /\ ClientRuns(c)
  /\ task[c] \in {"poll", "read"}
  /\ clientQueue[c] # <<>>
  /\ serverEnd[c] \in Gone
  /\ clientQueue' = [clientQueue EXCEPT ![c] = Tail(@)]
  /\ IF serverEnd[c] = "reset"
     THEN /\ clientStatus' = [clientStatus EXCEPT ![c] = "sigpipe"]
          /\ clientEnd' = [clientEnd EXCEPT ![c] = AfterClose(toClient[c])]
          /\ UNCHANGED <<serverEnd, task>>
     ELSE /\ \E end \in Gone : serverEnd' = [serverEnd EXCEPT ![c] = end]
          /\ task' = [task EXCEPT ![c] = IF IsTransmitting(transfer[c]) THEN "wrote"
                                                                       ELSE "poll"]
          /\ UNCHANGED <<clientStatus, clientEnd>>
  /\ UNCHANGED <<toServer, toClient, request, dialog, clientFlag, clientName,
                 transfer, disk, chatHistory, typed>>

\* The loop ends because the user has quit and the queue is empty, or because
\* recv() reports the end of the connection; what else was to be read is lost.
\* The destructors tell Client and close the socket.
ClientEnds(c) ==
  /\ ClientRuns(c)
  /\ task[c] = "poll"
  /\ ~ClientKeepsPolling(c) \/ serverEnd[c] \in Gone
  /\ clientStatus' = [clientStatus EXCEPT ![c] = "ended"]
  /\ clientEnd' = [clientEnd EXCEPT ![c] = AfterClose(toClient[c])]
  /\ UNCHANGED <<toServer, toClient, serverEnd, task, request, dialog,
                 clientQueue, clientFlag, clientName, transfer, disk,
                 chatHistory, typed>>

-----------------------------------------------------------------------------
(* The user's keys, in Client::run().                                      *)

\* run() acts on a key: not while the network thread asks the user, nor in a
\* dialog of its own, nor after ESC.
AtPrompt(c) ==
  ClientRuns(c) /\ task[c] # "asking" /\ ~dialog[c] /\ ~clientFlag[c]

\* ENTER: sendChatMessage().
TypesText(c) ==
  /\ AtPrompt(c)
  /\ typed[c] < MaxTexts
  /\ typed' = [typed EXCEPT ![c] = @ + 1]
  /\ Queues(c, Chat(Anyone, <<c, typed[c] + 1>>))
  /\ UNCHANGED <<networkVars, clientStatus, task, request, dialog, clientFlag,
                 clientName, transfer, disk, chatHistory>>

\* F2.
TypesNickname(c, name) ==
  /\ AtPrompt(c)
  /\ Queues(c, Nickname(name))
  /\ UNCHANGED <<networkVars, clientStatus, task, request, dialog, clientFlag,
                 clientName, transfer, disk, chatHistory, typed>>

\* F4, refused while a transfer is in progress ...
OpensDialog(c) ==
  /\ AtPrompt(c)
  /\ ~transfer[c].isReceivingFile /\ ~transfer[c].isSendingFile
  /\ dialog' = [dialog EXCEPT ![c] = TRUE]
  /\ UNCHANGED <<networkVars, clientStatus, task, request, clientQueue,
                 clientFlag, clientName, transfer, disk, chatHistory, typed>>

\* ... and the name is typed: sendFile(), whatever has happened meanwhile.
SendsFile(c, file) ==
  /\ ClientRuns(c)
  /\ dialog[c]
  /\ dialog' = [dialog EXCEPT ![c] = FALSE]
  /\ SetTransfer(c, [transfer[c] EXCEPT !.isSendingFile = TRUE, !.fileName = file])
  /\ Queues(c, FileRequest(Anyone, file))
  /\ UNCHANGED <<networkVars, clientStatus, task, request, clientFlag,
                 clientName, disk, chatHistory, typed>>

\* ... or none is, or the user escapes.
ClosesDialog(c) ==
  /\ ClientRuns(c)
  /\ dialog[c]
  /\ dialog' = [dialog EXCEPT ![c] = FALSE]
  /\ UNCHANGED <<networkVars, clientStatus, task, request, clientQueue,
                 clientFlag, clientName, transfer, disk, chatHistory, typed>>

\* Mutant of Quits: the socket is closed before the queue has been sent.
QuitsAtOnce(c) ==
  /\ AtPrompt(c)
  /\ Queues(c, Bye)
  /\ clientFlag' = [clientFlag EXCEPT ![c] = TRUE]
  /\ clientEnd' = [clientEnd EXCEPT ![c] = AfterClose(toClient[c])]
  /\ UNCHANGED <<toServer, toClient, serverEnd, clientStatus, task, request, dialog,
                 clientName, transfer, disk, chatHistory, typed>>

\* ESC: SessionServer::disconnect().
Quits(c) ==
  /\ AtPrompt(c)
  /\ Queues(c, Bye)
  /\ clientFlag' = [clientFlag EXCEPT ![c] = TRUE]
  /\ UNCHANGED <<networkVars, clientStatus, task, request, dialog, clientName,
                 transfer, disk, chatHistory, typed>>

\* Everything the network thread does by itself.
NetworkThread(c) ==
  \/ TakesStatus(c) \/ TakesNickname(c) \/ TakesChat(c) \/ TakesBye(c)
  \/ TakesFileRequest(c) \/ TakesFileData(c) \/ Cycle(c)
  \/ ClientWrites(c) \/ ClientWritesInVain(c) \/ ClientEnds(c)

=============================================================================
