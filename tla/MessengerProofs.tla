-------------------------- MODULE MessengerProofs --------------------------
(***************************************************************************)
(* The whole system, for any number of clients, texts, files, requests and *)
(* users: every field keeps its type, and the client program does to the   *)
(* server only what module Server has it expect.  What ServerProofs shows  *)
(* of the server therefore holds with the real clients at its other side.  *)
(***************************************************************************)
EXTENDS Reception, ServerProofs

\* The transfer fields t of a client whose files are files: what it receives has
\* a name, and a file it has opened for writing is there.
Fits(t, files) ==
  /\ t.isReceivingFile => t.fileName # NoFile
  /\ t.handle.mode # "closed" => t.handle.file # NoFile
  /\ t.handle.mode = "w" => files[t.handle.file] \in FileContents

TransfersFit == \A c \in Clients : Fits(transfer[c], disk[c])

\* The user is asked about a file request.
RequestsFit ==
  \A c \in Clients :
      task[c] = "asking" => request[c] \in Messages /\ request[c].type = "FILE_REQUEST"

\* A client has one socket, from connecting to its end.
EndsFit ==
  \A c \in Clients :
      /\ ClientRuns(c) => clientEnd[c] = "open"
      /\ clientStatus[c] = "idle" => clientEnd[c] = "idle"

MessengerInv == TypeInv /\ ClientTypeOK /\ TransfersFit /\ RequestsFit /\ EndsFit

-----------------------------------------------------------------------------
(* The parts of a transfer.                                                *)

LEMMA HandleType ==
  \A mode \in {"closed", "r", "w"}, file \in Files \cup {NoFile}, pos \in Nat :
     [mode |-> mode, file |-> file, pos |-> pos] \in Handles
BY DEF Handles

\* disableFileTransferMode() and the constructor leave legal fields.
LEMMA NoTransferFits ==
  /\ NoTransfer \in Transfers
  /\ \A files : Fits(NoTransfer, files)
<1>1. NoHandle \in Handles
  BY DEF NoHandle, Handles
<1>2. NoTransfer \in Transfers
  BY <1>1 DEF NoTransfer, Transfers
<1>3. \A files : Fits(NoTransfer, files)
  BY DEF NoTransfer, NoHandle, Fits
<1> QED BY <1>2, <1>3

\* The start of a transfer, in the sender ...
LEMMA StartedFits ==
  ASSUME NEW t \in Transfers, NEW files, Fits(t, files)
  PROVE  /\ [t EXCEPT !.hasFileTransferStarted = TRUE] \in Transfers
         /\ Fits([t EXCEPT !.hasFileTransferStarted = TRUE], files)
<1>1. [t EXCEPT !.hasFileTransferStarted = TRUE] \in Transfers
  BY DEF Transfers
<1>2. Fits([t EXCEPT !.hasFileTransferStarted = TRUE], files)
  BY DEF Transfers, Fits
<1> QED BY <1>1, <1>2

\* ... and in the receiver, and its refusals.
LEMMA AnsweredFits ==
  ASSUME NEW t \in Transfers, NEW files, Fits(t, files), NEW file \in Files,
         NEW answer \in {"yes", "no", "escape"}
  PROVE  /\ Answered(t, file, answer) \in Transfers
         /\ Fits(Answered(t, file, answer), files)
<1>1. CASE answer = "yes"
  BY <1>1, FilesAssumption DEF Answered, Transfers, Fits
<1>2. CASE answer = "no"
  BY <1>2 DEF Answered, Transfers, Fits
<1>3. CASE answer = "escape"
  BY <1>3 DEF Answered, Transfers, Fits
<1> QED BY <1>1, <1>2, <1>3

\* sendFile() takes any file of a name.
LEMMA SendingFits ==
  ASSUME NEW t \in Transfers, NEW files, Fits(t, files), NEW file \in Files
  PROVE  /\ [t EXCEPT !.isSendingFile = TRUE, !.fileName = file] \in Transfers
         /\ Fits([t EXCEPT !.isSendingFile = TRUE, !.fileName = file], files)
BY FilesAssumption DEF Transfers, Fits

\* A handle that has moved.
LEMMA MovedFits ==
  ASSUME NEW t \in Transfers, NEW files, Fits(t, files), NEW h \in Handles,
         h.mode # "closed" => h.file # NoFile,
         h.mode = "w" => files[h.file] \in FileContents
  PROVE  /\ [t EXCEPT !.handle = h] \in Transfers
         /\ Fits([t EXCEPT !.handle = h], files)
BY DEF Transfers, Fits

\* So has the offset.
LEMMA AdvancedFits ==
  ASSUME NEW t \in Transfers, NEW files, Fits(t, files), NEW h \in Handles,
         h.mode # "closed" => h.file # NoFile,
         h.mode = "w" => files[h.file] \in FileContents
  PROVE  /\ [t EXCEPT !.handle = h, !.offset = @ + 1] \in Transfers
         /\ Fits([t EXCEPT !.handle = h, !.offset = @ + 1], files)
<1>1. t.offset + 1 \in Nat
  BY DEF Transfers
<1>2. [t EXCEPT !.handle = h, !.offset = t.offset + 1] \in Transfers
  BY <1>1 DEF Transfers
<1>3. Fits([t EXCEPT !.handle = h, !.offset = t.offset + 1], files)
  BY DEF Transfers, Fits
<1> QED BY <1>2, <1>3

\* fread() gives a block a message can carry.
LEMMA BlockType ==
  ASSUME NEW h \in Handles, NEW file \in FileContents
  PROVE  BlockAt(h, file).content \in Contents /\ BlockAt(h, file).last \in BOOLEAN
<1> DEFINE here == {b[2] : b \in {x \in file : x[1] = h.pos}}
           later == {b \in file : b[1] > h.pos}
<1>1. here \subseteq Contents
  BY DEF FileContents
<1>2. Garbage \in Contents /\ NoData \in Contents
  BY DEF Contents
<1>3. here # {} => (CHOOSE x \in here : TRUE) \in Contents
  BY <1>1
<1>4. CASE h.mode = "w"
  BY <1>4, <1>2 DEF BlockAt
<1>5. CASE h.mode # "w" /\ here # {}
  BY <1>5, <1>3 DEF BlockAt
<1>6. CASE h.mode # "w" /\ here = {} /\ later # {}
  BY <1>6, <1>2 DEF BlockAt
<1>7. CASE h.mode # "w" /\ here = {} /\ later = {}
  BY <1>7, <1>2 DEF BlockAt
<1> QED BY <1>4, <1>5, <1>6, <1>7

\* saveData() writes to a file of the disk what the message carries.
LEMMA SavedFits ==
  ASSUME NEW t \in Transfers, NEW files \in [Files -> FileContents \cup {Absent}],
         Fits(t, files), t.isReceivingFile,
         NEW block, block.offset \in Nat, block.content \in Contents
  PROVE  /\ SaveHandle(t) \in Handles
         /\ SaveHandle(t).file \in Files
         /\ Saved(t, block, files) \in [Files -> FileContents \cup {Absent}]
         /\ SaveHandle(t).mode = "w" =>
              Saved(t, block, files)[SaveHandle(t).file] \in FileContents
<1>1. /\ SaveHandle(t) \in Handles
      /\ SaveHandle(t).file \in Files
  BY DEF SaveHandle, Handles, Transfers, Fits
<1>2. ASSUME SaveHandle(t).mode = "w"
      PROVE  OpenedForSaving(t, files) \in FileContents
  BY <1>2 DEF OpenedForSaving, SaveHandle, Fits, FileContents
<1>3. ASSUME SaveHandle(t).mode = "w"
      PROVE  Overwritten(OpenedForSaving(t, files), block) \in FileContents
  BY <1>2, <1>3 DEF Overwritten, FileContents
<1>4. CASE SaveHandle(t).mode = "w"
  BY <1>1, <1>3, <1>4 DEF Saved
<1>5. CASE SaveHandle(t).mode # "w"
  BY <1>1, <1>5 DEF Saved
<1> QED BY <1>1, <1>4, <1>5

-----------------------------------------------------------------------------
(* What a client does to the connections.                                  *)

\* sendMessage() of the client keeps its queue a queue.
LEMMA QueuesType ==
  ASSUME ClientTypeOK, NEW c \in Clients, NEW m \in Messages, Queues(c, m)
  PROVE  clientQueue' \in [Clients -> Seq(Messages)]
<1>1. Push(clientQueue[c], m) \in Seq(Messages)
  BY PushType DEF ClientTypeOK
<1> QED BY <1>1 DEF ClientTypeOK, Queues

\* A message is read whole, by a client that is connected.
LEMMA TakesType ==
  ASSUME ClientTypeOK, EndsFit, NEW c \in Clients, NEW type, Takes(c, type)
  PROVE  /\ Received(c) \in Messages /\ Received(c).type = type
         /\ ClientRuns(c) /\ clientEnd[c] = "open" /\ task[c] = "poll"
<1>1. toClient[c] \in Seq(Messages) /\ toClient[c] # <<>>
  BY DEF ClientTypeOK, NetworkTypeOK, Takes
<1>2. Head(toClient[c]) \in Messages
  BY <1>1
<1> QED BY <1>2 DEF Takes, Received, EndsFit

\* Reading one is a step of the clients of module Server, whether the client aborts
\* over it or not.
LEMMA TakesActs ==
  ASSUME ClientTypeOK, EndsFit, NEW c \in Clients, NEW type, Takes(c, type),
         \/ UNCHANGED clientEnd
         \/ clientEnd' = [clientEnd EXCEPT ![c] = AfterClose(toClient'[c])],
         UNCHANGED serverVars
  PROVE  ClientReceives(c)
<1>1. clientEnd[c] = "open" /\ toClient[c] # <<>>
  BY DEF Takes, EndsFit
<1>2. toClient' = [toClient EXCEPT ![c] = Tail(@)] /\ UNCHANGED <<toServer, serverEnd>>
  BY DEF Takes
<1>3. toClient'[c] = Tail(toClient[c])
  BY <1>2 DEF ClientTypeOK, NetworkTypeOK
<1>4. CASE UNCHANGED clientEnd
  <2>1. clientEnd' = [clientEnd EXCEPT ![c] = "open"]
    BY <1>1, <1>4 DEF ClientTypeOK, NetworkTypeOK
  <2> QED BY <1>1, <1>2, <2>1 DEF ClientReceives
<1>5. CASE clientEnd' = [clientEnd EXCEPT ![c] = AfterClose(toClient'[c])]
  BY <1>1, <1>2, <1>3, <1>5 DEF ClientReceives
<1> QED BY <1>4, <1>5

\* So is writing one.
LEMMA WritesActs ==
  ASSUME ClientTypeOK, EndsFit, NEW c \in Clients, ClientWrites(c), UNCHANGED serverVars
  PROVE  ClientActs(c)
<1> DEFINE m == Head(clientQueue[c])
<1>1. clientQueue[c] \in Seq(Messages) /\ clientQueue[c] # <<>>
  BY DEF ClientTypeOK, ClientWrites
<1>2. m \in Messages
  BY <1>1
<1>3. ClientSends(c, m)
  BY DEF ClientWrites, ClientSends, EndsFit
<1>4. toServer[c] \in Seq(Messages) /\ toServer'[c] = Append(toServer[c], m)
  BY <1>3 DEF ClientSends, ClientTypeOK, NetworkTypeOK
<1>5. toServer'[c] # <<>> /\ toServer'[c][Len(toServer'[c])] = m
  BY <1>2, <1>4
<1> HIDE DEF m
<1> QED BY <1>2, <1>3, <1>5 DEF ClientActs

\* And writing to a server that has gone, which may end the client.
LEMMA VainActs ==
  ASSUME ClientTypeOK, EndsFit, NEW c \in Clients, ClientWritesInVain(c), UNCHANGED serverVars
  PROVE  ClientActs(c) \/ UNCHANGED vars
<1>1. clientEnd[c] = "open" /\ serverEnd[c] \in Gone /\ UNCHANGED <<toServer, toClient>>
  BY DEF ClientWritesInVain, EndsFit
<1>2. CASE serverEnd[c] = "reset"
  BY <1>1, <1>2 DEF ClientWritesInVain, ClientCloses, ClientActs
<1>3. CASE serverEnd[c] # "reset"
  <2>1. serverEnd[c] = "closed"
    BY <1>1, <1>3 DEF Gone
  <2>2. UNCHANGED clientEnd /\ \E end \in Gone : serverEnd' = [serverEnd EXCEPT ![c] = end]
    BY <1>3 DEF ClientWritesInVain
  <2>3. CASE serverEnd' = [serverEnd EXCEPT ![c] = "reset"]
    BY <1>1, <2>1, <2>2, <2>3 DEF ClientSendsInVain, ClientActs
  <2>4. CASE serverEnd' = [serverEnd EXCEPT ![c] = "closed"]
    BY <1>1, <2>1, <2>2, <2>4 DEF ClientTypeOK, NetworkTypeOK, vars, networkVars
  <2> QED BY <2>2, <2>3, <2>4 DEF Gone
<1> QED BY <1>2, <1>3

\* Every step of the client program is one of those clients', or none the
\* server can see.
LEMMA ProgramActs ==
  ASSUME MessengerInv, NEW c \in Clients, ClientProgram(c), UNCHANGED serverVars
  PROVE  ClientActs(c) \/ UNCHANGED vars
<1>0. ClientTypeOK /\ EndsFit
  BY DEF MessengerInv
<1>1. CASE Running /\ ClientConnects(c)
  BY <1>0, <1>1 DEF ClientConnects, Connect, ClientActs, EndsFit
<1>2. CASE TakesStatus(c)
  <2>1. Takes(c, "STATUS")
    BY <1>2 DEF TakesStatus
  <2>2. \/ UNCHANGED clientEnd
        \/ clientEnd' = [clientEnd EXCEPT ![c] = AfterClose(toClient'[c])]
    BY <1>2 DEF TakesStatus, Aborts
  <2> QED BY <1>0, <2>1, <2>2, TakesActs DEF ClientActs
<1>3. CASE \/ TakesNickname(c) \/ TakesChat(c) \/ TakesBye(c)
           \/ TakesFileRequest(c) \/ TakesFileData(c)
  <2>1. CASE TakesNickname(c)
    BY <1>0, <2>1, TakesActs DEF TakesNickname, ClientActs
  <2>2. CASE TakesChat(c)
    BY <1>0, <2>2, TakesActs DEF TakesChat, ClientActs
  <2>3. CASE TakesBye(c)
    BY <1>0, <2>3, TakesActs DEF TakesBye, ClientActs
  <2>4. CASE TakesFileRequest(c)
    BY <1>0, <2>4, TakesActs DEF TakesFileRequest, ClientActs
  <2>5. CASE TakesFileData(c)
    BY <1>0, <2>5, TakesActs DEF TakesFileData, ClientActs
  <2> QED BY <1>3, <2>1, <2>2, <2>3, <2>4, <2>5
<1>4. CASE ClientWrites(c)
  BY <1>0, <1>4, WritesActs
<1>5. CASE ClientWritesInVain(c)
  BY <1>0, <1>5, VainActs
<1>6. CASE ClientEnds(c)
  BY <1>0, <1>6 DEF ClientEnds, ClientCloses, ClientActs, EndsFit
<1>7. CASE \/ Cycle(c) \/ UserAnswers(c) \/ TypesText(c)
           \/ \E name \in TypedNames : TypesNickname(c, name)
           \/ OpensDialog(c) \/ \E file \in Files : SendsFile(c, file)
           \/ ClosesDialog(c) \/ Quits(c)
  BY <1>7 DEF Cycle, UserAnswers, TypesText, TypesNickname, OpensDialog, SendsFile,
              ClosesDialog, Quits, vars
<1> QED BY <1>1, <1>2, <1>3, <1>4, <1>5, <1>6, <1>7 DEF ClientProgram, NetworkThread

-----------------------------------------------------------------------------
(* What it does to itself.                                                 *)

\* The parts of the invariant that are the client's own.
ProgramInv == ClientTypeOK /\ TransfersFit /\ RequestsFit /\ EndsFit

\* Messages with a client's fields are in the protocol.
LEMMA ClientMessages ==
  /\ Hello \in Messages
  /\ Anyone \in Names
  /\ \A offset \in Nat, content \in Contents, last \in BOOLEAN :
        FileData(offset, content, last) \in Messages
<1>1. Hello \in Messages
  BY DEF Messages
<1>2. Anyone \in Names
  BY DefaultNames DEF Anyone
<1>3. \A offset \in Nat, content \in Contents, last \in BOOLEAN :
        FileData(offset, content, last) \in Messages
  BY DEF Messages, FileData
<1> QED BY <1>1, <1>2, <1>3

\* A message has the fields the client reads.
LEMMA ClientFields ==
  ASSUME NEW m \in Messages
  PROVE  /\ m.type = "CHAT" => m.sender \in Names /\ m.text \in Texts
         /\ m.type = "FILE_DATA" => /\ m.offset \in Nat
                                    /\ m.content \in Contents
                                    /\ m.last \in BOOLEAN
<1>1. m.type = "CHAT" => m.sender \in Names /\ m.text \in Texts
  BY DEF Messages, Hello, Bye
<1>2. m.type = "FILE_DATA" => m.offset \in Nat /\ m.content \in Contents /\ m.last \in BOOLEAN
  BY DEF Messages, Hello, Bye
<1> QED BY <1>1, <1>2

\* A row is added to chatHistory_.
LEMMA RowsType ==
  ASSUME ClientTypeOK, NEW c \in Clients, NEW row \in Rows, NewRow(c, row)
  PROVE  chatHistory' \in [Clients -> Seq(Rows)]
<1>1. Append(chatHistory[c], row) \in Seq(Rows)
  BY DEF ClientTypeOK
<1> QED BY <1>1 DEF ClientTypeOK, NewRow

\* The network thread goes on.
LEMMA GoesToType ==
  ASSUME ProgramInv, NEW c \in Clients, NEW where \in {"read", "wrote"}, GoesTo(c, where)
  PROVE  /\ task' \in [Clients -> {"poll", "asking", "read", "wrote"}]
         /\ \A d \in Clients : task'[d] = "asking" => task[d] = "asking" /\ d # c
BY DEF ProgramInv, ClientTypeOK, GoesTo

\* SetTransfer() with fields that fit.
LEMMA SetTransferFits ==
  ASSUME ProgramInv, NEW c \in Clients, NEW t \in Transfers, SetTransfer(c, t),
         Fits(t, disk[c]), UNCHANGED disk
  PROVE  transfer' \in [Clients -> Transfers] /\ TransfersFit'
<1>1. transfer' \in [Clients -> Transfers]
  BY DEF ProgramInv, ClientTypeOK, SetTransfer
<1>2. ASSUME NEW d \in Clients PROVE Fits(transfer'[d], disk'[d])
  BY DEF ProgramInv, ClientTypeOK, SetTransfer, TransfersFit
<1> QED BY <1>1, <1>2 DEF TransfersFit

\* Nothing happens to the transfer fields or the files.
LEMMA TransferKept ==
  ASSUME ProgramInv, UNCHANGED <<transfer, disk>>
  PROVE  transfer' \in [Clients -> Transfers] /\ TransfersFit'
         /\ disk' \in [Clients -> [Files -> FileContents \cup {Absent}]]
BY DEF ProgramInv, ClientTypeOK, TransfersFit

\* Nor to the program's run and the user's question.
LEMMA RunKept ==
  ASSUME ProgramInv, UNCHANGED <<clientStatus, clientEnd>>
  PROVE  EndsFit' /\ clientStatus' \in [Clients -> {"idle", "running", "ended", "fatal", "sigpipe"}]
BY DEF ProgramInv, ClientTypeOK, EndsFit, ClientRuns

LEMMA RequestKept ==
  ASSUME ProgramInv, UNCHANGED request,
         \A d \in Clients : task'[d] = "asking" => task[d] = "asking"
  PROVE  RequestsFit' /\ request' \in [Clients -> Messages \cup {NoRequest}]
BY DEF ProgramInv, ClientTypeOK, RequestsFit

\* The program stops, in one way or another, and its socket is closed.
LEMMA StopsFit ==
  ASSUME ProgramInv, NEW c \in Clients, NEW how \in {"ended", "fatal", "sigpipe"}, NEW end,
         clientStatus' = [clientStatus EXCEPT ![c] = how],
         clientEnd' = [clientEnd EXCEPT ![c] = end]
  PROVE  EndsFit' /\ clientStatus' \in [Clients -> {"idle", "running", "ended", "fatal", "sigpipe"}]
BY DEF ProgramInv, ClientTypeOK, NetworkTypeOK, EndsFit, ClientRuns

\* STATUS: the answer to the own request, or its end.
LEMMA StatusKeeps ==
  ASSUME ProgramInv, NetworkTypeOK', NEW c \in Clients, TakesStatus(c)
  PROVE  ProgramInv'
<1> DEFINE t == transfer[c]
           code == Received(c).code
<1>0. t \in Transfers /\ Fits(t, disk[c])
  BY DEF ProgramInv, ClientTypeOK, TransfersFit
<1>1. UNCHANGED <<request, dialog, clientQueue, clientFlag, clientName, disk, chatHistory, typed>>
  BY DEF TakesStatus
<1>2. CASE Aborts(c)
  <2>1. UNCHANGED <<task, transfer>>
    BY <1>2 DEF Aborts
  <2>2. EndsFit' /\ clientStatus' \in [Clients -> {"idle", "running", "ended", "fatal", "sigpipe"}]
    BY <1>2, StopsFit DEF Aborts
  <2>3. TransfersFit' /\ RequestsFit'
    BY <1>1, <2>1, TransferKept, RequestKept
  <2> QED BY <1>1, <2>1, <2>2, <2>3 DEF ProgramInv, ClientTypeOK
<1>3. CASE ~Aborts(c)
  <2> DEFINE t2 == CASE code = "AcceptFileTransfer" -> [t EXCEPT !.hasFileTransferStarted = TRUE]
                     [] code \in {"RejectFileTransfer", "FileTransferCanceled"} -> NoTransfer
                     [] OTHER -> t
  <2>1. SetTransfer(c, t2) /\ GoesTo(c, "read") /\ UNCHANGED <<clientStatus, clientEnd>>
    BY <1>3 DEF TakesStatus
  <2>2. t2 \in Transfers /\ Fits(t2, disk[c])
    <3>1. CASE code = "AcceptFileTransfer"
      BY <1>0, <3>1, StartedFits
    <3>2. CASE code \in {"RejectFileTransfer", "FileTransferCanceled"}
      BY <3>2, NoTransferFits
    <3>3. CASE code \notin {"AcceptFileTransfer", "RejectFileTransfer", "FileTransferCanceled"}
      BY <1>0, <3>3
    <3> QED BY <3>1, <3>2, <3>3
  <2> HIDE DEF t2
  <2>3. transfer' \in [Clients -> Transfers] /\ TransfersFit'
    BY <1>1, <2>1, <2>2, SetTransferFits
  <2>4. /\ task' \in [Clients -> {"poll", "asking", "read", "wrote"}]
        /\ \A d \in Clients : task'[d] = "asking" => task[d] = "asking"
    BY <2>1, GoesToType
  <2>5. EndsFit' /\ RequestsFit'
    BY <1>1, <2>1, <2>4, RunKept, RequestKept
  <2> QED BY <1>1, <2>1, <2>3, <2>4, <2>5 DEF ProgramInv, ClientTypeOK
<1> QED BY <1>2, <1>3

\* NICKNAME, CHAT and BYE: the name, a row, nothing.
LEMMA TextsKeep ==
  ASSUME ProgramInv, NetworkTypeOK', NEW c \in Clients,
         TakesNickname(c) \/ TakesChat(c) \/ TakesBye(c)
  PROVE  ProgramInv'
<1>1. /\ GoesTo(c, "read")
      /\ UNCHANGED <<clientEnd, clientStatus, request, dialog, clientQueue, clientFlag,
                     transfer, disk, typed>>
  BY DEF TakesNickname, TakesChat, TakesBye
<1>2. /\ task' \in [Clients -> {"poll", "asking", "read", "wrote"}]
      /\ \A d \in Clients : task'[d] = "asking" => task[d] = "asking"
  BY <1>1, GoesToType
<1>3. TransfersFit' /\ EndsFit' /\ RequestsFit'
  BY <1>1, <1>2, TransferKept, RunKept, RequestKept
<1>4. clientName' \in [Clients -> Names] /\ chatHistory' \in [Clients -> Seq(Rows)]
  <2>1. CASE TakesNickname(c)
    <3>1. Received(c).name \in Names
      BY <2>1, TakesType, MessageFields DEF TakesNickname, ProgramInv
    <3> QED BY <2>1, <3>1 DEF TakesNickname, ProgramInv, ClientTypeOK
  <2>2. CASE TakesChat(c)
    <3> DEFINE row == [kind |-> "chat", sender |-> Received(c).sender, text |-> Received(c).text]
    <3>1. Received(c) \in Messages /\ Received(c).type = "CHAT"
      BY <2>2, TakesType DEF TakesChat, ProgramInv
    <3>2. Received(c).sender \in Names /\ Received(c).text \in Texts
      BY <3>1, ClientFields
    <3>3. row \in Rows
      BY <3>2 DEF Rows
    <3>4. NewRow(c, row) /\ UNCHANGED clientName
      BY <2>2 DEF TakesChat
    <3> HIDE DEF row
    <3>5. chatHistory' \in [Clients -> Seq(Rows)]
      BY <3>3, <3>4, RowsType DEF ProgramInv
    <3> QED BY <3>4, <3>5 DEF ProgramInv, ClientTypeOK
  <2>3. CASE TakesBye(c)
    BY <2>3 DEF TakesBye, ProgramInv, ClientTypeOK
  <2> QED BY <2>1, <2>2, <2>3
<1> QED BY <1>1, <1>2, <1>3, <1>4 DEF ProgramInv, ClientTypeOK

\* FILE_REQUEST and the user's answer.
LEMMA QuestionsKeep ==
  ASSUME ProgramInv, NetworkTypeOK', NEW c \in Clients, TakesFileRequest(c) \/ UserAnswers(c)
  PROVE  ProgramInv'
<1>1. CASE TakesFileRequest(c)
  <2>1. Received(c) \in Messages /\ Received(c).type = "FILE_REQUEST"
    BY <1>1, TakesType DEF TakesFileRequest, ProgramInv
  <2>2. UNCHANGED <<clientEnd, clientStatus, dialog, clientQueue, clientFlag,
                    clientName, transfer, disk, chatHistory, typed>>
    BY <1>1 DEF TakesFileRequest
  <2>3. /\ task' = [task EXCEPT ![c] = "asking"]
        /\ request' = [request EXCEPT ![c] = Received(c)]
    BY <1>1 DEF TakesFileRequest
  <2>4. RequestsFit' /\ request' \in [Clients -> Messages \cup {NoRequest}]
    BY <2>1, <2>3 DEF RequestsFit, ProgramInv, ClientTypeOK
  <2>5. TransfersFit' /\ EndsFit'
    BY <2>2, TransferKept, RunKept
  <2> QED BY <2>2, <2>3, <2>4, <2>5 DEF ProgramInv, ClientTypeOK
<1>2. CASE UserAnswers(c)
  <2>1. /\ GoesTo(c, "read")
        /\ request' = [request EXCEPT ![c] = NoRequest]
        /\ UNCHANGED <<networkVars, clientStatus, dialog, clientFlag, clientName, disk,
                       chatHistory, typed>>
    BY <1>2 DEF UserAnswers
  <2>2. PICK answer \in {"yes", "no", "escape"} :
          /\ SetTransfer(c, Answered(transfer[c], request[c].file, answer))
          /\ Queues(c, Status(IF answer = "yes" THEN "AcceptFileTransfer"
                                                ELSE "RejectFileTransfer"))
    BY <1>2 DEF UserAnswers
  <2>3. request[c].file \in Files
    BY <1>2, MessageFields DEF UserAnswers, RequestsFit, ProgramInv
  <2>4. transfer' \in [Clients -> Transfers] /\ TransfersFit'
    <3>1. transfer[c] \in Transfers /\ Fits(transfer[c], disk[c])
      BY DEF ProgramInv, ClientTypeOK, TransfersFit
    <3> QED BY <2>1, <2>2, <2>3, <3>1, AnsweredFits, SetTransferFits
  <2>5. clientQueue' \in [Clients -> Seq(Messages)]
    <3>1. Status("AcceptFileTransfer") \in Messages /\ Status("RejectFileTransfer") \in Messages
      BY MessageTypes DEF StatusCodes
    <3> QED BY <2>2, <3>1, QueuesType DEF ProgramInv
  <2>6. /\ task' \in [Clients -> {"poll", "asking", "read", "wrote"}]
        /\ \A d \in Clients : task'[d] = "asking" => task[d] = "asking" /\ d # c
    BY <2>1, GoesToType
  <2>7. RequestsFit' /\ request' \in [Clients -> Messages \cup {NoRequest}]
    BY <2>1, <2>6 DEF RequestsFit, ProgramInv, ClientTypeOK
  <2>8. EndsFit'
    BY <2>1, RunKept DEF networkVars
  <2> QED BY <2>1, <2>4, <2>5, <2>6, <2>7, <2>8 DEF ProgramInv, ClientTypeOK, networkVars
<1> QED BY <1>1, <1>2

\* FILE_DATA: a block is saved, and the last one makes a row.
LEMMA DataKeep ==
  ASSUME ProgramInv, NetworkTypeOK', NEW c \in Clients, TakesFileData(c)
  PROVE  ProgramInv'
<1> DEFINE t == transfer[c]
           block == Received(c)
           handle == [SaveHandle(t) EXCEPT !.pos = block.offset]
           files == Saved(t, block, disk[c])
           row == [kind |-> "received", file |-> t.fileName, content |-> files[t.fileName]]
<1>0. /\ t \in Transfers /\ Fits(t, disk[c])
      /\ disk[c] \in [Files -> FileContents \cup {Absent}]
  BY DEF ProgramInv, ClientTypeOK, TransfersFit
<1>1. /\ GoesTo(c, "read")
      /\ UNCHANGED <<clientEnd, clientStatus, request, dialog, clientQueue, clientFlag,
                     clientName, typed>>
  BY DEF TakesFileData
<1>2. /\ task' \in [Clients -> {"poll", "asking", "read", "wrote"}]
      /\ \A d \in Clients : task'[d] = "asking" => task[d] = "asking"
  BY <1>1, GoesToType
<1>3. EndsFit' /\ RequestsFit'
  BY <1>1, <1>2, RunKept, RequestKept
<1>4. block.offset \in Nat /\ block.content \in Contents /\ block.last \in BOOLEAN
  BY TakesType, ClientFields DEF TakesFileData, ProgramInv
<1>5. CASE ~t.isReceivingFile
  <2>1. UNCHANGED <<transfer, disk, chatHistory>>
    BY <1>5 DEF TakesFileData
  <2>2. TransfersFit'
    BY <2>1, TransferKept
  <2> QED BY <1>1, <1>2, <1>3, <2>1, <2>2 DEF ProgramInv, ClientTypeOK
<1>6. CASE t.isReceivingFile
  <2>1. disk' = [disk EXCEPT ![c] = files]
    BY <1>6 DEF TakesFileData
  <2>2. /\ SaveHandle(t) \in Handles
        /\ SaveHandle(t).file \in Files
        /\ files \in [Files -> FileContents \cup {Absent}]
        /\ SaveHandle(t).mode = "w" => files[SaveHandle(t).file] \in FileContents
    BY <1>0, <1>4, <1>6, SavedFits
  <2> HIDE DEF files
  <2>3. disk' \in [Clients -> [Files -> FileContents \cup {Absent}]]
    BY <2>1, <2>2 DEF ProgramInv, ClientTypeOK
  <2>4. ASSUME NEW u \in Transfers, SetTransfer(c, u), Fits(u, files)
        PROVE  transfer' \in [Clients -> Transfers] /\ TransfersFit'
    <3>1. transfer' \in [Clients -> Transfers]
      BY <2>4 DEF ProgramInv, ClientTypeOK, SetTransfer
    <3>2. ASSUME NEW d \in Clients PROVE Fits(transfer'[d], disk'[d])
      BY <2>1, <2>4 DEF ProgramInv, ClientTypeOK, SetTransfer, TransfersFit
    <3> QED BY <3>1, <3>2 DEF TransfersFit
  <2>5. CASE block.last
    <3>1. SetTransfer(c, NoTransfer) /\ NewRow(c, row)
      BY <1>6, <2>5 DEF TakesFileData, files
    <3>2. row \in Rows
      <4>1. t.fileName \in Files
        BY <1>0, <1>6 DEF Fits, Transfers
      <4>2. files[t.fileName] \in FileContents \cup {Absent}
        BY <2>2, <4>1
      <4> QED BY <4>1, <4>2 DEF Rows
    <3> HIDE DEF row
    <3>3. chatHistory' \in [Clients -> Seq(Rows)]
      BY <3>1, <3>2, RowsType DEF ProgramInv
    <3>4. transfer' \in [Clients -> Transfers] /\ TransfersFit'
      BY <2>4, <3>1, NoTransferFits
    <3> QED BY <1>1, <1>2, <1>3, <2>3, <3>3, <3>4 DEF ProgramInv, ClientTypeOK
  <2>6. CASE ~block.last
    <3>1. SetTransfer(c, [t EXCEPT !.handle = handle]) /\ UNCHANGED chatHistory
      BY <1>6, <2>6 DEF TakesFileData
    <3>2. handle \in Handles /\ handle.file \in Files /\ handle.mode = SaveHandle(t).mode
          /\ handle.file = SaveHandle(t).file
      BY <1>4, <2>2 DEF Handles
    <3> HIDE DEF handle
    <3>3. /\ [t EXCEPT !.handle = handle] \in Transfers
          /\ Fits([t EXCEPT !.handle = handle], files)
      <4>1. Fits([t EXCEPT !.handle = handle], files)
        BY <1>0, <2>2, <3>2, FilesAssumption DEF Fits, Transfers
      <4>2. [t EXCEPT !.handle = handle] \in Transfers
        BY <1>0, <3>2 DEF Transfers
      <4> QED BY <4>1, <4>2
    <3>4. transfer' \in [Clients -> Transfers] /\ TransfersFit'
      BY <2>4, <3>1, <3>3
    <3> QED BY <1>1, <1>2, <1>3, <2>3, <3>1, <3>4 DEF ProgramInv, ClientTypeOK
  <2> QED BY <2>5, <2>6
<1> QED BY <1>5, <1>6

\* cycle(): the next block of the file is queued, or the transfer is over.
LEMMA CycleKeeps ==
  ASSUME ProgramInv, NetworkTypeOK', NEW c \in Clients, Cycle(c)
  PROVE  ProgramInv'
<1> DEFINE t == transfer[c]
           h == IF t.handle.mode = "closed"
                THEN [mode |-> "r", file |-> t.fileName, pos |-> 0]
                ELSE t.handle
           file == IF h.file = NoFile THEN Absent ELSE disk[c][h.file]
           block == BlockAt(h, file)
           moved == [h EXCEPT !.pos = @ + 1]
           next == [t EXCEPT !.handle = moved, !.offset = @ + 1]
<1>0. /\ t \in Transfers /\ Fits(t, disk[c])
      /\ disk[c] \in [Files -> FileContents \cup {Absent}]
  BY DEF ProgramInv, ClientTypeOK, TransfersFit
<1>1. /\ task' = [task EXCEPT ![c] = "poll"]
      /\ UNCHANGED <<networkVars, clientStatus, request, dialog, clientFlag, clientName,
                     disk, chatHistory, typed>>
  BY DEF Cycle
<1>2. /\ task' \in [Clients -> {"poll", "asking", "read", "wrote"}]
      /\ \A d \in Clients : task'[d] = "asking" => task[d] = "asking"
  BY <1>1 DEF ProgramInv, ClientTypeOK
<1>3. EndsFit' /\ RequestsFit'
  BY <1>1, <1>2, RunKept, RequestKept DEF networkVars
<1>4. h \in Handles /\ (h.mode = "w" => disk[c][h.file] \in FileContents)
  <2>1. CASE t.handle.mode = "closed"
    BY <1>0, <2>1, HandleType DEF Transfers
  <2>2. CASE t.handle.mode # "closed"
    BY <1>0, <2>2 DEF Transfers, Fits
  <2> QED BY <2>1, <2>2
<1>5. ASSUME file # Absent
      PROVE  h.file # NoFile /\ file \in FileContents
  <2>1. h.file # NoFile
    BY <1>5
  <2>2. h.file \in Files
    BY <1>4, <2>1 DEF Handles
  <2> QED BY <1>0, <1>5, <2>1, <2>2
<1>6. \/ UNCHANGED <<transfer, clientQueue>>
      \/ SetTransfer(c, NoTransfer) /\ UNCHANGED clientQueue
      \/ file # Absent /\ SetTransfer(c, [t EXCEPT !.handle = h]) /\ UNCHANGED clientQueue
      \/ /\ file # Absent
         /\ Queues(c, FileData(t.offset, block.content, block.last))
         /\ SetTransfer(c, NoTransfer) \/ SetTransfer(c, next)
  BY DEF Cycle
<1>7. transfer' \in [Clients -> Transfers] /\ TransfersFit'
  <2>1. CASE UNCHANGED transfer
    BY <1>1, <2>1, TransferKept
  <2>2. CASE SetTransfer(c, NoTransfer)
    BY <1>1, <2>2, NoTransferFits, SetTransferFits
  <2>3. CASE file # Absent /\ SetTransfer(c, [t EXCEPT !.handle = h])
    <3>1. [t EXCEPT !.handle = h] \in Transfers /\ Fits([t EXCEPT !.handle = h], disk[c])
      <4> HIDE DEF h
      <4> QED BY <1>0, <1>4, <1>5, <2>3, MovedFits
    <3> QED BY <1>1, <2>3, <3>1, SetTransferFits
  <2>4. CASE file # Absent /\ SetTransfer(c, next)
    <3> HIDE DEF h
    <3>1. moved \in Handles /\ moved.file = h.file /\ moved.mode = h.mode
      BY <1>4 DEF Handles
    <3> HIDE DEF moved
    <3>2. next \in Transfers /\ Fits(next, disk[c])
      BY <1>0, <1>4, <1>5, <2>4, <3>1, AdvancedFits
    <3> HIDE DEF next
    <3> QED BY <1>1, <2>4, <3>2, SetTransferFits
  <2> QED BY <1>6, <2>1, <2>2, <2>3, <2>4
<1>8. clientQueue' \in [Clients -> Seq(Messages)]
  <2>1. CASE UNCHANGED clientQueue
    BY <2>1 DEF ProgramInv, ClientTypeOK
  <2>2. CASE /\ file # Absent
             /\ Queues(c, FileData(t.offset, block.content, block.last))
    <3>1. block.content \in Contents /\ block.last \in BOOLEAN
      <4> HIDE DEF h, file
      <4> QED BY <1>4, <1>5, <2>2, BlockType
    <3>2. t.offset \in Nat
      BY <1>0 DEF Transfers
    <3> HIDE DEF block
    <3>3. FileData(t.offset, block.content, block.last) \in Messages
      BY <3>1, <3>2, ClientMessages
    <3> QED BY <2>2, <3>3, QueuesType DEF ProgramInv
  <2> QED BY <1>6, <2>1, <2>2
<1> QED BY <1>1, <1>2, <1>3, <1>7, <1>8 DEF ProgramInv, ClientTypeOK, networkVars

\* The queue is written, in vain or not, and the thread ends.
LEMMA WritesKeep ==
  ASSUME ProgramInv, NetworkTypeOK', NEW c \in Clients,
         ClientWrites(c) \/ ClientWritesInVain(c) \/ ClientEnds(c)
  PROVE  ProgramInv'
<1>1. UNCHANGED <<request, dialog, clientFlag, clientName, transfer, disk, chatHistory, typed>>
  BY DEF ClientWrites, ClientWritesInVain, ClientEnds
<1>2. clientQueue' \in [Clients -> Seq(Messages)]
  <2>1. \/ UNCHANGED clientQueue
        \/ clientQueue[c] # <<>> /\ clientQueue' = [clientQueue EXCEPT ![c] = Tail(@)]
    BY DEF ClientWrites, ClientWritesInVain, ClientEnds
  <2>2. clientQueue[c] \in Seq(Messages)
    BY DEF ProgramInv, ClientTypeOK
  <2>3. clientQueue[c] # <<>> => Tail(clientQueue[c]) \in Seq(Messages)
    BY <2>2
  <2> QED BY <2>1, <2>3 DEF ProgramInv, ClientTypeOK
<1>3. /\ task' \in [Clients -> {"poll", "asking", "read", "wrote"}]
      /\ \A d \in Clients : task'[d] = "asking" => task[d] = "asking"
  <2>1. CASE ClientWrites(c)
    BY <2>1, GoesToType DEF ClientWrites
  <2>2. CASE ClientWritesInVain(c)
    BY <2>2 DEF ClientWritesInVain, ProgramInv, ClientTypeOK
  <2>3. CASE ClientEnds(c)
    BY <2>3 DEF ClientEnds, ProgramInv, ClientTypeOK
  <2> QED BY <2>1, <2>2, <2>3
<1>4. EndsFit' /\ clientStatus' \in [Clients -> {"idle", "running", "ended", "fatal", "sigpipe"}]
  <2>1. CASE UNCHANGED <<clientStatus, clientEnd>>
    BY <2>1, RunKept
  <2>2. CASE \E how \in {"ended", "sigpipe"} :
               /\ clientStatus' = [clientStatus EXCEPT ![c] = how]
               /\ clientEnd' = [clientEnd EXCEPT ![c] = AfterClose(toClient[c])]
    BY <2>2, StopsFit
  <2> QED BY <2>1, <2>2 DEF ClientWrites, ClientWritesInVain, ClientEnds
<1>5. TransfersFit' /\ RequestsFit'
  BY <1>1, <1>3, TransferKept, RequestKept
<1> QED BY <1>1, <1>2, <1>3, <1>4, <1>5 DEF ProgramInv, ClientTypeOK

\* Connecting, and the keys.
LEMMA KeysKeep ==
  ASSUME ProgramInv, NetworkTypeOK', NEW c \in Clients,
         \/ ClientConnects(c) \/ TypesText(c)
         \/ \E name \in TypedNames : TypesNickname(c, name)
         \/ OpensDialog(c) \/ \E file \in Files : SendsFile(c, file)
         \/ ClosesDialog(c) \/ Quits(c)
  PROVE  ProgramInv'
<1>1. UNCHANGED <<task, request, clientName, disk, chatHistory>>
  BY DEF ClientConnects, TypesText, TypesNickname, OpensDialog, SendsFile, ClosesDialog, Quits
<1>2. RequestsFit' /\ request' \in [Clients -> Messages \cup {NoRequest}]
  BY <1>1, RequestKept
<1>3. EndsFit' /\ clientStatus' \in [Clients -> {"idle", "running", "ended", "fatal", "sigpipe"}]
  <2>1. CASE ClientConnects(c)
    BY <2>1 DEF ClientConnects, ProgramInv, ClientTypeOK, NetworkTypeOK, EndsFit, ClientRuns
  <2>2. CASE UNCHANGED <<clientStatus, clientEnd>>
    BY <2>2, RunKept
  <2> QED BY <2>1, <2>2 DEF TypesText, TypesNickname, OpensDialog, SendsFile, ClosesDialog,
                            Quits, networkVars
<1>4. transfer' \in [Clients -> Transfers] /\ TransfersFit'
  <2>1. CASE UNCHANGED transfer
    BY <1>1, <2>1, TransferKept
  <2>2. ASSUME NEW file \in Files, SendsFile(c, file)
        PROVE  transfer' \in [Clients -> Transfers] /\ TransfersFit'
    <3>1. transfer[c] \in Transfers /\ Fits(transfer[c], disk[c])
      BY DEF ProgramInv, ClientTypeOK, TransfersFit
    <3>2. SetTransfer(c, [transfer[c] EXCEPT !.isSendingFile = TRUE, !.fileName = file])
      BY <2>2 DEF SendsFile
    <3> QED BY <1>1, <3>1, <3>2, SendingFits, SetTransferFits
  <2> QED BY <2>1, <2>2 DEF ClientConnects, TypesText, TypesNickname, OpensDialog,
                            ClosesDialog, Quits
<1>5. clientQueue' \in [Clients -> Seq(Messages)]
  <2>1. CASE UNCHANGED clientQueue
    BY <2>1 DEF ProgramInv, ClientTypeOK
  <2>2. ASSUME NEW m \in Messages, Queues(c, m)
        PROVE  clientQueue' \in [Clients -> Seq(Messages)]
    BY <2>2, QueuesType DEF ProgramInv
  <2>3. CASE ClientConnects(c) \/ Quits(c)
    BY <2>2, <2>3, ClientMessages, MessageTypes DEF ClientConnects, Quits
  <2>4. CASE TypesText(c)
    <3>1. <<c, typed[c] + 1>> \in Texts
      BY <2>4, TextsAssumption DEF TypesText, Texts, ProgramInv, ClientTypeOK
    <3>2. Chat(Anyone, <<c, typed[c] + 1>>) \in Messages
      BY <3>1, ClientMessages, MessageTypes
    <3> QED BY <2>2, <2>4, <3>2 DEF TypesText
  <2>5. ASSUME NEW name \in TypedNames, TypesNickname(c, name)
        PROVE  clientQueue' \in [Clients -> Seq(Messages)]
    <3>1. Nickname(name) \in Messages
      BY MessageTypes DEF Names
    <3> QED BY <2>2, <2>5, <3>1 DEF TypesNickname
  <2>6. ASSUME NEW file \in Files, SendsFile(c, file)
        PROVE  clientQueue' \in [Clients -> Seq(Messages)]
    BY <2>2, <2>6, ClientMessages, MessageTypes DEF SendsFile
  <2> QED BY <2>1, <2>3, <2>4, <2>5, <2>6 DEF OpensDialog, ClosesDialog
<1>6. /\ dialog' \in [Clients -> BOOLEAN] /\ clientFlag' \in [Clients -> BOOLEAN]
  <2>1. \/ UNCHANGED dialog
        \/ \E b \in BOOLEAN : dialog' = [dialog EXCEPT ![c] = b]
    BY DEF ClientConnects, TypesText, TypesNickname, OpensDialog, SendsFile, ClosesDialog, Quits
  <2>2. UNCHANGED clientFlag \/ clientFlag' = [clientFlag EXCEPT ![c] = TRUE]
    BY DEF ClientConnects, TypesText, TypesNickname, OpensDialog, SendsFile, ClosesDialog, Quits
  <2> QED BY <2>1, <2>2 DEF ProgramInv, ClientTypeOK
<1>7. typed' \in [Clients -> 0..MaxTexts]
  <2>1. CASE UNCHANGED typed
    BY <2>1 DEF ProgramInv, ClientTypeOK
  <2>2. CASE TypesText(c)
    BY <2>2, TextsAssumption DEF TypesText, ProgramInv, ClientTypeOK
  <2> QED BY <2>1, <2>2 DEF ClientConnects, TypesNickname, OpensDialog, SendsFile,
                            ClosesDialog, Quits
<1> QED BY <1>1, <1>2, <1>3, <1>4, <1>5, <1>6, <1>7 DEF ProgramInv, ClientTypeOK

-----------------------------------------------------------------------------
(* The two together.                                                       *)

\* The client program keeps what is its own.
LEMMA ProgramKeeps ==
  ASSUME ProgramInv, NetworkTypeOK', NEW c \in Clients, ClientProgram(c)
  PROVE  ProgramInv'
BY StatusKeeps, TextsKeep, QuestionsKeep, DataKeep, CycleKeeps, WritesKeep, KeysKeep
   DEF ClientProgram, NetworkThread

\* The server learns of a reset of a socket the client has closed, and touches the
\* client's end in no other way.
LEMMA ServerLeavesEnds ==
  ASSUME ServerStep
  PROVE  \/ UNCHANGED clientEnd
         \/ \E c \in Clients, end \in Gone :
               clientEnd[c] = "closed" /\ clientEnd' = [clientEnd EXCEPT ![c] = end]
<1> USE DEF NetworkIdle, networkVars
<1>1. CASE Register
  BY <1>1 DEF Register
<1>2. ASSUME NEW c \in Clients, Accept(c) PROVE UNCHANGED clientEnd
  BY <1>2 DEF Accept
<1>3. ASSUME NEW c \in Clients, SessionStep(c), ~WriteInVain(c)
      PROVE  UNCHANGED clientEnd
  <2>1. CASE ReceiveUnknown(c) \/ ReceiveHello(c) \/ ReceiveBye(c) \/ ReceiveNickname(c)
             \/ Rename(c) \/ ReceiveChat(c)
    BY <2>1 DEF ReceiveUnknown, ReceiveHello, ReceiveBye, ReceiveNickname, Rename, ReceiveChat
  <2>2. CASE ReceiveStatus(c) \/ SaveAnswer(c) \/ ScanAnswers(c) \/ ReceiveFileRequest(c)
             \/ AnnounceTransfer(c) \/ FlagSender(c)
    BY <2>2 DEF ReceiveStatus, SaveAnswer, ScanAnswers, ReceiveFileRequest, AnnounceTransfer,
                FlagSender
  <2>3. CASE AcceptOwnTransfer(c) \/ ReceiveFileData(c) \/ ResetStatus(c) \/ Write(c)
             \/ WriteAfterReset(c) \/ Leave(c) \/ Hangup(c)
    BY <2>3 DEF AcceptOwnTransfer, ReceiveFileData, ResetStatus, Write, WriteAfterReset,
                Leave, Hangup
  <2> QED BY <1>3, <2>1, <2>2, <2>3 DEF SessionStep
<1>4. ASSUME NEW c \in Clients, WriteInVain(c)
      PROVE  \E end \in Gone :
                clientEnd[c] = "closed" /\ clientEnd' = [clientEnd EXCEPT ![c] = end]
  BY <1>4 DEF WriteInVain
<1> QED BY <1>1, <1>2, <1>3, <1>4 DEF ServerStep

\* So it leaves the clients as they are.
LEMMA ServerKeeps ==
  ASSUME MessengerInv, NetworkTypeOK', ServerStep, UNCHANGED clientVars
  PROVE  ProgramInv'
<1>1. UNCHANGED <<clientStatus, task, request, dialog, clientQueue, clientFlag, clientName,
                  transfer, disk, chatHistory, typed>>
  BY DEF clientVars
<1>2. ClientTypeOK'
  BY <1>1 DEF MessengerInv, ClientTypeOK
<1>3. TransfersFit' /\ RequestsFit'
  BY <1>1 DEF MessengerInv, TransfersFit, RequestsFit
<1>4. EndsFit'
  <2>1. ASSUME NEW d \in Clients
        PROVE  clientEnd'[d] = clientEnd[d] \/ clientEnd[d] = "closed"
    BY ServerLeavesEnds DEF MessengerInv, ClientTypeOK, NetworkTypeOK
  <2> QED BY <1>1, <2>1 DEF MessengerInv, EndsFit, ClientRuns
<1> QED BY <1>2, <1>3, <1>4 DEF ProgramInv

\* The clients of ImplementsServer are those of module Server.
LEMMA ActsAreSteps ==
  ASSUME NEW c \in Clients, ClientActs(c) PROVE ClientStep(c)
BY DEF ClientActs, ClientStep

\* Nobody is connected at the start.
LEMMA MessengerInitInv == MessengerInit => MessengerInv
<1> SUFFICES ASSUME MessengerInit PROVE MessengerInv
  OBVIOUS
<1> USE DEF MessengerInit, ClientInit
<1>1. TypeInv
  BY InitTypes
<1>2. NetworkTypeOK
  BY <1>1 DEF TypeInv, TypeOK
<1>3. <<>> \in Seq(Messages) /\ <<>> \in Seq(Rows)
  OBVIOUS
<1>4. clientName \in [Clients -> Names]
  BY ClientMessages
<1>5. transfer \in [Clients -> Transfers] /\ TransfersFit
  BY NoTransferFits DEF TransfersFit
<1>6. disk \in [Clients -> [Files -> FileContents \cup {Absent}]]
  <2>1. ASSUME NEW f \in Files PROVE Whole(f) \in FileContents
    BY <2>1, FilesAssumption DEF Whole, FileContents, Contents
  <2> QED BY <2>1
<1>7. typed \in [Clients -> 0..MaxTexts]
  BY TextsAssumption
<1>8. /\ clientStatus \in [Clients -> {"idle", "running", "ended", "fatal", "sigpipe"}]
      /\ task \in [Clients -> {"poll", "asking", "read", "wrote"}]
      /\ request \in [Clients -> Messages \cup {NoRequest}]
      /\ dialog \in [Clients -> BOOLEAN] /\ clientFlag \in [Clients -> BOOLEAN]
      /\ clientQueue \in [Clients -> Seq(Messages)] /\ chatHistory \in [Clients -> Seq(Rows)]
  BY <1>3
<1>9. ClientTypeOK
  BY <1>2, <1>4, <1>5, <1>6, <1>7, <1>8 DEF ClientTypeOK
<1>10. RequestsFit /\ EndsFit
  BY DEF RequestsFit, EndsFit, ClientRuns, NetworkInit, Init
<1> QED BY <1>1, <1>5, <1>9, <1>10 DEF MessengerInv

\* Every step keeps the types, and is a step of the server or of the clients it
\* expects.
LEMMA MessengerStep ==
  ASSUME MessengerInv, [MessengerNext]_messengerVars
  PROVE  /\ MessengerInv'
         /\ [ServerStep \/ \E c \in Clients : ClientActs(c)]_vars
<1>1. CASE ServerStep /\ UNCHANGED clientVars
  <2>1. TypeInv'
    BY <1>1, NextTypes DEF MessengerInv, Next
  <2>2. ProgramInv'
    BY <1>1, <2>1, ServerKeeps DEF TypeInv, TypeOK
  <2> QED BY <1>1, <2>1, <2>2 DEF MessengerInv, ProgramInv
<1>2. ASSUME NEW c \in Clients, ClientProgram(c), UNCHANGED serverVars
      PROVE  MessengerInv' /\ [ServerStep \/ \E d \in Clients : ClientActs(d)]_vars
  <2>1. ClientActs(c) \/ UNCHANGED vars
    BY <1>2, ProgramActs
  <2>2. TypeInv'
    <3>1. CASE ClientActs(c)
      BY <3>1, ActsAreSteps, ClientTypes DEF MessengerInv
    <3>2. CASE UNCHANGED vars
      BY <3>2, NextTypes DEF MessengerInv
    <3> QED BY <2>1, <3>1, <3>2
  <2>3. ProgramInv'
    BY <1>2, <2>2, ProgramKeeps DEF MessengerInv, ProgramInv, TypeInv, TypeOK
  <2> QED BY <2>1, <2>2, <2>3 DEF MessengerInv, ProgramInv
<1>3. CASE UNCHANGED messengerVars
  <2>1. UNCHANGED vars /\ UNCHANGED clientVars
    BY <1>3 DEF messengerVars
  <2>2. TypeInv'
    BY <2>1, NextTypes DEF MessengerInv
  <2>3. ClientTypeOK' /\ TransfersFit' /\ RequestsFit' /\ EndsFit'
    BY <2>1 DEF vars, networkVars, clientVars, MessengerInv, ClientTypeOK, NetworkTypeOK,
                TransfersFit, RequestsFit, EndsFit, ClientRuns
  <2> QED BY <2>1, <2>2, <2>3 DEF MessengerInv
<1> QED BY <1>1, <1>2, <1>3 DEF MessengerNext

\* The invariant of the whole system.
LEMMA AlwaysMessengerInv == MessengerSpec => []MessengerInv
BY MessengerInitInv, MessengerStep, PTL DEF MessengerSpec

-----------------------------------------------------------------------------
(* The theorems.                                                           *)

\* Every message on its way, every field of the server and of its clients and every
\* file keeps its type: no handler of either side meets a message without the
\* fields it reads, and no block is saved to a file that is not open.
THEOREM SystemTypes == MessengerSpec => []MessengerTypeOK
<1>1. MessengerInv => MessengerTypeOK
  BY DEF MessengerInv, TypeInv, MessengerTypeOK
<1> QED BY <1>1, AlwaysMessengerInv, PTL

\* The client program does to the server only what module Server has it expect.
THEOREM SystemImplementsServer == MessengerSpec => ImplementsServer
<1>1. MessengerInit => Init
  BY DEF MessengerInit
<1>2. MessengerInv /\ [MessengerNext]_messengerVars
        => [ServerStep \/ \E c \in Clients : ClientActs(c)]_vars
  BY MessengerStep
<1> QED BY <1>1, <1>2, AlwaysMessengerInv, PTL DEF MessengerSpec, ImplementsServer

\* So the whole system implements the specification of the server.
THEOREM SystemIsServer == MessengerSpec => Spec
<1>1. [ServerStep \/ \E c \in Clients : ClientActs(c)]_vars => [Next]_vars
  BY ActsAreSteps DEF Next
<1> QED BY <1>1, SystemImplementsServer, PTL DEF ImplementsServer, Spec

\* removeSession(), with the real clients: no transfer outlives its sender.
THEOREM SystemTransfersHaveSenders == MessengerSpec => []ActiveTransferHasSender
BY SystemIsServer, TransfersHaveSenders, PTL

\* However recv() cuts and joins the messages, what the system does is what module
\* Messenger lets it do.  So all that is proved of MessengerSpec holds of it.
THEOREM ReceptionIsMessenger == ReceptionSpec => MessengerSpec
<1>1. ReceptionInit => MessengerInit
  BY DEF ReceptionInit
<1>2. ASSUME NEW c \in Clients, SessionThread(c) \/ Accepts(c)
      PROVE  MessengerNext
  <2>1. (SessionStep(c) \/ Accept(c)) /\ UNCHANGED clientVars
    BY <1>2 DEF SessionThread, SessionHears, SessionWorks, Accepts, SessionStep
  <2> QED
    BY <2>1 DEF MessengerNext, ServerStep
<1>3. ASSUME NEW c \in Clients, ClientThread(c) \/ Connects(c) \/ Replies(c) \/ Types(c)
      PROVE  MessengerNext
  <2>1. UNCHANGED serverVars
    BY <1>3 DEF ClientThread, Connects, Replies, Types
  <2>2. CASE ClientThread(c)
    BY <2>1, <2>2
    DEF ClientThread, ClientHears, ClientWorks, NetworkThread, ClientProgram, MessengerNext
  <2>3. CASE Connects(c) \/ Replies(c)
    BY <2>1, <2>3 DEF Connects, Replies, ClientProgram, MessengerNext
  <2>4. CASE Types(c)
    BY <2>1, <2>4 DEF Types, ClientProgram, MessengerNext
  <2> QED
    BY <1>3, <2>2, <2>3, <2>4
<1>4. ASSUME Registers PROVE MessengerNext
  BY <1>4 DEF Registers, MessengerNext, ServerStep
<1>5. ReceptionNext => MessengerNext
  BY <1>2, <1>3, <1>4 DEF ReceptionNext
<1>6. [ReceptionNext]_receptionVars => [MessengerNext]_messengerVars
  BY <1>5 DEF receptionVars
<1> QED
  BY <1>1, <1>6, PTL DEF ReceptionSpec, MessengerSpec
=============================================================================
