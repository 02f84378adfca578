----------------------------- MODULE Messenger -----------------------------
(***************************************************************************)
(* The whole system: the server and its clients, which share nothing but   *)
(* the connections.  This module says what may happen and what never does; *)
(* what happens at last depends on how recv() cuts the streams, and is     *)
(* said in module Reception.                                               *)
(***************************************************************************)
EXTENDS Server, ClientSession, Functions

messengerVars == <<vars, clientVars>>

MessengerTypeOK == TypeOK /\ ClientTypeOK

MessengerInit == Init /\ ClientInit

\* A client program, its network thread and its user.
ClientProgram(c) ==
  \/ Running /\ ClientConnects(c)
  \/ NetworkThread(c)
  \/ UserAnswers(c)
  \/ TypesText(c)
  \/ \E name \in TypedNames : TypesNickname(c, name)
  \/ OpensDialog(c)
  \/ \E file \in Files : SendsFile(c, file)
  \/ ClosesDialog(c)
  \/ Quits(c)

MessengerNext ==
  \/ ServerStep /\ UNCHANGED clientVars
  \/ \E c \in Clients : ClientProgram(c) /\ UNCHANGED serverVars

MessengerSpec == MessengerInit /\ [][MessengerNext]_messengerVars

-----------------------------------------------------------------------------
(* Properties.                                                             *)

\* What the clients of module Server may do; the message is read off the stream.
ClientActs(c) ==
  \/ Connect(c) \/ ClientSendsInVain(c) \/ ClientReceives(c) \/ ClientCloses(c)
  \/ /\ toServer'[c] # <<>>
     /\ LET m == toServer'[c][Len(toServer'[c])]
        IN  m \in Messages /\ ClientSends(c, m)

\* The client program does to the server only what module Server has it expect: it
\* connects once, sends messages of the protocol, and closes its socket after the
\* last of them.  So what is proved of the server holds of the whole system.
ImplementsServer == Init /\ [][ServerStep \/ \E c \in Clients : ClientActs(c)]_vars

\* Whatever a client reports as received is, block for block, the file that
\* was announced to it (section 3.2.6 of the project description: the data
\* goes to those who accepted, and the last block concludes the transfer).
ReceivedFileComplete ==
  \A c \in Clients : \A i \in 1..Len(chatHistory[c]) :
      LET row == chatHistory[c][i]
      IN  row.kind = "received" => row.content = Whole(row.file)

\* The announcement of a transfer that d has not answered.
Unanswered(d) ==
  \/ task[d] = "asking"
  \/ \E i \in 1..Len(toClient[d]) : toClient[d][i].type = "FILE_REQUEST"
  \/ \E i \in 1..Len(sendingQueue[d]) : sendingQueue[d][i].type = "FILE_REQUEST"

\* A file is on its way only when everybody has answered (section 3.2.5).
TransmitsAfterAnswers ==
  \A c \in Clients : IsTransmitting(transfer[c]) =>
      \A d \in Clients \ {c} : ClientRuns(d) => ~Unanswered(d)

\* No client is aborted by Common::fatal() over a message of the server.
NoClientAbort == \A c \in Clients : clientStatus[c] # "fatal"

\* "If everybody has answered the request and at least one has said yes": a file
\* nobody else wants is not transmitted.
StartsOnlyIfAccepted ==
  \A c \in Clients : IsTransmitting(transfer[c]) =>
      \E d \in Clients \ {c} : fileTransferStatus[d] = "AcceptFileTransfer"

\* Blocks are on their way only to clients that are receiving, so that none is
\* dropped there: who has refused, or has had the last block, is sent no more.
DataForReceiversOnly ==
  \A d \in Clients : ClientRuns(d) /\ ~transfer[d].isReceivingFile =>
      \A m \in Range(sendingQueue[d]) \cup Range(toClient[d]) : m.type # "FILE_DATA"

\* As long as a client transmits, the server keeps the transfer for it: no other
\* request gets through until its last block is there.
TransmitterHoldsTransfer ==
  \A c \in sessions : IsTransmitting(transfer[c]) =>
      fileTransferModeActive /\ isFileTransferSender[c]

\* The server throws nobody out: whatever its user types and however its messages
\* meet the server's, no client of this program gives checkSessionStateChange() a
\* reason to disconnect the session while its socket is open.
NobodyThrownOut ==
  \A c \in Clients : serverEnd[c] \notin Gone => ~disconnectionFlag[c]

\* What is on its way to a client, the next message first.
ToCome(c) == toClient[c] \o sendingQueue[c]

\* A client that has been told a name knows, or will know by the last name on its
\* way, the very name under which the server makes its texts known.
NamesAgree ==
  \A c \in {d \in sessions : clientEnd[d] = "open"} :
      LET line == ToCome(c)
          names == {i \in 1..Len(line) : line[i].type = "NICKNAME"}
      IN  /\ \A i \in names : (\A j \in names : j <= i) => line[i].name = nickName[c]
          /\ names = {} => clientName[c] \in {nickName[c], Anyone}

\* The rows of c's history that are texts, and the texts.
ChatRows(c) == {i \in 1..Len(chatHistory[c]) : chatHistory[c][i].kind = "chat"}
TextsShown(c) == {chatHistory[c][i].text : i \in ChatRows(c)}

\* The texts of another user are shown in the order in which they were typed, and
\* none twice; and nobody is shown a text of its own.
ChatInOrder ==
  \A c \in Clients :
      LET text(i) == chatHistory[c][i].text
      IN  /\ \A i \in ChatRows(c) : text(i)[1] # c
          /\ \A i, j \in ChatRows(c) :
                (i < j /\ text(i)[1] = text(j)[1]) => text(i)[2] < text(j)[2]

\* Between two texts of a user, whoever is shown both is shown all that user typed.
ChatWithoutGaps ==
  \A c \in Clients : \A s, t \in TextsShown(c) :
      s[1] = t[1] => \A k \in s[2]..t[2] : <<s[1], k>> \in TextsShown(c)

\* No sending queue is full, so that none drops the next message.
QueuesHaveRoom ==
  \A c \in Clients : CanSend(sendingQueue[c]) /\ CanSend(clientQueue[c])
=============================================================================
