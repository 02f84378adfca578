----------------------------- MODULE Reception -----------------------------
(***************************************************************************)
(* The whole system, and how its messages come out of recv().  readData()  *)
(* calls recv() once and parseMessage() once: of the messages that arrive  *)
(* together it hands over the first, and the others stay in the buffer of  *)
(* the session until more bytes arrive, which need not happen.  Messenger  *)
(* lets a thread take the next message at any time; here it takes one only *)
(* when there is something left to receive.  So this is the module that    *)
(* says what must happen at last.                                          *)
(***************************************************************************)
EXTENDS Messenger

VARIABLES serverBuffer,  \* how many whole messages of toServer the session's
                         \* buffer_ has already
          clientBuffer   \* ... and of toClient the client's

bufferVars == <<serverBuffer, clientBuffer>>
receptionVars == <<messengerVars, bufferVars>>

BuffersInit ==
  /\ serverBuffer = [c \in Clients |-> 0]
  /\ clientBuffer = [c \in Clients |-> 0]

ReceptionInit == MessengerInit /\ BuffersInit

\* A block that is not the last is as long as buffer_: it comes in alone.
Fills(m) == m.type = "FILE_DATA" /\ ~m.last

\* recv() finds bytes that are not in the buffer yet, and takes any part of them;
\* parseMessage() takes the first message.  How many whole ones remain behind it.
LeftBehind(wire, buffered) ==
  {k \in 0..(Len(wire) - 1) :
     /\ buffered < Len(wire)
     /\ buffered <= k + 1
     /\ k > 0 => \A i \in 1..(k + 1) : ~Fills(wire[i])}

-----------------------------------------------------------------------------
(* The server's side.                                                      *)

\* What the thread of a session does when readData() gives it a message.
SessionHears(c) ==
  /\ CanRead(c)
  /\ \/ ReceiveUnknown(c) \/ ReceiveHello(c) \/ ReceiveBye(c)
     \/ ReceiveNickname(c) \/ ReceiveChat(c) \/ ReceiveStatus(c)
     \/ ReceiveFileRequest(c) \/ ReceiveFileData(c)

\* What it does besides.
SessionWorks(c) ==
  \/ ~CanRead(c) /\ ReceiveUnknown(c)
  \/ Rename(c) \/ SaveAnswer(c) \/ ScanAnswers(c) \/ AnnounceTransfer(c)
  \/ FlagSender(c) \/ AcceptOwnTransfer(c) \/ ResetStatus(c)
  \/ Write(c) \/ WriteInVain(c) \/ WriteAfterReset(c)
  \/ Leave(c) \/ Hangup(c)

SessionThread(c) ==
  /\ UNCHANGED <<clientVars, clientBuffer>>
  /\ \/ /\ SessionHears(c)
        /\ \E k \in LeftBehind(toServer[c], serverBuffer[c]) :
              serverBuffer' = [serverBuffer EXCEPT ![c] = k]
     \/ SessionWorks(c) /\ UNCHANGED serverBuffer

Registers == Register /\ UNCHANGED <<clientVars, bufferVars>>
Accepts(c) == Accept(c) /\ UNCHANGED <<clientVars, bufferVars>>

-----------------------------------------------------------------------------
(* The client's side.                                                      *)

ClientHears(c) ==
  \/ TakesStatus(c) \/ TakesNickname(c) \/ TakesChat(c) \/ TakesBye(c)
  \/ TakesFileRequest(c) \/ TakesFileData(c)

ClientWorks(c) ==
  \/ Cycle(c) \/ ClientWrites(c) \/ ClientWritesInVain(c) \/ ClientEnds(c)

ClientThread(c) ==
  /\ UNCHANGED <<serverVars, serverBuffer>>
  /\ \/ /\ ClientHears(c)
        /\ \E k \in LeftBehind(toClient[c], clientBuffer[c]) :
              clientBuffer' = [clientBuffer EXCEPT ![c] = k]
     \/ ClientWorks(c) /\ UNCHANGED clientBuffer

Connects(c) == Running /\ ClientConnects(c) /\ UNCHANGED <<serverVars, bufferVars>>
Replies(c) == UserAnswers(c) /\ UNCHANGED <<serverVars, bufferVars>>

\* The user's keys.
Types(c) ==
  /\ \/ TypesText(c)
     \/ \E name \in TypedNames : TypesNickname(c, name)
     \/ OpensDialog(c)
     \/ \E file \in Files : SendsFile(c, file)
     \/ ClosesDialog(c)
     \/ Quits(c)
  /\ UNCHANGED <<serverVars, bufferVars>>

ReceptionNext ==
  \/ Registers
  \/ \E c \in Clients :
        \/ Accepts(c) \/ SessionThread(c)
        \/ Connects(c) \/ ClientThread(c) \/ Replies(c) \/ Types(c)

\* Every thread is scheduled, and users answer what they are asked.  A thread that
\* has bytes to receive goes on until a message is complete.
ReceptionFairness ==
  /\ WF_receptionVars(Registers)
  /\ \A c \in Clients :
        /\ WF_receptionVars(Accepts(c))
        /\ WF_receptionVars(SessionThread(c))
        /\ WF_receptionVars(ClientThread(c))
        /\ WF_receptionVars(Replies(c))

ReceptionSpec == ReceptionInit /\ [][ReceptionNext]_receptionVars /\ ReceptionFairness

-----------------------------------------------------------------------------
(* Properties.                                                             *)

\* The whole of wire is in the buffer of its reader, so that the reader waits for
\* more bytes, and a message of that type is in it.
WaitsForMore(wire, buffered, type) ==
  buffered = Len(wire) /\ \E m \in Range(wire) : m.type = type

NameWaits(c) == WaitsForMore(toClient[c], clientBuffer[c], "NICKNAME")

BlockWaits(c, d) ==
  \/ WaitsForMore(toServer[c], serverBuffer[c], "FILE_DATA")
  \/ WaitsForMore(toClient[d], clientBuffer[d], "FILE_DATA")

\* A client that connects is told a name, unless either side ends, or the name
\* has come in with what others say and waits in the client's buffer for ever.
NamedAtLast ==
  \A c \in Clients :
      ClientRuns(c) ~> (clientName[c] # Anyone \/ ~ClientRuns(c) \/ []NameWaits(c))

\* A client whose user has quit sends what it has queued and ends, and then
\* the server lets go of its session.
QuittersLeave ==
  \A c \in Clients :
      /\ clientFlag[c] ~> ~ClientRuns(c)
      /\ (c \in sessions /\ clientEnd[c] \in Gone) ~> (c \notin sessions \/ ~Running)

\* A file somebody has accepted ends up received, or canceled.
AcceptedIsReceived ==
  \A c \in Clients : transfer[c].isReceivingFile
                        ~> ~(transfer[c].isReceivingFile /\ ClientRuns(c))

\* Once the sender has started, everybody who accepted receives to the end,
\* unless the last block has come in with a text and waits for ever in the buffer
\* of the server or of the receiver.
StartedIsReceived ==
  \A c \in Clients : \A d \in Clients \ {c} :
      (IsTransmitting(transfer[c]) /\ transfer[d].isReceivingFile)
        ~> (~(ClientRuns(d) /\ transfer[d].isReceivingFile) \/ []BlockWaits(c, d))
=============================================================================
