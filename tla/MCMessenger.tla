---------------------------- MODULE MCMessenger ----------------------------
(***************************************************************************)
(* The whole system on a small scale, once everybody has joined.  Users    *)
(* whose keys a run does not need keep their hands off: Talkers may type   *)
(* MaxTexts texts each, Senders may send files, MaxRequests together,      *)
(* Namers may take one of TypedNames once each, Quitters may quit.         *)
(***************************************************************************)
EXTENDS Messenger, SequencesExt, TLC

CONSTANTS Talkers, Senders, Namers, Quitters,
          MaxRequests,   \* files users ask to send (a bound)
          c1, c2, c3, file1, file2, ann, annLee

VARIABLES requests,      \* how many they have
          renamed        \* the clients whose user has typed a name

mcVars == <<messengerVars, requests, renamed>>

MCSpaceExtends == {<<ann, annLee>>}

MCAddress ==
  LET order == SetToSeq(Clients)
  IN  [c \in Clients |-> CHOOSE k \in 1..Len(order) : order[k] = c]

\* file1 is cut in two blocks, file2 in one; each sender has one of its own.
MCBlocks == [f \in Files |-> IF f = file1 THEN 2 ELSE 1]
MCOwned == [c \in Clients |-> CASE c = c1 -> Files \cap {file1}
                                [] c = c2 -> Files \cap {file2}
                                [] OTHER -> {}]

\* The clients of users have connected, said HELLO and been told their names; the
\* others are yet to connect.
JoinedBy(users) ==
  LET If(then, else) == [c \in Clients |-> IF c \in users THEN then ELSE else]
  IN
  /\ toServer = [c \in Clients |-> <<>>]
  /\ toClient = [c \in Clients |-> <<>>]
  /\ clientEnd = If("open", "idle")
  /\ serverEnd = If("open", "idle")
  /\ serverStatus = "running"
  /\ connectionsCounter = Cardinality(users)
  /\ listener = NoClient
  /\ sessions = users
  /\ fileTransferModeActive = FALSE
  /\ state = If("identify", "start")
  /\ isFileTransferSender = [c \in Clients |-> FALSE]
  /\ nickName = [c \in Clients |->
                   IF c \in users THEN DefaultName(Address[c]) ELSE DefaultName(0)]
  /\ fileTransferStatus = [c \in Clients |-> "FileTransferCanceled"]
  /\ sendingQueue = [c \in Clients |-> <<>>]
  /\ disconnectionFlag = [c \in Clients |-> FALSE]
  /\ pc = If("poll", "none")
  /\ hand = [c \in Clients |-> NoMessage]
  /\ clientStatus = If("running", "idle")
  /\ task = [c \in Clients |-> "poll"]
  /\ request = [c \in Clients |-> NoRequest]
  /\ dialog = [c \in Clients |-> FALSE]
  /\ clientQueue = [c \in Clients |-> <<>>]
  /\ clientFlag = [c \in Clients |-> FALSE]
  /\ clientName = [c \in Clients |-> IF c \in users THEN nickName[c] ELSE Anyone]
  /\ transfer = [c \in Clients |-> NoTransfer]
  /\ disk = [c \in Clients |->
               [f \in Files |-> IF f \in Owned[c] THEN Whole(f) ELSE Absent]]
  /\ chatHistory = [c \in Clients |-> <<>>]
  /\ typed = [c \in Clients |-> 0]
  /\ renamed = {}

Joined == JoinedBy(Clients) /\ requests = 0

\* The keys.
MCTypes(c) ==
  \/ /\ c \in Talkers
     /\ TypesText(c)
     /\ UNCHANGED <<requests, renamed>>
  \/ /\ c \in Namers \ renamed
     /\ \E name \in TypedNames : TypesNickname(c, name)
     /\ renamed' = renamed \cup {c}
     /\ UNCHANGED requests
  \/ /\ c \in Senders /\ requests < MaxRequests
     /\ OpensDialog(c)
     /\ requests' = requests + 1
     /\ UNCHANGED renamed
  \/ /\ (\E file \in Files : SendsFile(c, file)) \/ ClosesDialog(c)
     /\ UNCHANGED <<requests, renamed>>
  \/ /\ c \in Quitters
     /\ Quits(c)
     /\ UNCHANGED <<requests, renamed>>

MCNext ==
  \/ ServerStep /\ UNCHANGED <<clientVars, requests, renamed>>
  \/ \E c \in Clients :
        /\ \/ NetworkThread(c) /\ UNCHANGED <<requests, renamed>>
           \/ UserAnswers(c) /\ UNCHANGED <<requests, renamed>>
           \/ MCTypes(c)
        /\ UNCHANGED serverVars

JoinedSpec == Joined /\ [][MCNext]_mcVars
=============================================================================
