------------------------------ MODULE ClientUI ------------------------------
(***************************************************************************)
(* The two threads of a client and what they share: main() in run(), which *)
(* reads keys, and the network thread, which may ask the user about a file *)
(* and in the end deletes the session it runs in.  inputMutex_ is to keep  *)
(* run() from the keys meant for the question; connection_, which the      *)
(* network thread clears, tells run() whether there is a session; the      *)
(* semaphore sessionEndSignal tells it when the Client may be deleted.     *)
(***************************************************************************)
EXTENDS Naturals

CONSTANT MaxQuestions   \* file requests the server passes on (a bound)

ASSUME UIAssumption == MaxQuestions \in Nat

VARIABLES
  process,            \* "running", or how the client ended
  main,               \* what main() does next
  key,                \* the key run() has read, or what it needs the session for
  net,                \* what the network thread does next
  mutexHeld,          \* inputMutex_, which run() never keeps
  ungot,              \* the character 1 put back by ungetch()
  connection,         \* connection_ is not null
  disconnectionFlag,  \* disconnectionFlag_ of the session
  byes,               \* how often BYE has been queued
  serverGone,         \* the server has closed the connection
  sessionEndSignal,   \* sessionEndSignal
  questions,          \* file requests so far
  lost,               \* keys run() has dropped during the question
  acted               \* keys run() has begun to act on during the question

mainVars == <<main, key>>
netVars == <<net, mutexHeld, questions>>
sharedVars == <<ungot, connection, disconnectionFlag, byes, serverGone, sessionEndSignal>>
historyVars == <<lost, acted>>
vars == <<process, mainVars, netVars, sharedVars, historyVars>>

\* What a key is for: a character of the text, Enter, F2 or F4, ESC.
Keys == {"edit", "text", "ask", "esc"}

MainPlaces == {"starting", "reading", "trying", "blocked", "checking", "loading",
               "calling", "asking", "leaving", "waiting", "destroying", "deleting"}
NetPlaces == {"none", "polling", "locking", "question", "naming", "answering",
              "clearing", "posted", "canceled", "over"}

TypeOK ==
  /\ process \in {"running", "crashed", "exited"}
  /\ main \in MainPlaces
  /\ key \in Keys \cup {"none", "answer", "bye"}
  /\ net \in NetPlaces
  /\ mutexHeld \in BOOLEAN
  /\ ungot \in BOOLEAN
  /\ connection \in BOOLEAN
  /\ disconnectionFlag \in BOOLEAN
  /\ byes \in Nat
  /\ serverGone \in BOOLEAN
  /\ sessionEndSignal \in Nat
  /\ questions \in 0..MaxQuestions
  /\ lost \in Nat
  /\ acted \in Nat

Init ==
  /\ process = "running"
  /\ main = "starting"
  /\ key = "none"
  /\ net = "none"
  /\ mutexHeld = FALSE
  /\ ungot = FALSE
  /\ connection = FALSE
  /\ disconnectionFlag = FALSE
  /\ byes = 0
  /\ serverGone = FALSE
  /\ sessionEndSignal = 0
  /\ questions = 0
  /\ lost = 0
  /\ acted = 0

Running == process = "running"
Freed == net = "over"

\* A thread goes on from one place to another.
MainGoes(from, to) == Running /\ main = from /\ main' = to
NetGoes(from, to) == Running /\ net = from /\ net' = to

-----------------------------------------------------------------------------
(* main(): initialize() and run().                                         *)

Connects ==
  /\ MainGoes("starting", "reading")
  /\ connection' = TRUE
  /\ net' = "polling"
  /\ UNCHANGED <<process, key, mutexHeld, questions, ungot, disconnectionFlag, byes,
                 serverGone, sessionEndSignal, historyVars>>

\* connect() fails, and the Client is deleted without a session.
FailsToConnect ==
  /\ MainGoes("starting", "destroying")
  /\ UNCHANGED <<process, key, netVars, sharedVars, historyVars>>

\* getch(): the character put back, or a key of the user's.
ReadsKey ==
  /\ MainGoes("reading", "trying")
  /\ \/ ungot /\ ungot' = FALSE /\ key' = "none"
     \/ key' \in Keys /\ UNCHANGED ungot
  /\ UNCHANGED <<process, netVars, connection, disconnectionFlag, byes, serverGone,
                 sessionEndSignal, historyVars>>

\* Mutant of TriesLock: run() does not wait for the lock.
TriesAgain ==
  /\ Running /\ main = "trying"
  /\ main' = IF mutexHeld \/ key = "none" THEN "reading" ELSE "checking"
  /\ lost' = IF mutexHeld /\ key # "none" THEN lost + 1 ELSE lost
  /\ UNCHANGED <<process, key, netVars, sharedVars, acted>>

\* pthread_mutex_trylock(), and unlock: if the question has the keyboard the
\* key is dropped.  The character put back is none.
TriesLock ==
  /\ Running /\ main = "trying"
  /\ main' = IF mutexHeld THEN "blocked" ELSE IF key = "none" THEN "reading" ELSE "checking"
  /\ lost' = IF mutexHeld /\ key # "none" THEN lost + 1 ELSE lost
  /\ UNCHANGED <<process, key, netVars, sharedVars, acted>>

\* pthread_mutex_lock(), and unlock.
WaitsForLock ==
  /\ ~mutexHeld
  /\ MainGoes("blocked", "reading")
  /\ UNCHANGED <<process, key, netVars, sharedVars, historyVars>>

\* Mutant of ChecksConnection: editing goes on without a connection.
ChecksBeforeSending ==
  /\ Running /\ main = "checking"
  /\ main' = IF key = "edit" THEN "reading" ELSE IF connection THEN "loading" ELSE "leaving"
  /\ acted' = IF mutexHeld THEN acted + 1 ELSE acted
  /\ UNCHANGED <<process, key, netVars, sharedVars, lost>>

\* if( ! connection_ ), and the switch.
ChecksConnection ==
  /\ Running /\ main = "checking"
  /\ main' = IF ~connection THEN "leaving" ELSE IF key = "edit" THEN "reading" ELSE "loading"
  /\ acted' = IF mutexHeld THEN acted + 1 ELSE acted
  /\ UNCHANGED <<process, key, netVars, sharedVars, lost>>

\* connection_ is read once more, for the call: it may be null by now.
LoadsConnection ==
  /\ Running /\ main = "loading"
  /\ IF connection THEN main' = "calling" /\ UNCHANGED process
                   ELSE process' = "crashed" /\ UNCHANGED main
  /\ UNCHANGED <<key, netVars, sharedVars, historyVars>>

\* Mutant of SaysGoodbye: whether it was said before is not asked.
SaysGoodbyeAgain ==
  /\ disconnectionFlag' = TRUE
  /\ byes' = byes + 1

\* SessionServer::disconnect().
SaysGoodbye ==
  /\ disconnectionFlag' = TRUE
  /\ byes' = IF disconnectionFlag THEN byes ELSE byes + 1

\* The call: a text, a name or a file, the question before them, or disconnect().
\* The session may have been deleted meanwhile.
Calls ==
  /\ Running /\ main = "calling"
  /\ UNCHANGED process \/ (Freed /\ process' = "crashed")
  /\ \/ /\ key \in {"esc", "bye"}
        /\ main' = IF key = "esc" THEN "leaving" ELSE "waiting"
        /\ SaysGoodbye
     \/ /\ key \in {"text", "answer"}
        /\ main' = "reading"
        /\ UNCHANGED <<disconnectionFlag, byes>>
     \/ /\ key = "ask"
        /\ main' \in {"asking", "reading"}
        /\ UNCHANGED <<disconnectionFlag, byes>>
  /\ UNCHANGED <<key, netVars, ungot, connection, serverGone, sessionEndSignal, historyVars>>

\* askQuestion() of F2 and F4 takes keys until one ends it: any, when there is
\* no connection any more.
Decides ==
  /\ Running /\ main = "asking"
  /\ \E answered \in BOOLEAN :
        /\ answered => connection
        /\ main' = IF answered THEN "loading" ELSE "reading"
        /\ key' = IF answered THEN "answer" ELSE key
  /\ UNCHANGED <<process, netVars, sharedVars, historyVars>>

\* The end of run(): the test of connection_, which is read again for the call.
ChecksOnceMore ==
  /\ MainGoes("leaving", IF connection THEN "loading" ELSE "waiting")
  /\ key' = IF connection THEN "bye" ELSE key
  /\ UNCHANGED <<process, netVars, sharedVars, historyVars>>

WaitsForSession ==
  /\ sessionEndSignal > 0
  /\ MainGoes("waiting", "destroying")
  /\ sessionEndSignal' = sessionEndSignal - 1
  /\ UNCHANGED <<process, key, netVars, ungot, connection, disconnectionFlag, byes,
                 serverGone, historyVars>>

\* ~Client() cancels the network thread.  The session in it has posted the
\* semaphore, and may be before or behind the close() of its destructor, the only
\* place left at which the thread can be canceled.
CancelsThread ==
  /\ MainGoes("destroying", "deleting")
  /\ net' \in {net} \cup (IF net = "posted" THEN {"canceled"} ELSE {})
  /\ UNCHANGED <<process, key, mutexHeld, questions, sharedVars, historyVars>>

\* ~Client() would delete a session that is left, and the process ends.
Destroys ==
  /\ Running /\ main = "deleting"
  /\ process' = IF connection THEN "crashed" ELSE "exited"
  /\ UNCHANGED <<mainVars, netVars, sharedVars, historyVars>>

MainStep ==
  \/ Connects \/ FailsToConnect \/ ReadsKey \/ TriesLock \/ WaitsForLock
  \/ ChecksConnection \/ LoadsConnection \/ Calls \/ Decides
  \/ ChecksOnceMore \/ WaitsForSession \/ CancelsThread \/ Destroys

-----------------------------------------------------------------------------
(* The network thread.                                                     *)

ServerLeaves ==
  /\ Running /\ main # "starting"
  /\ ~serverGone
  /\ serverGone' = TRUE
  /\ UNCHANGED <<process, mainVars, netVars, ungot, connection, disconnectionFlag, byes,
                 sessionEndSignal, historyVars>>

GetsRequest ==
  /\ questions < MaxQuestions
  /\ NetGoes("polling", "locking")
  /\ questions' = questions + 1
  /\ UNCHANGED <<process, mainVars, mutexHeld, sharedVars, historyVars>>

\* The lock, and ungetch( 1 ).
LocksInput ==
  /\ ~mutexHeld
  /\ NetGoes("locking", "question")
  /\ mutexHeld' = TRUE
  /\ ungot' = TRUE
  /\ UNCHANGED <<process, mainVars, questions, connection, disconnectionFlag, byes,
                 serverGone, sessionEndSignal, historyVars>>

\* askQuestion(), of either thread, gets the character put back, which is none.
SkipsPutBack ==
  /\ Running /\ (main = "asking" \/ net \in {"question", "naming"})
  /\ ungot
  /\ ungot' = FALSE
  /\ UNCHANGED <<process, mainVars, netVars, connection, disconnectionFlag, byes,
                 serverGone, sessionEndSignal, historyVars>>

\* The user accepts and is asked for a name, or is done with the questions.
IsAnswered ==
  /\ \/ NetGoes("question", "naming")
     \/ NetGoes("question", "answering")
     \/ NetGoes("naming", "answering")
  /\ UNCHANGED <<process, mainVars, mutexHeld, questions, sharedVars, historyVars>>

\* The answer is queued and the keyboard given back.
GivesBack ==
  /\ NetGoes("answering", "polling")
  /\ mutexHeld' = FALSE
  /\ lost' = 0
  /\ acted' = 0
  /\ UNCHANGED <<process, mainVars, questions, sharedVars>>

\* Mutant of LeavesLoop: connection_ is not cleared.
LeavesLoopFirst ==
  /\ disconnectionFlag \/ serverGone
  /\ NetGoes("polling", "clearing")
  /\ UNCHANGED <<process, mainVars, mutexHeld, questions, sharedVars, historyVars>>

\* The loop is over and the session deletes itself: connectionClosed() clears
\* connection_ ...
LeavesLoop ==
  /\ disconnectionFlag \/ serverGone
  /\ NetGoes("polling", "clearing")
  /\ connection' = FALSE
  /\ UNCHANGED <<process, mainVars, mutexHeld, questions, ungot, disconnectionFlag, byes,
                 serverGone, sessionEndSignal, historyVars>>

\* Mutant of Posts: the signal is only for a run() that has not asked for the end.
PostsUnlessAsked ==
  /\ NetGoes("clearing", "posted")
  /\ sessionEndSignal' = IF disconnectionFlag THEN sessionEndSignal ELSE sessionEndSignal + 1
  /\ UNCHANGED <<process, mainVars, mutexHeld, questions, ungot, connection,
                 disconnectionFlag, byes, serverGone, historyVars>>

\* ... and posts the semaphore.
Posts ==
  /\ NetGoes("clearing", "posted")
  /\ sessionEndSignal' = sessionEndSignal + 1
  /\ UNCHANGED <<process, mainVars, mutexHeld, questions, ungot, connection,
                 disconnectionFlag, byes, serverGone, historyVars>>

\* close(), free() and the end of the thread.
Frees ==
  /\ NetGoes("posted", "over")
  /\ UNCHANGED <<process, mainVars, mutexHeld, questions, sharedVars, historyVars>>

\* The canceled thread unwinds out of its destructor, which a build whose
\* destructors let no exception pass answers by terminating the process.
Unwinds ==
  /\ NetGoes("canceled", "over")
  /\ process' \in {"running", "crashed"}
  /\ UNCHANGED <<mainVars, mutexHeld, questions, sharedVars, historyVars>>

NetStep ==
  \/ LocksInput \/ IsAnswered \/ GivesBack \/ LeavesLoop \/ Posts \/ Frees \/ Unwinds

Next == MainStep \/ NetStep \/ SkipsPutBack \/ ServerLeaves \/ GetsRequest

\* Both threads are scheduled, the user goes on typing, and answers at last.
Fairness ==
  /\ WF_vars(MainStep) /\ WF_vars(Decides)
  /\ WF_vars(NetStep) /\ WF_vars(IsAnswered)

Spec == Init /\ [][Next]_vars /\ Fairness

-----------------------------------------------------------------------------
(* Properties.                                                             *)

\* "Make the run() loop to block while we're asking": of the keys typed during
\* a question run() drops at most one, and begins to act on at most one more,
\* which it had read before; but for a dialog of run()'s own that is open, all the
\* others are the question's.
QuestionHasKeyboard == lost <= 1 /\ acted <= 1

\* The Client is deleted, and its network thread canceled, only when the session
\* has let go of it: connection_ is cleared, the keyboard given back, and the
\* semaphore posted, the last thing the session does with the Client.  The session
\* itself may still be in its destructor.
SessionLetsGoFirst ==
  main \in {"destroying", "deleting"} =>
    /\ ~connection
    /\ ~mutexHeld
    /\ net \in {"none", "posted", "canceled", "over"}

\* run() asks for the disconnection twice, but the server hears one BYE.
OneGoodbye == byes <= 1

\* A client whose user has quit ends, whatever the network thread is at: by a
\* crash, if its session deletes itself while run() calls it, or is canceled.
QuitEnds == disconnectionFlag ~> ~Running

\* A client that has lost its server ends in the same way, given keys: run()
\* waits for one to find out.
LossEnds == serverGone ~> ~Running
=============================================================================
