--------------------------- MODULE ClientUIProofs ---------------------------
(***************************************************************************)
(* What the two threads of a client keep to, for any number of requests.   *)
(***************************************************************************)
EXTENDS ClientUI, TLAPS

\* The keyboard: the lock is held exactly while the network thread asks, and
\* run(), once it has dropped a key, waits; once it has begun to act on one, it does
\* not come to the next.
Keyboard ==
  /\ mutexHeld <=> net \in {"question", "naming", "answering"}
  /\ lost > 0 \/ acted > 0 => mutexHeld
  /\ lost <= 1 /\ (lost = 1 => main = "blocked")
  /\ acted <= 1 /\ (acted = 1 => main # "checking")

\* The end: the semaphore is posted, and connection_ cleared, before main() goes on
\* to delete the Client; the thread exists from connecting on.
Ending ==
  /\ main = "starting" => net = "none"
  /\ net = "none" => main \in {"starting", "destroying", "deleting"}
  /\ net \in {"none", "clearing", "posted", "canceled", "over"} => ~connection
  /\ sessionEndSignal > 0 => net \in {"posted", "canceled", "over"}
  /\ main \in {"destroying", "deleting"} => net \in {"none", "posted", "canceled", "over"}

\* A BYE is queued only together with the flag.
Goodbyes == byes <= 1 /\ (byes = 1 => disconnectionFlag)

UIInv == TypeOK /\ Keyboard /\ Ending /\ Goodbyes

-----------------------------------------------------------------------------

\* The client starts with its variables in their types.
LEMMA InitTypes == Init => TypeOK
<1> SUFFICES ASSUME Init PROVE TypeOK
  OBVIOUS
<1>1. questions \in 0..MaxQuestions BY UIAssumption DEF Init
<1>2. /\ byes \in Nat /\ sessionEndSignal \in Nat
      /\ lost \in Nat /\ acted \in Nat
  BY DEF Init
<1>3. /\ mutexHeld \in BOOLEAN /\ ungot \in BOOLEAN /\ connection \in BOOLEAN
      /\ disconnectionFlag \in BOOLEAN /\ serverGone \in BOOLEAN
  BY DEF Init
<1>4. /\ process \in {"running", "crashed", "exited"}
      /\ main \in MainPlaces /\ key \in Keys \cup {"none", "answer", "bye"} /\ net \in NetPlaces
  BY DEF Init, MainPlaces, NetPlaces
<1> QED BY <1>1, <1>2, <1>3, <1>4 DEF TypeOK

\* main() and run() keep the types.
LEMMA MainTypes ==
  ASSUME TypeOK, MainStep PROVE TypeOK'
<1> USE DEF TypeOK, MainPlaces, NetPlaces, Keys, mainVars, netVars, sharedVars, historyVars,
            MainGoes, Running
<1>1. CASE Connects BY <1>1 DEF Connects
<1>2. CASE FailsToConnect BY <1>2 DEF FailsToConnect
<1>3. CASE ReadsKey BY <1>3 DEF ReadsKey
<1>4. CASE TriesLock BY <1>4 DEF TriesLock
<1>5. CASE WaitsForLock BY <1>5 DEF WaitsForLock
<1>6. CASE ChecksConnection BY <1>6 DEF ChecksConnection
<1>7. CASE LoadsConnection BY <1>7 DEF LoadsConnection
<1>8. CASE Calls
  <2>1. process' \in {"running", "crashed", "exited"} BY <1>8 DEF Calls
  <2>2. main' \in MainPlaces BY <1>8 DEF Calls
  <2>3. disconnectionFlag' \in BOOLEAN BY <1>8 DEF Calls, SaysGoodbye
  <2>4. byes' \in Nat BY <1>8 DEF Calls, SaysGoodbye
  <2>5. UNCHANGED <<key, netVars, ungot, connection, serverGone, sessionEndSignal, historyVars>>
    BY <1>8 DEF Calls
  <2> QED BY <2>1, <2>2, <2>3, <2>4, <2>5
<1>9. CASE Decides BY <1>9 DEF Decides
<1>10. CASE ChecksOnceMore BY <1>10 DEF ChecksOnceMore
<1>11. CASE WaitsForSession BY <1>11 DEF WaitsForSession
<1>12. CASE CancelsThread BY <1>12 DEF CancelsThread
<1>13. CASE Destroys BY <1>13 DEF Destroys
<1> QED BY <1>1, <1>2, <1>3, <1>4, <1>5, <1>6, <1>7, <1>8, <1>9, <1>10, <1>11, <1>12, <1>13
        DEF MainStep

\* The network thread and what reaches it keep the types.
LEMMA NetTypes ==
  ASSUME TypeOK, NetStep \/ SkipsPutBack \/ ServerLeaves \/ GetsRequest PROVE TypeOK'
<1> USE UIAssumption
    DEF TypeOK, MainPlaces, NetPlaces, Keys, mainVars, netVars, sharedVars, historyVars,
        NetGoes, Running
<1>1. CASE LocksInput BY <1>1 DEF LocksInput
<1>2. CASE IsAnswered BY <1>2 DEF IsAnswered
<1>3. CASE GivesBack BY <1>3 DEF GivesBack
<1>4. CASE LeavesLoop BY <1>4 DEF LeavesLoop
<1>5. CASE Posts BY <1>5 DEF Posts
<1>6. CASE Frees BY <1>6 DEF Frees
<1>7. CASE SkipsPutBack BY <1>7 DEF SkipsPutBack
<1>8. CASE ServerLeaves BY <1>8 DEF ServerLeaves
<1>9. CASE GetsRequest BY <1>9 DEF GetsRequest
<1>10. CASE Unwinds BY <1>10 DEF Unwinds
<1> QED BY <1>1, <1>2, <1>3, <1>4, <1>5, <1>6, <1>7, <1>8, <1>9, <1>10 DEF NetStep

-----------------------------------------------------------------------------

\* The client starts with nothing asked, posted or said.
LEMMA InitInv == Init => UIInv
BY InitTypes DEF Init, UIInv, Keyboard, Ending, Goodbyes

\* main() and run() keep the rest of the invariant.
LEMMA MainKeeps ==
  ASSUME UIInv, MainStep PROVE Keyboard' /\ Ending' /\ Goodbyes'
<1> USE DEF UIInv, Keyboard, Ending, Goodbyes, TypeOK, MainPlaces, NetPlaces,
            mainVars, netVars, sharedVars, historyVars, MainGoes, Running
<1>1. CASE Connects BY <1>1 DEF Connects
<1>2. CASE FailsToConnect BY <1>2 DEF FailsToConnect
<1>3. CASE ReadsKey BY <1>3 DEF ReadsKey
<1>4. CASE TriesLock BY <1>4 DEF TriesLock
<1>5. CASE WaitsForLock BY <1>5 DEF WaitsForLock
<1>6. CASE ChecksConnection BY <1>6 DEF ChecksConnection
<1>7. CASE LoadsConnection BY <1>7 DEF LoadsConnection
<1>8. CASE Calls BY <1>8 DEF Calls, SaysGoodbye
<1>9. CASE Decides BY <1>9 DEF Decides
<1>10. CASE ChecksOnceMore BY <1>10 DEF ChecksOnceMore
<1>11. CASE WaitsForSession BY <1>11 DEF WaitsForSession
<1>12. CASE CancelsThread BY <1>12 DEF CancelsThread
<1>13. CASE Destroys BY <1>13 DEF Destroys
<1> QED BY <1>1, <1>2, <1>3, <1>4, <1>5, <1>6, <1>7, <1>8, <1>9, <1>10, <1>11, <1>12, <1>13
        DEF MainStep

\* So does the network thread.
LEMMA NetKeeps ==
  ASSUME UIInv, NetStep \/ SkipsPutBack \/ ServerLeaves \/ GetsRequest
  PROVE  Keyboard' /\ Ending' /\ Goodbyes'
<1> USE DEF UIInv, Keyboard, Ending, Goodbyes, TypeOK, MainPlaces, NetPlaces,
            mainVars, netVars, sharedVars, historyVars, NetGoes, Running
<1>1. CASE LocksInput BY <1>1 DEF LocksInput
<1>2. CASE IsAnswered BY <1>2 DEF IsAnswered
<1>3. CASE GivesBack BY <1>3 DEF GivesBack
<1>4. CASE LeavesLoop BY <1>4 DEF LeavesLoop
<1>5. CASE Posts BY <1>5 DEF Posts
<1>6. CASE Frees BY <1>6 DEF Frees
<1>7. CASE SkipsPutBack BY <1>7 DEF SkipsPutBack
<1>8. CASE ServerLeaves BY <1>8 DEF ServerLeaves
<1>9. CASE GetsRequest BY <1>9 DEF GetsRequest
<1>10. CASE Unwinds BY <1>10 DEF Unwinds
<1> QED BY <1>1, <1>2, <1>3, <1>4, <1>5, <1>6, <1>7, <1>8, <1>9, <1>10 DEF NetStep

\* Every step keeps the invariant.
LEMMA StepInv == UIInv /\ [Next]_vars => UIInv'
<1> SUFFICES ASSUME UIInv, [Next]_vars PROVE UIInv'
  OBVIOUS
<1>1. CASE MainStep BY <1>1, MainTypes, MainKeeps DEF UIInv
<1>2. CASE NetStep \/ SkipsPutBack \/ ServerLeaves \/ GetsRequest
  BY <1>2, NetTypes, NetKeeps DEF UIInv
<1>3. CASE UNCHANGED vars
  BY <1>3 DEF UIInv, TypeOK, Keyboard, Ending, Goodbyes,
              vars, mainVars, netVars, sharedVars, historyVars
<1> QED BY <1>1, <1>2, <1>3 DEF Next

\* The invariant holds of every client.
LEMMA AlwaysUIInv == Spec => []UIInv
BY InitInv, StepInv, PTL DEF Spec

-----------------------------------------------------------------------------

\* Every variable of the client keeps its type.
THEOREM TypesHold == Spec => []TypeOK
<1>1. UIInv => TypeOK BY DEF UIInv
<1> QED BY <1>1, AlwaysUIInv, PTL

\* The question of the network thread has the keyboard: run() drops at most one
\* key, and acts on at most one it had read before, however many the user types.
THEOREM KeyboardIsTheQuestions == Spec => []QuestionHasKeyboard
<1>1. UIInv => QuestionHasKeyboard BY DEF UIInv, Keyboard, QuestionHasKeyboard
<1> QED BY <1>1, AlwaysUIInv, PTL

\* connectionClosed() and the semaphore: neither the deletion of the Client nor
\* pthread_cancel() finds the network thread at a place where it still uses the
\* Client or holds inputMutex_.
THEOREM SessionLetsGo == Spec => []SessionLetsGoFirst
<1>1. UIInv => SessionLetsGoFirst
  BY DEF UIInv, Keyboard, Ending, SessionLetsGoFirst
<1> QED BY <1>1, AlwaysUIInv, PTL

\* The server hears at most one BYE.
THEOREM GoodbyeOnce == Spec => []OneGoodbye
<1>1. UIInv => OneGoodbye BY DEF UIInv, Goodbyes, OneGoodbye
<1> QED BY <1>1, AlwaysUIInv, PTL
=============================================================================
