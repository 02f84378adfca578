------------------------------ MODULE Registry ------------------------------
(***************************************************************************)
(* The sessions the server holds, and the end of the server: sessions_, a  *)
(* std::map ordered by address, which addSession() and removeSession()     *)
(* change under accessMutex_ and everybody else walks over without it; and *)
(* main(), which waits for a signal and then has ~Server() walk over the   *)
(* map as well, tell each session to disconnect and join its thread.       *)
(*                                                                         *)
(* While the mutex is held the tree is being rebuilt.  A thread that reads *)
(* it then, or goes on from a node that has been erased, does something    *)
(* C++ leaves undefined: it arrives at any node, at the end, or crashes.   *)
(***************************************************************************)
EXTENDS Naturals

CONSTANTS Clients,    \* the sessions, each a connection of its own
          Address,    \* where each SessionClient is: the order of sessions_
          NoClient,   \* no session: the mutex is free, the walk at its end
          Listener,   \* the listening thread as holder of the mutex
          Walkers,    \* those whose clients send anything (a bound)
          MaxSignals  \* signals sent to the server (a bound)

ASSUME RegistryAssumption ==
  /\ NoClient \notin Clients
  /\ Listener \notin Clients \cup {NoClient}
  /\ Address \in [Clients -> Nat]
  /\ \A c, d \in Clients : Address[c] = Address[d] => c = d
  /\ Walkers \subseteq Clients
  /\ MaxSignals \in Nat

VARIABLES
  process,       \* "running", or how the server ended
  sessions,      \* the keys of sessions_
  mutex,         \* who holds accessMutex_
  newcomer,      \* the session addSession() has yet to register
  listening,     \* listenThread_ is in its loop
  pc,            \* what the session's thread does
  leaving,       \* disconnectionFlag_, or its client has gone
  at,            \* where the walk of the session's thread is
  disturbed,     \* what the walk does has become undefined
  present,       \* in sessions_ ever since the walk began (a history)
  met,           \* how often the walk has come by each (a history)
  mainAt,        \* what main() does
  mainIt,        \* the iterator of ~Server()
  quitSignal,    \* the semaphore main() waits for
  signals        \* how many signals have come

walkVars == <<at, disturbed, present, met>>
mainVars == <<mainAt, mainIt, quitSignal, signals>>
vars == <<process, sessions, mutex, newcomer, listening, pc, leaving, walkVars,
          mainVars>>

\* "over" is a thread that has ended and can be joined.
Places == {"none", "idle", "visiting", "advancing", "erasing", "over"}

TypeOK ==
  /\ process \in {"running", "fatal", "crashed", "exited"}
  /\ sessions \in SUBSET Clients
  /\ mutex \in Clients \cup {Listener, NoClient}
  /\ newcomer \in Clients \cup {NoClient}
  /\ listening \in BOOLEAN
  /\ pc \in [Clients -> Places]
  /\ leaving \in [Clients -> BOOLEAN]
  /\ at \in [Clients -> Clients \cup {NoClient}]
  /\ disturbed \in [Clients -> BOOLEAN]
  /\ present \in [Clients -> SUBSET Clients]
  /\ met \in [Clients -> [Clients -> Nat]]
  /\ mainAt \in {"starting", "started", "waiting", "emptying", "telling",
                 "asking", "joining", "done"}
  /\ mainIt \in Clients \cup {NoClient}
  /\ quitSignal \in BOOLEAN
  /\ signals \in 0..MaxSignals

NobodyMet == [p \in Clients |-> 0]

Init ==
  /\ process = "running"
  /\ sessions = {}
  /\ mutex = NoClient
  /\ newcomer = NoClient
  /\ listening = FALSE
  /\ pc = [c \in Clients |-> "none"]
  /\ leaving = [c \in Clients |-> FALSE]
  /\ at = [c \in Clients |-> NoClient]
  /\ disturbed = [c \in Clients |-> FALSE]
  /\ present = [c \in Clients |-> {}]
  /\ met = [c \in Clients |-> NobodyMet]
  /\ mainAt = "starting"
  /\ mainIt = NoClient
  /\ quitSignal = FALSE
  /\ signals = 0

Running == process = "running"
Free == mutex = NoClient

\* Where begin() or ++ arrives when the nodes still to come are those of rest.
Lowest(rest) ==
  IF rest = {} THEN {NoClient}
  ELSE {p \in rest : \A q \in rest : Address[p] <= Address[q]}

\* Mutant of Rest: the walk starts again at its first node.
RestFromBegin(p) == {q \in sessions : q # p}

Rest(p) == {q \in sessions : Address[p] < Address[q]}

\* Where undefined behaviour may lead an iterator.
Anywhere == Clients \cup {NoClient}

Ends(how) == process' = how

-----------------------------------------------------------------------------
(* The listening thread.                                                   *)

\* accept(), and addSession() up to pthread_create().
Accept(c) ==
  /\ Running /\ listening
  /\ newcomer = NoClient
  /\ pc[c] = "none"
  /\ newcomer' = c
  /\ pc' = [pc EXCEPT ![c] = "idle"]
  /\ UNCHANGED <<process, sessions, mutex, listening, leaving, walkVars, mainVars>>

LockToRegister ==
  /\ Running /\ newcomer # NoClient /\ Free
  /\ mutex' = Listener
  /\ UNCHANGED <<process, sessions, newcomer, listening, pc, leaving, walkVars,
                 mainVars>>

Register ==
  /\ Running /\ mutex = Listener
  /\ sessions' = sessions \cup {newcomer}
  /\ newcomer' = NoClient
  /\ mutex' = NoClient
  /\ UNCHANGED <<process, listening, pc, leaving, walkVars, mainVars>>

-----------------------------------------------------------------------------
(* A session's thread: its walks.                                          *)

Walking(c) == pc[c] \in {"visiting", "advancing"}

\* The handlers that walk begin with findSession() and begin().
BeginWalk(c) ==
  /\ Running /\ pc[c] = "idle" /\ c \in Walkers
  /\ c \in sessions /\ Free
  /\ \E first \in Lowest(sessions) : at' = [at EXCEPT ![c] = first]
  /\ pc' = [pc EXCEPT ![c] = "visiting"]
  /\ present' = [present EXCEPT ![c] = sessions]
  /\ UNCHANGED <<process, sessions, mutex, newcomer, listening, leaving, disturbed, met,
                 mainVars>>

\* The walk of c has lost its way.
Disturbed(c) ==
  \/ Ends("crashed") /\ UNCHANGED <<pc, walkVars>>
  \/ /\ disturbed' = [disturbed EXCEPT ![c] = TRUE]
     /\ present' = [present EXCEPT ![c] = {}]
     /\ met' = [met EXCEPT ![c] = NobodyMet]
     /\ \E p \in Anywhere : at' = [at EXCEPT ![c] = p]
     /\ pc' = [pc EXCEPT ![c] = "visiting"]
     /\ UNCHANGED process

\* The same while the tree is being rebuilt: c may also seem to be unknown.
BeginWalkInRace(c) ==
  /\ Running /\ pc[c] = "idle" /\ c \in Walkers
  /\ c \in sessions /\ ~Free
  /\ \/ Disturbed(c)
     \/ Ends("fatal") /\ UNCHANGED <<pc, walkVars>>
  /\ UNCHANGED <<sessions, mutex, newcomer, listening, leaving, mainVars>>

\* findSession() of a session that is not registered: Common::fatal().
WalkUnknown(c) ==
  /\ Running /\ pc[c] = "idle" /\ c \in Walkers
  /\ c \notin sessions
  /\ Ends("fatal")
  /\ UNCHANGED <<sessions, mutex, newcomer, listening, pc, leaving, walkVars,
                 mainVars>>

\* The body of the loop: the session is looked at, or sent a message.
Visit(c) ==
  /\ Running /\ pc[c] = "visiting"
  /\ at[c] # NoClient
  /\ IF at[c] \in sessions
     THEN /\ met' = IF disturbed[c] THEN met ELSE [met EXCEPT ![c][at[c]] = @ + 1]
          /\ pc' = [pc EXCEPT ![c] = "advancing"]
          /\ UNCHANGED <<process, at, disturbed, present>>
     ELSE Disturbed(c)
  /\ UNCHANGED <<sessions, mutex, newcomer, listening, leaving, mainVars>>

\* it++.
Advance(c) ==
  /\ Running /\ pc[c] = "advancing"
  /\ IF at[c] \in sessions /\ Free
     THEN /\ \E next \in Lowest(Rest(at[c])) : at' = [at EXCEPT ![c] = next]
          /\ pc' = [pc EXCEPT ![c] = "visiting"]
          /\ UNCHANGED <<process, disturbed, present, met>>
     ELSE Disturbed(c)
  /\ UNCHANGED <<sessions, mutex, newcomer, listening, leaving, mainVars>>

EndWalk(c) ==
  /\ Running /\ pc[c] = "visiting"
  /\ at[c] = NoClient
  /\ pc' = [pc EXCEPT ![c] = "idle"]
  /\ disturbed' = [disturbed EXCEPT ![c] = FALSE]
  /\ present' = [present EXCEPT ![c] = {}]
  /\ met' = [met EXCEPT ![c] = NobodyMet]
  /\ UNCHANGED <<process, sessions, mutex, newcomer, listening, leaving, at, mainVars>>

\* return or break: the session looked at has the name asked for, or has not
\* answered yet.
LeavesWalk(c) ==
  /\ Running /\ pc[c] = "advancing"
  /\ pc' = [pc EXCEPT ![c] = "idle"]
  /\ at' = [at EXCEPT ![c] = NoClient]
  /\ disturbed' = [disturbed EXCEPT ![c] = FALSE]
  /\ present' = [present EXCEPT ![c] = {}]
  /\ met' = [met EXCEPT ![c] = NobodyMet]
  /\ UNCHANGED <<process, sessions, mutex, newcomer, listening, leaving, mainVars>>

-----------------------------------------------------------------------------
(* A session's thread: its end.                                            *)

\* Its client closes, or vanishes.
Hangup(c) ==
  /\ Running /\ pc[c] \notin {"none", "over"}
  /\ ~leaving[c]
  /\ leaving' = [leaving EXCEPT ![c] = TRUE]
  /\ UNCHANGED <<process, sessions, mutex, newcomer, listening, pc, walkVars,
                 mainVars>>

\* pollForData() has left its loop; removeSession() locks the mutex.
LockToRemove(c) ==
  /\ Running /\ pc[c] = "idle"
  /\ leaving[c] /\ Free
  /\ mutex' = c
  /\ pc' = [pc EXCEPT ![c] = "erasing"]
  /\ UNCHANGED <<process, sessions, newcomer, listening, leaving, walkVars, mainVars>>

\* Mutant of Remove: the node is erased, but the mutex kept.
RemoveKeepingMutex(c) ==
  /\ Running /\ pc[c] = "erasing"
  /\ sessions' = sessions \ {c}
  /\ present' = [w \in Clients |-> present[w] \ {c}]
  /\ pc' = [pc EXCEPT ![c] = "over"]
  /\ UNCHANGED <<process, mutex, newcomer, listening, leaving, at, disturbed, met,
                 mainVars>>

\* Mutant of Remove: the thread does not end, and has another message to read.
RemoveAndGoOn(c) ==
  /\ Running /\ pc[c] = "erasing"
  /\ sessions' = sessions \ {c}
  /\ present' = [w \in Clients |-> present[w] \ {c}]
  /\ mutex' = NoClient
  /\ pc' = [pc EXCEPT ![c] = "idle"]
  /\ UNCHANGED <<process, newcomer, listening, leaving, at, disturbed, met, mainVars>>

\* An unknown session is fatal.  Otherwise its node is erased, the mutex
\* unlocked, the session freed, and its thread ends.
Remove(c) ==
  /\ Running /\ pc[c] = "erasing"
  /\ IF c \notin sessions
     THEN Ends("fatal") /\ UNCHANGED <<sessions, mutex, pc, present>>
     ELSE /\ sessions' = sessions \ {c}
          /\ present' = [w \in Clients |-> present[w] \ {c}]
          /\ mutex' = NoClient
          /\ pc' = [pc EXCEPT ![c] = "over"]
          /\ UNCHANGED process
  /\ UNCHANGED <<newcomer, listening, leaving, at, disturbed, met, mainVars>>

\* What the thread of c does by itself.
ThreadStep(c) ==
  \/ BeginWalk(c) \/ BeginWalkInRace(c) \/ WalkUnknown(c)
  \/ Visit(c) \/ Advance(c) \/ EndWalk(c) \/ LeavesWalk(c)
  \/ LockToRemove(c) \/ Remove(c)

-----------------------------------------------------------------------------
(* main() and ~Server().                                                   *)

\* handleSignal().
Signal ==
  /\ Running /\ signals < MaxSignals
  /\ signals' = signals + 1
  /\ quitSignal' = TRUE
  /\ UNCHANGED <<process, sessions, mutex, newcomer, listening, pc, leaving,
                 walkVars, mainAt, mainIt>>

\* The rest of a step of main() that touches nothing but its own.
MainGoes(from, to) ==
  /\ Running /\ mainAt = from
  /\ mainAt' = to
  /\ UNCHANGED <<sessions, mutex, newcomer, pc, walkVars, signals>>

\* initialize(), after which the listening thread runs ...
MainInitializes ==
  /\ MainGoes("starting", "started")
  /\ listening' = TRUE
  /\ UNCHANGED <<process, leaving, mainIt, quitSignal>>

\* ... or could not be started: ~Server() cancels a thread there is not.
MainFails ==
  /\ MainGoes("starting", "done")
  /\ \E end \in {"crashed", "exited"} : Ends(end)
  /\ UNCHANGED <<listening, leaving, mainIt, quitSignal>>

\* The second sem_init(): a signal that came before is forgotten.
MainListens ==
  /\ MainGoes("started", "waiting")
  /\ quitSignal' = FALSE
  /\ UNCHANGED <<process, listening, leaving, mainIt>>

MainWakes ==
  /\ quitSignal
  /\ MainGoes("waiting", "emptying")
  /\ quitSignal' = FALSE
  /\ UNCHANGED <<process, listening, leaving, mainIt>>

\* The loop of ~Server() goes on at it, or has come to the end of the map.
GoesOnAt(from, it) ==
  /\ MainGoes(from, IF it = NoClient THEN "emptying" ELSE "telling")
  /\ mainIt' = it

\* while( sessions_.size() > 0 ), and begin().
MainBegins ==
  /\ sessions # {}
  /\ \E it \in IF Free THEN Lowest(sessions) ELSE Anywhere : GoesOnAt("emptying", it)
  /\ UNCHANGED <<process, listening, leaving, quitSignal>>

\* The session's disconnect().
MainTells ==
  /\ MainGoes("telling", "asking")
  /\ IF mainIt \in sessions
     THEN leaving' = [leaving EXCEPT ![mainIt] = TRUE] /\ UNCHANGED process
     ELSE Ends("crashed") /\ UNCHANGED leaving
  /\ UNCHANGED <<listening, mainIt, quitSignal>>

\* Its thread is looked up in its SessionData, which may have been freed.
MainAsks ==
  /\ MainGoes("asking", "joining")
  /\ UNCHANGED process \/ (mainIt \notin sessions /\ Ends("crashed"))
  /\ UNCHANGED <<listening, leaving, mainIt, quitSignal>>

\* pthread_join() returns: the thread has erased the very node the iterator is
\* at, and it++ is undefined whatever happens.
MainJoins ==
  /\ mainAt = "joining" /\ pc[mainIt] = "over"
  /\ \/ (\E it \in Anywhere : GoesOnAt("joining", it)) /\ UNCHANGED process
     \/ MainGoes("joining", "joining") /\ Ends("crashed") /\ UNCHANGED mainIt
  /\ UNCHANGED <<listening, leaving, quitSignal>>

\* The loop has found no session: the listening thread is canceled, main()
\* returns, and whatever threads there are end with the process.
MainEnds ==
  /\ sessions = {}
  /\ MainGoes("emptying", "done")
  /\ listening' = FALSE
  /\ Ends("exited")
  /\ UNCHANGED <<leaving, mainIt, quitSignal>>

MainStep ==
  \/ MainInitializes \/ MainFails \/ MainListens \/ MainWakes \/ MainBegins
  \/ MainTells \/ MainAsks \/ MainJoins \/ MainEnds

Next ==
  \/ Signal \/ LockToRegister \/ Register \/ MainStep
  \/ \E c \in Clients : Accept(c) \/ Hangup(c) \/ ThreadStep(c)

\* Every thread is scheduled, walks come to an end, and a mutex that is free
\* again and again is had in the end by everybody who waits for it.
Fairness ==
  /\ WF_vars(MainStep) /\ SF_vars(LockToRegister) /\ WF_vars(Register)
  /\ \A c \in Clients :
        /\ WF_vars(Visit(c) \/ Advance(c) \/ EndWalk(c) \/ Remove(c))
        /\ SF_vars(LockToRemove(c))

Spec == Init /\ [][Next]_vars /\ Fairness

-----------------------------------------------------------------------------
(* Properties.                                                             *)

\* The walks, mapped to what they promise.
Promised ==
  INSTANCE Broadcast WITH
    Everybody <- Clients,
    members <- sessions,
    walkers <- {c \in Clients : Walking(c) /\ ~disturbed[c]},
    owed <- [c \in Clients |-> {p \in present[c] : met[c][p] = 0}],
    met <- met

\* A walk over sessions_, which takes no lock, comes by every session that is
\* registered while it lasts, and by none twice, if no node under it is erased
\* and none is added or erased in the moment it moves on: a text reaches
\* everybody, once.
ImplementsBroadcast == Promised!BroadcastSpec

\* accessMutex_ is held by nobody but who is adding or removing a session, and
\* by nobody whose thread has ended: it is never left locked.
HolderAtWork ==
  /\ mutex = Listener => newcomer # NoClient
  /\ \A c \in Clients : mutex = c <=> pc[c] = "erasing"

\* A session can be unknown to the server, which is fatal, only because of
\* addSession(), which starts the thread before it has registered the session,
\* or because somebody is changing the map; never because it was removed.
UnknownOnlyInARace ==
  [][process' = "fatal" => newcomer # NoClient \/ ~Free]_vars

\* A server that waits and is signalled ends, however many sessions there are
\* and whatever they are at, unless a walk has gone astray meanwhile.
QuitsWhenTold ==
  mainAt = "waiting" /\ quitSignal
    ~> ~Running \/ \E c \in Clients : Walking(c) /\ disturbed[c]
=============================================================================
