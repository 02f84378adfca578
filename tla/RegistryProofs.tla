--------------------------- MODULE RegistryProofs ---------------------------
(***************************************************************************)
(* The walks over sessions_ keep the promise of module Broadcast, for any  *)
(* number of sessions, of walks and any order in memory.                   *)
(***************************************************************************)
EXTENDS Registry, TLAPS

\* A thread that runs and is not registered is the newcomer's.
UnknownIsNewcomer ==
  \A c \in Clients :
    pc[c] \notin {"none", "over"} /\ c \notin sessions => newcomer = c

\* What a walk of c has yet to come by lies ahead of it, what it has come by
\* lies behind.
Ahead(c) ==
  /\ at[c] = NoClient => \A p \in present[c] : met[c][p] # 0
  /\ at[c] # NoClient =>
       /\ \A p \in present[c] : met[c][p] = 0 => Address[at[c]] <= Address[p]
       /\ \A p \in Clients : met[c][p] # 0 => Address[p] < Address[at[c]]

JustMet(c) ==
  /\ at[c] # NoClient
  /\ \A p \in present[c] : met[c][p] = 0 => Address[at[c]] < Address[p]
  /\ \A p \in Clients : met[c][p] # 0 => Address[p] <= Address[at[c]]

OnItsWay(c) ==
  /\ present[c] \subseteq sessions
  /\ ~Walking(c) => ~disturbed[c]
  /\ ~Walking(c) \/ disturbed[c] => present[c] = {} /\ met[c] = NobodyMet
  /\ pc[c] = "visiting" /\ ~disturbed[c] => Ahead(c)
  /\ pc[c] = "advancing" /\ ~disturbed[c] => JustMet(c)

IInv ==
  /\ TypeOK
  /\ HolderAtWork
  /\ UnknownIsNewcomer
  /\ \A c \in Clients : OnItsWay(c)

-----------------------------------------------------------------------------
(* Lemmas.                                                                 *)

\* begin() and ++ arrive at the lowest of the nodes to come, or at the end.
LEMMA LowestIsFirst ==
  ASSUME NEW rest \in SUBSET Clients, NEW x \in Lowest(rest)
  PROVE  /\ x \in Clients \cup {NoClient}
         /\ x = NoClient => rest = {}
         /\ x # NoClient => x \in rest /\ \A q \in rest : Address[x] <= Address[q]
BY RegistryAssumption DEF Lowest

\* A walk is not led astray by what does not touch its place.
LEMMA KeepsItsWay ==
  ASSUME IInv, NEW w \in Clients,
         pc'[w] = pc[w] \/ ~(Walking(w) \/ Walking(w)'),
         at'[w] = at[w], disturbed'[w] = disturbed[w], met'[w] = met[w],
         present'[w] \subseteq present[w], present'[w] \subseteq sessions'
  PROVE  OnItsWay(w)'
<1>1. OnItsWay(w)
  BY DEF IInv
<1> QED
  BY <1>1 DEF OnItsWay, Walking, Ahead, JustMet, NobodyMet

\* An action that leaves the walks and the sessions alone.
LEMMA WalksUntouched ==
  ASSUME IInv, UNCHANGED <<sessions, walkVars>>,
         \A w \in Clients : pc'[w] = pc[w] \/ ~(Walking(w) \/ Walking(w)')
  PROVE  \A w \in Clients : OnItsWay(w)'
<1> SUFFICES ASSUME NEW w \in Clients PROVE OnItsWay(w)'
  OBVIOUS
<1>1. OnItsWay(w)
  BY DEF IInv
<1> QED
  BY <1>1, KeepsItsWay DEF walkVars, OnItsWay

\* A walk that has become undefined owes nothing.
LEMMA DisturbedKeeps ==
  ASSUME IInv, NEW c \in Clients, Disturbed(c),
         UNCHANGED <<sessions, mutex, newcomer, listening, leaving, mainVars>>,
         Walking(c) \/ (pc[c] = "idle" /\ c \in sessions)
  PROVE  IInv'
<1>1. TypeOK'
  <2>1. CASE Ends("crashed") /\ UNCHANGED <<pc, walkVars>>
    BY <2>1 DEF IInv, TypeOK, Ends, walkVars, mainVars
  <2>2. CASE ~(Ends("crashed") /\ UNCHANGED <<pc, walkVars>>)
    <3>1. met' = [met EXCEPT ![c] = NobodyMet] /\ NobodyMet \in [Clients -> Nat]
      BY <2>2 DEF Disturbed, NobodyMet
    <3>2. met' \in [Clients -> [Clients -> Nat]]
      BY <3>1 DEF IInv, TypeOK
    <3>3. at' \in [Clients -> Clients \cup {NoClient}]
      BY <2>2 DEF Disturbed, IInv, TypeOK, Anywhere
    <3>4. pc' \in [Clients -> Places]
      BY <2>2 DEF Disturbed, IInv, TypeOK, Places
    <3>5. present' \in [Clients -> SUBSET Clients]
      BY <2>2 DEF Disturbed, IInv, TypeOK
    <3>6. disturbed' \in [Clients -> BOOLEAN]
      BY <2>2 DEF Disturbed, IInv, TypeOK
    <3>7. process' = process
      BY <2>2 DEF Disturbed
    <3> QED
      BY <3>2, <3>3, <3>4, <3>5, <3>6, <3>7 DEF IInv, TypeOK, mainVars
  <2> QED
    BY <2>1, <2>2
<1>2. HolderAtWork' /\ UnknownIsNewcomer'
  BY DEF IInv, TypeOK, HolderAtWork, UnknownIsNewcomer, Disturbed, Walking, walkVars
<1>3. ASSUME NEW w \in Clients PROVE OnItsWay(w)'
  <2> OnItsWay(w)
    BY DEF IInv
  <2>1. CASE UNCHANGED <<pc, walkVars>>
    BY <2>1, KeepsItsWay DEF walkVars, OnItsWay
  <2>2. CASE ~UNCHANGED <<pc, walkVars>> /\ w = c
    BY <2>2 DEF IInv, TypeOK, Disturbed, OnItsWay, Walking
  <2>3. CASE ~UNCHANGED <<pc, walkVars>> /\ w # c
    <3>1. /\ pc'[w] = pc[w] /\ at'[w] = at[w] /\ disturbed'[w] = disturbed[w]
          /\ met'[w] = met[w] /\ present'[w] = present[w]
      BY <2>3 DEF IInv, TypeOK, Disturbed
    <3> QED
      BY <3>1, KeepsItsWay DEF OnItsWay
  <2> QED
    BY <2>1, <2>2, <2>3
<1> QED
  BY <1>1, <1>2, <1>3 DEF IInv

\* What is new about one walk leaves the others alone.
LEMMA OthersKeepTheirWay ==
  ASSUME IInv, NEW c \in Clients, OnItsWay(c)', sessions' = sessions,
         \A w \in Clients \ {c} :
            /\ pc'[w] = pc[w] /\ at'[w] = at[w] /\ disturbed'[w] = disturbed[w]
            /\ met'[w] = met[w] /\ present'[w] = present[w]
  PROVE  \A w \in Clients : OnItsWay(w)'
<1> SUFFICES ASSUME NEW w \in Clients \ {c} PROVE OnItsWay(w)'
  OBVIOUS
<1>1. OnItsWay(w)
  BY DEF IInv
<1> QED
  BY <1>1, KeepsItsWay DEF OnItsWay

-----------------------------------------------------------------------------
(* The invariant.                                                          *)

LEMMA InitInv == Init => IInv
<1> SUFFICES ASSUME Init PROVE IInv
  OBVIOUS
<1>1. TypeOK
  <2>1. NobodyMet \in [Clients -> Nat]
    BY DEF NobodyMet
  <2>2. met \in [Clients -> [Clients -> Nat]]
    BY <2>1 DEF Init
  <2>3. /\ pc \in [Clients -> Places] /\ present \in [Clients -> SUBSET Clients]
        /\ at \in [Clients -> Clients \cup {NoClient}]
    BY DEF Init, Places
  <2>4. leaving \in [Clients -> BOOLEAN] /\ disturbed \in [Clients -> BOOLEAN]
    BY DEF Init
  <2>5. signals \in 0..MaxSignals
    BY RegistryAssumption DEF Init
  <2> QED
    BY <2>2, <2>3, <2>4, <2>5 DEF Init, TypeOK
<1>2. HolderAtWork /\ UnknownIsNewcomer
  BY RegistryAssumption DEF Init, HolderAtWork, UnknownIsNewcomer
<1>3. \A c \in Clients : OnItsWay(c)
  BY DEF Init, OnItsWay, Walking
<1> QED
  BY <1>1, <1>2, <1>3 DEF IInv

\* The listening thread.
LEMMA ListenerInv ==
  ASSUME IInv, (\E c \in Clients : Accept(c)) \/ LockToRegister \/ Register
  PROVE  IInv'
<1>1. ASSUME NEW c \in Clients, Accept(c) PROVE IInv'
  <2>1. TypeOK'
    BY <1>1 DEF Accept, IInv, TypeOK, mainVars, walkVars, Places
  <2>2. HolderAtWork' /\ UnknownIsNewcomer'
    BY <1>1, RegistryAssumption
    DEF Accept, IInv, TypeOK, HolderAtWork, UnknownIsNewcomer
  <2>3. \A w \in Clients : OnItsWay(w)'
    BY <1>1, WalksUntouched DEF Accept, IInv, TypeOK, Walking
  <2> QED
    BY <2>1, <2>2, <2>3 DEF IInv
<1>2. ASSUME LockToRegister PROVE IInv'
  <2>1. TypeOK' /\ HolderAtWork' /\ UnknownIsNewcomer'
    BY <1>2, RegistryAssumption
    DEF LockToRegister, IInv, TypeOK, HolderAtWork, UnknownIsNewcomer, Free, mainVars,
        walkVars
  <2>2. \A w \in Clients : OnItsWay(w)'
    BY <1>2, WalksUntouched DEF LockToRegister
  <2> QED
    BY <2>1, <2>2 DEF IInv
<1>3. ASSUME Register PROVE IInv'
  <2>1. newcomer \in Clients
    BY <1>3 DEF Register, IInv, TypeOK, HolderAtWork
  <2>2. TypeOK' /\ HolderAtWork' /\ UnknownIsNewcomer'
    BY <1>3, <2>1, RegistryAssumption
    DEF Register, IInv, TypeOK, HolderAtWork, UnknownIsNewcomer, mainVars, walkVars
  <2>3. ASSUME NEW w \in Clients PROVE OnItsWay(w)'
    <3>1. OnItsWay(w)
      BY DEF IInv
    <3> QED
      BY <1>3, <3>1, KeepsItsWay DEF Register, OnItsWay, walkVars
  <2> QED
    BY <2>2, <2>3 DEF IInv
<1> QED
  BY <1>1, <1>2, <1>3

\* A walk of c.
LEMMA WalkInv ==
  ASSUME IInv, NEW c \in Clients,
         \/ BeginWalk(c) \/ BeginWalkInRace(c) \/ WalkUnknown(c)
         \/ Visit(c) \/ Advance(c) \/ EndWalk(c) \/ LeavesWalk(c)
  PROVE  IInv'
<1>c. OnItsWay(c)
  BY DEF IInv
<1>1. CASE BeginWalk(c)
  <2>1. PICK first \in Lowest(sessions) : at' = [at EXCEPT ![c] = first]
    BY <1>1 DEF BeginWalk
  <2>2. first \in sessions /\ \A q \in sessions : Address[first] <= Address[q]
    BY <1>1, <2>1, LowestIsFirst DEF BeginWalk, IInv, TypeOK
  <2>3. TypeOK'
    BY <1>1, <2>1, <2>2 DEF BeginWalk, IInv, TypeOK, Places, mainVars
  <2>4. HolderAtWork' /\ UnknownIsNewcomer'
    BY <1>1 DEF BeginWalk, IInv, TypeOK, HolderAtWork, UnknownIsNewcomer
  <2>5. OnItsWay(c)'
    <3>1. ~disturbed'[c] /\ met'[c] = NobodyMet /\ ~Walking(c)
      BY <1>1, <1>c DEF BeginWalk, OnItsWay, Walking
    <3>2. pc'[c] = "visiting" /\ present'[c] = sessions /\ at'[c] = first
      BY <1>1, <2>1 DEF BeginWalk, IInv, TypeOK
    <3>3. first # NoClient
      BY <2>2, RegistryAssumption DEF IInv, TypeOK
    <3> QED
      BY <1>1, <2>2, <3>1, <3>2, <3>3
      DEF BeginWalk, OnItsWay, Walking, Ahead, NobodyMet
  <2>6. \A w \in Clients : OnItsWay(w)'
    BY <1>1, <2>1, <2>5, OthersKeepTheirWay DEF BeginWalk, IInv, TypeOK
  <2> QED
    BY <2>3, <2>4, <2>6 DEF IInv
<1>2. CASE BeginWalkInRace(c)
  <2>1. CASE Disturbed(c)
    BY <1>2, <2>1, DisturbedKeeps DEF BeginWalkInRace
  <2>2. CASE Ends("fatal") /\ UNCHANGED <<pc, walkVars>>
    <3>1. TypeOK' /\ HolderAtWork' /\ UnknownIsNewcomer'
      BY <1>2, <2>2
      DEF BeginWalkInRace, Ends, IInv, TypeOK, HolderAtWork, UnknownIsNewcomer, mainVars,
          walkVars
    <3>2. \A w \in Clients : OnItsWay(w)'
      BY <1>2, <2>2, WalksUntouched DEF BeginWalkInRace
    <3> QED
      BY <3>1, <3>2 DEF IInv
  <2> QED
    BY <1>2, <2>1, <2>2 DEF BeginWalkInRace
<1>3. CASE WalkUnknown(c)
  <2>1. TypeOK' /\ HolderAtWork' /\ UnknownIsNewcomer'
    BY <1>3
    DEF WalkUnknown, Ends, IInv, TypeOK, HolderAtWork, UnknownIsNewcomer, mainVars,
        walkVars
  <2>2. \A w \in Clients : OnItsWay(w)'
    BY <1>3, WalksUntouched DEF WalkUnknown
  <2> QED
    BY <2>1, <2>2 DEF IInv
<1>4. CASE Visit(c)
  <2>1. CASE at[c] \notin sessions
    BY <1>4, <2>1, DisturbedKeeps DEF Visit, Walking
  <2>2. CASE at[c] \in sessions
    <3> DEFINE p == at[c]
    <3>1. p \in Clients /\ p # NoClient
      BY <1>4, <2>2 DEF Visit, IInv, TypeOK
    <3>2. /\ met[c] \in [Clients -> Nat]
          /\ met'[c] = IF disturbed[c] THEN met[c] ELSE [met[c] EXCEPT ![p] = @ + 1]
      BY <1>4, <2>2, <3>1 DEF Visit, IInv, TypeOK
    <3>3. met' \in [Clients -> [Clients -> Nat]]
      BY <1>4, <2>2, <3>1, <3>2 DEF Visit, IInv, TypeOK
    <3>4. TypeOK'
      BY <1>4, <2>2, <3>3 DEF Visit, IInv, TypeOK, Places, mainVars
    <3>5. HolderAtWork' /\ UnknownIsNewcomer'
      BY <1>4, <2>2 DEF Visit, IInv, TypeOK, HolderAtWork, UnknownIsNewcomer
    <3>6. /\ pc'[c] = "advancing" /\ at'[c] = p /\ disturbed'[c] = disturbed[c]
          /\ present'[c] = present[c] /\ sessions' = sessions
      BY <1>4, <2>2 DEF Visit, IInv, TypeOK
    <3>7. OnItsWay(c)'
      <4>1. CASE disturbed[c]
        BY <1>c, <3>2, <3>6, <4>1 DEF OnItsWay, Walking, NobodyMet
      <4>2. CASE ~disturbed[c]
        <5>1. Ahead(c)
          BY <1>4, <1>c, <4>2 DEF OnItsWay, Visit
        <5>2. \A q \in Clients : /\ q # p => met'[c][q] = met[c][q]
                                 /\ q = p => met'[c][q] # 0
          BY <3>1, <3>2, <4>2
        <5>3. \A q \in present[c] : met'[c][q] = 0 => Address[p] < Address[q]
          <6> TAKE q \in present[c]
          <6> HAVE met'[c][q] = 0
          <6>1. q \in Clients /\ q # p /\ met[c][q] = 0
            BY <5>2 DEF IInv, TypeOK
          <6> QED
            BY <3>1, <5>1, <6>1, RegistryAssumption DEF Ahead
        <5>4. \A q \in Clients : met'[c][q] # 0 => Address[q] <= Address[p]
          BY <3>1, <5>1, <5>2, RegistryAssumption DEF Ahead
        <5> QED
          BY <1>c, <3>1, <3>6, <4>2, <5>3, <5>4 DEF OnItsWay, Walking, JustMet
      <4> QED
        BY <4>1, <4>2
    <3>8. \A w \in Clients : OnItsWay(w)'
      BY <1>4, <2>2, <3>7, OthersKeepTheirWay DEF Visit, IInv, TypeOK
    <3> QED
      BY <3>4, <3>5, <3>8 DEF IInv
  <2> QED
    BY <2>1, <2>2
<1>5. CASE Advance(c)
  <2>1. CASE ~(at[c] \in sessions /\ Free)
    BY <1>5, <2>1, DisturbedKeeps DEF Advance, Walking
  <2>2. CASE at[c] \in sessions /\ Free
    <3> DEFINE p == at[c]
    <3>1. PICK next \in Lowest(Rest(p)) : at' = [at EXCEPT ![c] = next]
      BY <1>5, <2>2 DEF Advance
    <3>2. /\ next \in Clients \cup {NoClient}
          /\ next = NoClient => Rest(p) = {}
          /\ next # NoClient => next \in Rest(p)
                               /\ \A q \in Rest(p) : Address[next] <= Address[q]
      BY <3>1, LowestIsFirst DEF Rest, IInv, TypeOK
    <3>3. TypeOK'
      BY <1>5, <2>2, <3>1, <3>2 DEF Advance, IInv, TypeOK, Places, mainVars
    <3>4. HolderAtWork' /\ UnknownIsNewcomer'
      BY <1>5, <2>2 DEF Advance, IInv, TypeOK, HolderAtWork, UnknownIsNewcomer
    <3>5. /\ pc'[c] = "visiting" /\ at'[c] = next /\ disturbed'[c] = disturbed[c]
          /\ present'[c] = present[c] /\ met'[c] = met[c] /\ sessions' = sessions
      BY <1>5, <2>2, <3>1 DEF Advance, IInv, TypeOK
    <3>6. OnItsWay(c)'
      <4>1. CASE disturbed[c]
        BY <1>c, <3>5, <4>1 DEF OnItsWay, Walking, NobodyMet
      <4>2. CASE ~disturbed[c]
        <5>1. JustMet(c) /\ present[c] \subseteq sessions
          BY <1>5, <1>c, <4>2 DEF OnItsWay, Advance
        <5>2. \A q \in present[c] : met[c][q] = 0 => q \in Rest(p)
          BY <5>1 DEF JustMet, Rest
        <5>3. CASE next = NoClient
          BY <1>c, <3>2, <3>5, <4>2, <5>1, <5>2, <5>3 DEF OnItsWay, Walking, Ahead
        <5>4. CASE next # NoClient
          <6>1. next \in Clients /\ p \in Clients /\ Address[p] < Address[next]
            BY <2>2, <3>2, <5>4 DEF Rest, IInv, TypeOK
          <6>2. \A q \in Clients : met[c][q] # 0 => Address[q] < Address[next]
            BY <5>1, <6>1, RegistryAssumption DEF JustMet
          <6> QED
            BY <1>c, <3>2, <3>5, <4>2, <5>1, <5>2, <5>4, <6>2 DEF OnItsWay, Walking, Ahead
        <5> QED
          BY <5>3, <5>4
      <4> QED
        BY <4>1, <4>2
    <3>7. \A w \in Clients : OnItsWay(w)'
      BY <1>5, <2>2, <3>1, <3>6, OthersKeepTheirWay DEF Advance, IInv, TypeOK
    <3> QED
      BY <3>3, <3>4, <3>7 DEF IInv
  <2> QED
    BY <2>1, <2>2
<1>6. CASE EndWalk(c)
  <2>1. met' = [met EXCEPT ![c] = NobodyMet] /\ NobodyMet \in [Clients -> Nat]
    BY <1>6 DEF EndWalk, NobodyMet
  <2>2. met' \in [Clients -> [Clients -> Nat]]
    BY <2>1 DEF IInv, TypeOK
  <2>3. TypeOK'
    BY <1>6, <2>2 DEF EndWalk, IInv, TypeOK, Places, mainVars
  <2>4. HolderAtWork' /\ UnknownIsNewcomer'
    BY <1>6 DEF EndWalk, IInv, TypeOK, HolderAtWork, UnknownIsNewcomer
  <2>5. OnItsWay(c)'
    BY <1>6 DEF EndWalk, IInv, TypeOK, OnItsWay, Walking, NobodyMet
  <2>6. \A w \in Clients : OnItsWay(w)'
    BY <1>6, <2>5, OthersKeepTheirWay DEF EndWalk, IInv, TypeOK
  <2> QED
    BY <2>3, <2>4, <2>6 DEF IInv
<1>7. CASE LeavesWalk(c)
  <2>1. met' = [met EXCEPT ![c] = NobodyMet] /\ NobodyMet \in [Clients -> Nat]
    BY <1>7 DEF LeavesWalk, NobodyMet
  <2>2. met' \in [Clients -> [Clients -> Nat]]
    BY <2>1 DEF IInv, TypeOK
  <2>3. TypeOK'
    BY <1>7, <2>2 DEF LeavesWalk, IInv, TypeOK, Places, mainVars
  <2>4. HolderAtWork' /\ UnknownIsNewcomer'
    BY <1>7 DEF LeavesWalk, IInv, TypeOK, HolderAtWork, UnknownIsNewcomer
  <2>5. OnItsWay(c)'
    BY <1>7 DEF LeavesWalk, IInv, TypeOK, OnItsWay, Walking, NobodyMet
  <2>6. \A w \in Clients : OnItsWay(w)'
    BY <1>7, <2>5, OthersKeepTheirWay DEF LeavesWalk, IInv, TypeOK
  <2> QED
    BY <2>3, <2>4, <2>6 DEF IInv
<1> QED
  BY <1>1, <1>2, <1>3, <1>4, <1>5, <1>6, <1>7

\* The end of a session, and what its client does.
LEMMA EndInv ==
  ASSUME IInv, NEW c \in Clients, Hangup(c) \/ LockToRemove(c) \/ Remove(c)
  PROVE  IInv'
<1>1. CASE Hangup(c)
  <2>1. TypeOK' /\ HolderAtWork' /\ UnknownIsNewcomer'
    BY <1>1
    DEF Hangup, IInv, TypeOK, HolderAtWork, UnknownIsNewcomer, mainVars, walkVars
  <2>2. \A w \in Clients : OnItsWay(w)'
    BY <1>1, WalksUntouched DEF Hangup
  <2> QED
    BY <2>1, <2>2 DEF IInv
<1>2. CASE LockToRemove(c)
  <2>1. TypeOK'
    BY <1>2 DEF LockToRemove, IInv, TypeOK, Places, mainVars, walkVars
  <2>2. HolderAtWork' /\ UnknownIsNewcomer'
    BY <1>2, RegistryAssumption
    DEF LockToRemove, IInv, TypeOK, HolderAtWork, UnknownIsNewcomer, Free
  <2>3. \A w \in Clients : OnItsWay(w)'
    BY <1>2, WalksUntouched DEF LockToRemove, IInv, TypeOK, Walking
  <2> QED
    BY <2>1, <2>2, <2>3 DEF IInv
<1>3. CASE Remove(c)
  <2>1. CASE c \notin sessions
    <3>1. TypeOK' /\ HolderAtWork' /\ UnknownIsNewcomer'
      BY <1>3, <2>1
      DEF Remove, Ends, IInv, TypeOK, HolderAtWork, UnknownIsNewcomer, mainVars
    <3>2. \A w \in Clients : OnItsWay(w)'
      BY <1>3, <2>1, WalksUntouched DEF Remove, walkVars
    <3> QED
      BY <3>1, <3>2 DEF IInv
  <2>2. CASE c \in sessions
    <3>1. TypeOK'
      BY <1>3, <2>2 DEF Remove, IInv, TypeOK, Places, mainVars
    <3>2. HolderAtWork' /\ UnknownIsNewcomer'
      <4>1. mutex = c /\ \A d \in Clients : d # c => pc[d] # "erasing"
        BY <1>3 DEF Remove, IInv, HolderAtWork
      <4>2. /\ pc'[c] = "over" /\ mutex' = NoClient /\ newcomer' = newcomer
            /\ \A d \in Clients : d # c => pc'[d] = pc[d]
            /\ \A d \in Clients : d # c => (d \in sessions' <=> d \in sessions)
        BY <1>3, <2>2 DEF Remove, IInv, TypeOK
      <4>3. HolderAtWork'
        BY <4>1, <4>2, RegistryAssumption DEF HolderAtWork
      <4>4. UnknownIsNewcomer'
        BY <4>2 DEF IInv, UnknownIsNewcomer
      <4> QED
        BY <4>3, <4>4
    <3>3. ASSUME NEW w \in Clients PROVE OnItsWay(w)'
      <4>1. present'[w] = present[w] \ {c} /\ present[w] \subseteq sessions
        BY <1>3, <2>2 DEF Remove, IInv, OnItsWay
      <4>2. pc'[w] = pc[w] \/ ~(Walking(w) \/ Walking(w)')
        BY <1>3, <2>2 DEF Remove, IInv, TypeOK, Walking
      <4> QED
        BY <1>3, <2>2, <4>1, <4>2, KeepsItsWay DEF Remove
    <3> QED
      BY <3>1, <3>2, <3>3 DEF IInv
  <2> QED
    BY <2>1, <2>2
<1> QED
  BY <1>1, <1>2, <1>3

\* main(), and the signals it waits for.
LEMMA MainInv ==
  ASSUME IInv, Signal \/ MainStep
  PROVE  IInv'
<1>1. UNCHANGED <<sessions, mutex, newcomer, pc, walkVars>>
  BY DEF Signal, MainStep, MainInitializes, MainFails, MainListens, MainWakes, MainBegins,
         MainTells, MainAsks, MainJoins, MainEnds, GoesOnAt, MainGoes
<1>2. HolderAtWork' /\ UnknownIsNewcomer' /\ \A w \in Clients : OnItsWay(w)'
  BY <1>1, WalksUntouched DEF IInv, HolderAtWork, UnknownIsNewcomer
<1>3. TypeOK'
  <2>1. CASE Signal
    BY <1>1, <2>1, RegistryAssumption DEF Signal, IInv, TypeOK, walkVars
  <2>2. CASE MainInitializes \/ MainFails \/ MainListens \/ MainWakes \/ MainEnds
    BY <1>1, <2>2
    DEF MainInitializes, MainFails, MainListens, MainWakes, MainEnds, MainGoes, Ends, IInv,
        TypeOK, walkVars
  <2>3. CASE MainBegins
    <3>1. PICK it \in Clients \cup {NoClient} : GoesOnAt("emptying", it)
      BY <2>3, LowestIsFirst DEF MainBegins, Anywhere, IInv, TypeOK
    <3> QED
      BY <1>1, <2>3, <3>1 DEF MainBegins, GoesOnAt, MainGoes, IInv, TypeOK, walkVars
  <2>4. CASE MainTells \/ MainAsks
    BY <1>1, <2>4 DEF MainTells, MainAsks, MainGoes, Ends, IInv, TypeOK, walkVars
  <2>5. CASE MainJoins
    BY <1>1, <2>5
    DEF MainJoins, GoesOnAt, MainGoes, Ends, Anywhere, IInv, TypeOK, walkVars
  <2> QED
    BY <2>1, <2>2, <2>3, <2>4, <2>5 DEF MainStep
<1> QED
  BY <1>2, <1>3 DEF IInv

LEMMA NextInv == IInv /\ [Next]_vars => IInv'
<1> SUFFICES ASSUME IInv, [Next]_vars PROVE IInv'
  OBVIOUS
<1>1. CASE UNCHANGED vars
  <2>1. TypeOK' /\ HolderAtWork' /\ UnknownIsNewcomer'
    BY <1>1
    DEF vars, walkVars, mainVars, IInv, TypeOK, HolderAtWork, UnknownIsNewcomer
  <2>2. \A w \in Clients : OnItsWay(w)'
    BY <1>1, WalksUntouched DEF vars
  <2> QED
    BY <2>1, <2>2 DEF IInv
<1>2. CASE Next
  BY <1>2, ListenerInv, WalkInv, EndInv, MainInv DEF Next, ThreadStep
<1> QED
  BY <1>1, <1>2

LEMMA Invariance == Spec => []IInv
<1>1. Init => IInv
  BY InitInv
<1>2. IInv /\ [Next]_vars => IInv'
  BY NextInv
<1> QED
  BY <1>1, <1>2, PTL DEF Spec

-----------------------------------------------------------------------------
(* The theorems.                                                           *)

\* Every variable keeps its type, whatever undefined behaviour does.
THEOREM TypeCorrect == Spec => []TypeOK
<1>1. IInv => TypeOK
  BY DEF IInv
<1> QED
  BY <1>1, Invariance, PTL

\* accessMutex_ is only ever held by a thread that is adding or removing a
\* session: no thread ends without unlocking it.
THEOREM MutexGivenBack == Spec => []HolderAtWork
<1>1. IInv => HolderAtWork
  BY DEF IInv
<1> QED
  BY <1>1, Invariance, PTL

\* A step that is fatal is one of a newcomer's thread or races with a change.
LEMMA FatalNeedsARace ==
  ASSUME IInv, Next, process' = "fatal"
  PROVE  newcomer # NoClient \/ ~Free
<1>1. ASSUME NEW c \in Clients, ThreadStep(c) PROVE newcomer # NoClient \/ ~Free
  <2>1. CASE BeginWalkInRace(c)
    BY <2>1 DEF BeginWalkInRace
  <2>2. CASE WalkUnknown(c)
    BY <2>2, RegistryAssumption DEF WalkUnknown, IInv, UnknownIsNewcomer
  <2>3. CASE Remove(c)
    BY <2>3, RegistryAssumption DEF Remove, IInv, HolderAtWork, Free
  <2>4. CASE BeginWalk(c) \/ EndWalk(c) \/ LeavesWalk(c) \/ LockToRemove(c)
    BY <2>4 DEF BeginWalk, EndWalk, LeavesWalk, LockToRemove, Running
  <2>5. CASE Visit(c) \/ Advance(c)
    BY <2>5 DEF Visit, Advance, Disturbed, Ends, Running
  <2> QED
    BY <1>1, <2>1, <2>2, <2>3, <2>4, <2>5 DEF ThreadStep
<1>2. CASE MainStep \/ Signal \/ LockToRegister \/ Register
  BY <1>2
  DEF Signal, LockToRegister, Register, MainStep, MainInitializes, MainFails, MainListens,
      MainWakes, MainBegins, MainTells, MainAsks, MainJoins, MainEnds, GoesOnAt, MainGoes,
      Ends, Running
<1>3. ASSUME NEW c \in Clients, Accept(c) \/ Hangup(c) PROVE FALSE
  BY <1>3 DEF Accept, Hangup, Running
<1> QED
  BY <1>1, <1>2, <1>3 DEF Next

\* What makes a session unknown, and the server exit, is a race with
\* addSession() or with a change of the map; never its own removal.
THEOREM UnknownNeedsARace == Spec => UnknownOnlyInARace
<1>1. IInv /\ [Next]_vars => [process' = "fatal" => newcomer # NoClient \/ ~Free]_vars
  BY FatalNeedsARace
<1> QED
  BY <1>1, Invariance, PTL DEF Spec, UnknownOnlyInARace

-----------------------------------------------------------------------------
(* The refinement.                                                         *)

\* The walks that Broadcast knows of, and what they owe.
Undisturbed == {c \in Clients : Walking(c) /\ ~disturbed[c]}
Owed == [c \in Clients |-> {p \in present[c] : met[c][p] = 0}]

\* What the walks owe and whom they have met is all of Broadcast's state.
LEMMA Unseen ==
  ASSUME UNCHANGED <<sessions, disturbed, present, met>>,
         \A w \in Clients : Walking(w) <=> Walking(w)'
  PROVE  UNCHANGED Promised!broadcastVars
BY DEF Promised!broadcastVars

LEMMA WalkIsBroadcast ==
  ASSUME IInv, NEW c \in Clients, ThreadStep(c)
  PROVE  Promised!BroadcastNext \/ UNCHANGED Promised!broadcastVars
<1>t. /\ pc \in [Clients -> Places] /\ disturbed \in [Clients -> BOOLEAN]
      /\ present \in [Clients -> SUBSET Clients]
      /\ met \in [Clients -> [Clients -> Nat]]
  BY DEF IInv, TypeOK
<1>c. OnItsWay(c)
  BY DEF IInv
<1>1. CASE BeginWalk(c)
  <2>1. ~disturbed[c] /\ met[c] = NobodyMet /\ ~Walking(c)
    BY <1>1, <1>c DEF BeginWalk, OnItsWay, Walking
  <2>2. Undisturbed' = Undisturbed \cup {c}
    BY <1>1, <1>t, <2>1 DEF BeginWalk, Undisturbed, Walking
  <2>3. Owed' = [Owed EXCEPT ![c] = sessions]
    <3>1. present'[c] = sessions /\ met' = met /\ sessions \subseteq Clients
      BY <1>1, <1>t DEF BeginWalk, IInv, TypeOK
    <3>2. \A w \in Clients \ {c} : present'[w] = present[w]
      BY <1>1, <1>t DEF BeginWalk
    <3>3. {p \in sessions : met[c][p] = 0} = sessions
      BY <2>1, <3>1 DEF NobodyMet
    <3>4. Owed'[c] = sessions
      BY <3>1, <3>3 DEF Owed
    <3>5. \A w \in Clients \ {c} : Owed'[w] = Owed[w]
      BY <3>1, <3>2 DEF Owed
    <3> QED
      BY <3>4, <3>5 DEF Owed
  <2>4. Promised!Begin(c)
    BY <1>1, <2>1, <2>2, <2>3 DEF BeginWalk, Promised!Begin, Undisturbed, Owed
  <2> QED
    BY <2>4 DEF Promised!BroadcastNext
<1>2. ASSUME Disturbed(c), sessions' = sessions
      PROVE  Promised!BroadcastNext \/ UNCHANGED Promised!broadcastVars
  <2>1. CASE UNCHANGED <<pc, walkVars>>
    BY <1>2, <2>1, Unseen DEF walkVars, Walking
  <2>2. CASE ~UNCHANGED <<pc, walkVars>>
    <3>1. Undisturbed' = Undisturbed \ {c}
      BY <1>2, <1>t, <2>2 DEF Disturbed, Undisturbed, Walking
    <3>2. Owed' = [Owed EXCEPT ![c] = {}]
      <4>1. present'[c] = {}
        BY <1>2, <1>t, <2>2 DEF Disturbed
      <4>2. \A w \in Clients \ {c} : present'[w] = present[w] /\ met'[w] = met[w]
        BY <1>2, <1>t, <2>2 DEF Disturbed
      <4> QED
        BY <4>1, <4>2 DEF Owed
    <3>3. met' = [met EXCEPT ![c] = Promised!NobodyMet]
      BY <1>2, <2>2 DEF Disturbed, NobodyMet, Promised!NobodyMet
    <3>4. Promised!Disturb(c)
      BY <1>2, <3>1, <3>2, <3>3 DEF Promised!Disturb, Undisturbed, Owed
    <3> QED
      BY <3>4 DEF Promised!BroadcastNext
  <2> QED
    BY <2>1, <2>2
<1>3. CASE BeginWalkInRace(c)
  <2>1. CASE Disturbed(c)
    BY <1>2, <1>3, <2>1 DEF BeginWalkInRace
  <2>2. CASE UNCHANGED <<pc, walkVars>>
    BY <1>3, <2>2, Unseen DEF BeginWalkInRace, walkVars, Walking
  <2> QED
    BY <1>3, <2>1, <2>2 DEF BeginWalkInRace
<1>4. CASE WalkUnknown(c)
  BY <1>4, Unseen DEF WalkUnknown, walkVars, Walking
<1>5. CASE Visit(c)
  <2>1. CASE at[c] \notin sessions
    BY <1>2, <1>5, <2>1 DEF Visit
  <2>2. CASE at[c] \in sessions /\ disturbed[c]
    BY <1>5, <1>t, <2>2, Unseen DEF Visit, Walking
  <2>3. CASE at[c] \in sessions /\ ~disturbed[c]
    <3> PICK p \in Clients : p = at[c]
      BY <1>5, <2>3 DEF Visit, IInv, TypeOK
    <3>1. p \in Clients /\ met[c][p] = 0
      BY <1>5, <1>c, <1>t, <2>3, RegistryAssumption
      DEF Visit, OnItsWay, Ahead, IInv, TypeOK
    <3>2. met' = [met EXCEPT ![c][p] = 1]
      BY <1>5, <1>t, <2>3, <3>1 DEF Visit
    <3>3. Undisturbed' = Undisturbed /\ c \in Undisturbed
      BY <1>5, <1>t, <2>3 DEF Visit, Undisturbed, Walking
    <3>4. Owed' = [Owed EXCEPT ![c] = @ \ {p}]
      <4>1. present' = present
        BY <1>5, <2>3 DEF Visit
      <4>2. \A q \in Clients : met'[c][q] = 0 <=> met[c][q] = 0 /\ q # p
        BY <1>t, <3>1, <3>2
      <4>3. \A w \in Clients : w # c => met'[w] = met[w]
        BY <1>t, <3>1, <3>2
      <4>4. ASSUME NEW w \in Clients
            PROVE  Owed'[w] = IF w = c THEN Owed[w] \ {p} ELSE Owed[w]
        BY <1>t, <4>1, <4>2, <4>3 DEF Owed
      <4> QED
        BY <4>4 DEF Owed
    <3>5. Promised!Meet(c, p)
      BY <1>5, <2>3, <3>1, <3>2, <3>3, <3>4 DEF Visit, Promised!Meet, Undisturbed, Owed
    <3>6. \E q \in Clients : Promised!Meet(c, q)
      BY <3>1, <3>5
    <3> QED
      BY <3>6 DEF Promised!BroadcastNext
  <2> QED
    BY <2>1, <2>2, <2>3
<1>6. CASE Advance(c)
  <2>1. CASE at[c] \in sessions /\ Free
    BY <1>6, <1>t, <2>1, Unseen DEF Advance, Walking
  <2>2. CASE ~(at[c] \in sessions /\ Free)
    BY <1>2, <1>6, <2>2 DEF Advance
  <2> QED
    BY <2>1, <2>2
<1>7. CASE EndWalk(c)
  <2>1. met' = [met EXCEPT ![c] = Promised!NobodyMet]
    BY <1>7 DEF EndWalk, NobodyMet, Promised!NobodyMet
  <2>2. Undisturbed' = Undisturbed \ {c}
    BY <1>7, <1>t DEF EndWalk, Undisturbed, Walking
  <2>3. Owed[c] = {}
    BY <1>7, <1>c, <1>t DEF EndWalk, Owed, OnItsWay, Ahead
  <2>4. Owed' = Owed
    BY <1>7, <1>t, <2>3 DEF EndWalk, Owed, NobodyMet
  <2>5. CASE disturbed[c]
    <3>1. met' = met /\ Undisturbed' = Undisturbed
      BY <1>7, <1>c, <1>t, <2>2, <2>5 DEF EndWalk, OnItsWay, Undisturbed
    <3> QED
      BY <1>7, <2>4, <3>1 DEF EndWalk, Promised!broadcastVars, Undisturbed, Owed
  <2>6. CASE ~disturbed[c]
    <3>1. c \in Undisturbed
      BY <1>7, <2>6 DEF EndWalk, Undisturbed, Walking
    <3>2. Promised!End(c)
      BY <1>7, <2>1, <2>2, <2>3, <2>4, <3>1 DEF EndWalk, Promised!End, Undisturbed, Owed
    <3> QED
      BY <3>2 DEF Promised!BroadcastNext
  <2> QED
    BY <2>5, <2>6
<1>10. CASE LeavesWalk(c)
  <2>1. met' = [met EXCEPT ![c] = Promised!NobodyMet]
    BY <1>10 DEF LeavesWalk, NobodyMet, Promised!NobodyMet
  <2>2. Undisturbed' = Undisturbed \ {c}
    BY <1>10, <1>t DEF LeavesWalk, Undisturbed, Walking
  <2>3. Owed' = [Owed EXCEPT ![c] = {}]
    <3>1. present'[c] = {}
      BY <1>10, <1>t DEF LeavesWalk
    <3>2. \A w \in Clients \ {c} : present'[w] = present[w] /\ met'[w] = met[w]
      BY <1>10, <1>t DEF LeavesWalk
    <3> QED
      BY <3>1, <3>2 DEF Owed
  <2>4. Promised!Disturb(c)
    BY <1>10, <2>1, <2>2, <2>3 DEF LeavesWalk, Promised!Disturb, Undisturbed, Owed
  <2> QED
    BY <2>4 DEF Promised!BroadcastNext
<1>8. CASE LockToRemove(c)
  BY <1>8, <1>t, Unseen DEF LockToRemove, walkVars, Walking
<1>9. CASE Remove(c)
  <2>1. CASE c \notin sessions
    BY <1>9, <2>1, Unseen DEF Remove, Walking
  <2>2. CASE c \in sessions
    <3>1. c \notin Undisturbed /\ Undisturbed' = Undisturbed
      BY <1>9, <1>t, <2>2 DEF Remove, Undisturbed, Walking
    <3>2. Owed' = [w \in Clients |-> Owed[w] \ {c}]
      BY <1>9, <1>t, <2>2 DEF Remove, Owed
    <3>3. Promised!Depart(c)
      BY <1>9, <2>2, <3>1, <3>2 DEF Remove, Promised!Depart, Undisturbed, Owed
    <3> QED
      BY <3>3 DEF Promised!BroadcastNext
  <2> QED
    BY <2>1, <2>2
<1> QED
  BY <1>1, <1>3, <1>4, <1>5, <1>6, <1>7, <1>8, <1>9, <1>10 DEF ThreadStep

LEMMA StepIsBroadcast ==
  ASSUME IInv, [Next]_vars
  PROVE  Promised!BroadcastNext \/ UNCHANGED Promised!broadcastVars
<1>1. CASE UNCHANGED vars
  BY <1>1, Unseen DEF vars, walkVars, Walking
<1>2. ASSUME NEW c \in Clients, ThreadStep(c)
      PROVE  Promised!BroadcastNext \/ UNCHANGED Promised!broadcastVars
  BY <1>2, WalkIsBroadcast
<1>3. ASSUME NEW c \in Clients, Accept(c) \/ Hangup(c)
      PROVE  UNCHANGED Promised!broadcastVars
  <2>1. \A w \in Clients : Walking(w) <=> Walking(w)'
    BY <1>3 DEF Accept, Hangup, Walking, IInv, TypeOK
  <2> QED
    BY <1>3, <2>1, Unseen DEF Accept, Hangup, walkVars
<1>4. CASE Signal \/ MainStep \/ LockToRegister
  <2>1. UNCHANGED <<sessions, pc, walkVars>>
    BY <1>4
    DEF Signal, LockToRegister, MainStep, MainInitializes, MainFails, MainListens,
        MainWakes, MainBegins, MainTells, MainAsks, MainJoins, MainEnds, GoesOnAt, MainGoes
  <2> QED
    BY <2>1, Unseen DEF walkVars, Walking
<1>5. CASE Register
  <2>1. newcomer \in Clients
    BY <1>5 DEF Register, IInv, TypeOK, HolderAtWork
  <2>2. Promised!Join(newcomer)
    BY <1>5 DEF Register, Promised!Join, walkVars, Walking
  <2> QED
    BY <2>1, <2>2 DEF Promised!BroadcastNext
<1> QED
  BY <1>1, <1>2, <1>3, <1>4, <1>5 DEF Next

\* A walk over sessions_ comes by everybody who is registered from its start to
\* its end, and by nobody twice, though it takes no lock, unless its handler leaves
\* it, the node it is at is erased or it moves on while the map is being changed.
THEOREM WalksKeepTheirPromise == Spec => ImplementsBroadcast
<1>1. Init => Promised!BroadcastInit
  BY DEF Init, Promised!BroadcastInit, Walking, NobodyMet, Promised!NobodyMet
<1>2. IInv /\ [Next]_vars => [Promised!BroadcastNext]_Promised!broadcastVars
  BY StepIsBroadcast
<1> QED
  BY <1>1, <1>2, Invariance, PTL DEF Spec, ImplementsBroadcast, Promised!BroadcastSpec
=============================================================================
