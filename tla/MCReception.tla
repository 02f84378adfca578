---------------------------- MODULE MCReception ----------------------------
(***************************************************************************)
(* Module Reception on a small scale, with the users of MCMessenger: from  *)
(* the first connection on, or when everybody or the first has joined.     *)
(***************************************************************************)
EXTENDS Reception, MCMessenger

mcReceptionVars == <<receptionVars, requests, renamed>>

MCReceptionInit ==
  /\ ReceptionInit
  /\ requests = 0
  /\ renamed = {}

MCReceptionNext ==
  \/ /\ \/ Registers
        \/ \E c \in Clients :
              \/ Accepts(c) \/ SessionThread(c)
              \/ Connects(c) \/ ClientThread(c) \/ Replies(c)
     /\ UNCHANGED <<requests, renamed>>
  \/ \E c \in Clients : MCTypes(c) /\ UNCHANGED <<serverVars, bufferVars>>

MCReceptionSpec == MCReceptionInit /\ [][MCReceptionNext]_mcReceptionVars

\* Everybody has joined.
JoinedReceptionInit == Joined /\ BuffersInit

JoinedReceptionSpec ==
  JoinedReceptionInit /\ [][MCReceptionNext]_mcReceptionVars /\ ReceptionFairness

\* The same; or c1 has joined, who then sends no file, and others connect.
JoiningInit ==
  /\ Joined \/ (JoinedBy({c1}) /\ requests = MaxRequests)
  /\ BuffersInit

JoiningSpec ==
  JoiningInit /\ [][MCReceptionNext]_mcReceptionVars /\ ReceptionFairness
=============================================================================
