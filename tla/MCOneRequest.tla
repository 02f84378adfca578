---------------------------- MODULE MCOneRequest ----------------------------
(***************************************************************************)
(* Module OneRequest on a small scale, with the hands-off users of         *)
(* MCMessenger.                                                            *)
(***************************************************************************)
EXTENDS OneRequest, MCMessenger

mcOneRequestVars == <<mcVars, requested>>

\* MCNext and OneRequestNext at once: a step of MCNext is one of MessengerNext.
MCOneRequestNext ==
  \/ /\ \E c \in Clients, file \in Files : RequestsFile(c, file)
     /\ UNCHANGED <<requests, renamed>>
  \/ MCNext /\ ~SomeSendsFile /\ UNCHANGED requested

JoinedOneRequestInit == Joined /\ requested = {}

JoinedOneRequest == JoinedOneRequestInit /\ [][MCOneRequestNext]_mcOneRequestVars
=============================================================================
