----------------------------- MODULE MCRegistry -----------------------------
(***************************************************************************)
(* The sessions of a server that is signalled to end at any time, with the *)
(* SessionClients in memory in the order of the set Clients.               *)
(***************************************************************************)
EXTENDS Registry, Sequences

Lists == INSTANCE SequencesExt

MCAddress ==
  LET order == Lists!SetToSeq(Clients)
  IN  [c \in Clients |-> CHOOSE k \in 1..Len(order) : order[k] = c]
=============================================================================
