------------------------------ MODULE Channel ------------------------------
(***************************************************************************)
(* What one direction of a connection promises to the code above it: the   *)
(* messages 1, 2, 3, ... the peer wrote are handed over one at a time, in  *)
(* that order, none twice and none skipped, and the session gives up only  *)
(* after the peer has closed its end.  What was written and not handed     *)
(* over by then is lost.                                                   *)
(***************************************************************************)
EXTENDS Naturals, Sequences

CONSTANT MessageCount   \* how many messages the peer ever writes

VARIABLES written,      \* number of messages the peer has written
          delivered,    \* the messages handed over so far, in order
          peerClosed,   \* the peer has closed its end
          ended         \* the receiving session has given up

channelVars == <<written, delivered, peerClosed, ended>>

ChannelInit ==
  /\ written = 0
  /\ delivered = <<>>
  /\ peerClosed = FALSE
  /\ ended = FALSE

Send ==
  /\ ~peerClosed
  /\ written < MessageCount
  /\ written' = written + 1
  /\ UNCHANGED <<delivered, peerClosed, ended>>

Close ==
  /\ ~peerClosed
  /\ peerClosed' = TRUE
  /\ UNCHANGED <<written, delivered, ended>>

Deliver ==
  /\ ~ended
  /\ Len(delivered) < written
  /\ delivered' = Append(delivered, Len(delivered) + 1)
  /\ UNCHANGED <<written, peerClosed, ended>>

GiveUp ==
  /\ peerClosed
  /\ ~ended
  /\ ended' = TRUE
  /\ UNCHANGED <<written, delivered, peerClosed>>

ChannelNext == Send \/ Close \/ Deliver \/ GiveUp

ChannelSpec == ChannelInit /\ [][ChannelNext]_channelVars
=============================================================================
