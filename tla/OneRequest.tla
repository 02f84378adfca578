----------------------------- MODULE OneRequest -----------------------------
(***************************************************************************)
(* The whole system in which users ask to send one file, all together.     *)
(* What the server and the clients promise of a transfer holds for the     *)
(* first one: the answers a transfer leaves behind break it for the next.  *)
(* Whoever sends, what is answered, and who chats, is renamed, joins or    *)
(* quits meanwhile, is left open.                                          *)
(***************************************************************************)
EXTENDS Messenger

VARIABLE requested   \* the request, <<who, file>>, once there is one

oneRequestVars == <<messengerVars, requested>>

OneRequestInit == MessengerInit /\ requested = {}

\* The user of c names a file, and nobody has before.
RequestsFile(c, file) ==
  /\ requested = {}
  /\ SendsFile(c, file)
  /\ requested' = {<<c, file>>}
  /\ UNCHANGED serverVars

SomeSendsFile == \E c \in Clients, file \in Files : SendsFile(c, file)

OneRequestNext ==
  \/ \E c \in Clients, file \in Files : RequestsFile(c, file)
  \/ MessengerNext /\ ~SomeSendsFile /\ UNCHANGED requested

OneRequestSpec == OneRequestInit /\ [][OneRequestNext]_oneRequestVars

-----------------------------------------------------------------------------
(* Properties.                                                             *)

\* The user who has asked to send does not quit.
SenderStays == \A x \in requested : ~clientFlag[x[1]]

\* No two sessions have saved an answer and not yet looked whether it was the last.
AnswersInTurn ==
  \A c, d \in Clients : (pc[c] = "scanning" /\ pc[d] = "scanning") => c = d

\* Only two things make the server send a client a message that aborts it over the
\* first transfer: that the sender leaves, so that an answer comes too late, or that
\* two threads each find the other's answer saved and both tell the sender to start.
AbortedByRacesOnly == []SenderStays /\ []AnswersInTurn => []NoClientAbort
=============================================================================
