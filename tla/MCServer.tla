------------------------------ MODULE MCServer ------------------------------
(***************************************************************************)
(* The server with clients that connect, send MaxSent messages together,   *)
(* of any kind in any order, read what they are sent, and close or vanish  *)
(* at any time.                                                            *)
(***************************************************************************)
EXTENDS Server, SequencesExt

CONSTANTS MaxSent,   \* messages the clients send (a bound)
          ann, annLee, file1

VARIABLE sent        \* how many they have sent

mcVars == <<vars, sent>>

\* "ann lee" goes on where "ann" ends.
MCSpaceExtends == {<<ann, annLee>>}

MCAddress ==
  LET order == SetToSeq(Clients)
  IN  [c \in Clients |-> CHOOSE k \in 1..Len(order) : order[k] = c]

MCMessages ==
  {Hello, Bye}
    \cup {Nickname(name) : name \in TypedNames}
    \cup {Status(code) : code \in Answers}
    \cup {Chat(Anyone, <<c, 1>>) : c \in {CHOOSE c \in Clients : TRUE}}
    \cup {FileRequest(Anyone, file1)}
    \cup {FileData(0, <<file1, 0>>, last) : last \in BOOLEAN}

MCInit == Init /\ sent = 0

MCClientSends(c) ==
  /\ sent < MaxSent
  /\ sent' = sent + 1
  /\ \E m \in MCMessages : ClientSends(c, m)

MCNext ==
  \/ ServerStep /\ UNCHANGED sent
  \/ \E c \in Clients :
        \/ MCClientSends(c)
        \/ /\ Connect(c) \/ ClientSendsInVain(c) \/ ClientReceives(c) \/ ClientCloses(c)
           /\ UNCHANGED sent

MCSpec == MCInit /\ [][MCNext]_mcVars
=============================================================================
