----------------------------- MODULE Broadcast -----------------------------
(***************************************************************************)
(* What a walk over the sessions of the server promises while others come  *)
(* and go: it comes by every session that is there from its start to its   *)
(* end, and by nobody twice.  Whoever joins or leaves meanwhile may be met *)
(* or missed, and a walk that is disturbed or broken off promises nothing. *)
(***************************************************************************)
CONSTANT Everybody

VARIABLES members,   \* who is there
          walkers,   \* whose walk is under way
          owed,      \* owed[w]: there since w's walk began, and not met yet
          met        \* met[w]: how often w's walk has met each

broadcastVars == <<members, walkers, owed, met>>

NobodyMet == [p \in Everybody |-> 0]

BroadcastInit ==
  /\ members = {}
  /\ walkers = {}
  /\ owed = [w \in Everybody |-> {}]
  /\ met = [w \in Everybody |-> NobodyMet]

Join(p) ==
  /\ members' = members \cup {p}
  /\ UNCHANGED <<walkers, owed, met>>

\* Nobody owes a visit to one who has left.
Depart(p) ==
  /\ p \notin walkers
  /\ members' = members \ {p}
  /\ owed' = [w \in Everybody |-> owed[w] \ {p}]
  /\ UNCHANGED <<walkers, met>>

Begin(w) ==
  /\ w \notin walkers
  /\ walkers' = walkers \cup {w}
  /\ owed' = [owed EXCEPT ![w] = members]
  /\ UNCHANGED <<members, met>>

Meet(w, p) ==
  /\ w \in walkers
  /\ p \in members
  /\ met[w][p] = 0
  /\ met' = [met EXCEPT ![w][p] = 1]
  /\ owed' = [owed EXCEPT ![w] = @ \ {p}]
  /\ UNCHANGED <<members, walkers>>

End(w) ==
  /\ w \in walkers
  /\ owed[w] = {}
  /\ walkers' = walkers \ {w}
  /\ met' = [met EXCEPT ![w] = NobodyMet]
  /\ UNCHANGED <<members, owed>>

\* From here on, or from its start, a walk of w promises nothing; or w breaks it off.
Disturb(w) ==
  /\ walkers' = walkers \ {w}
  /\ owed' = [owed EXCEPT ![w] = {}]
  /\ met' = [met EXCEPT ![w] = NobodyMet]
  /\ UNCHANGED members

BroadcastNext ==
  \E w \in Everybody :
     \/ Join(w) \/ Depart(w) \/ Begin(w) \/ End(w) \/ Disturb(w)
     \/ \E p \in Everybody : Meet(w, p)

BroadcastSpec == BroadcastInit /\ [][BroadcastNext]_broadcastVars
=============================================================================
