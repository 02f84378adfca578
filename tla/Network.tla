------------------------------ MODULE Network ------------------------------
(***************************************************************************)
(* One TCP connection per client: a FIFO stream of whole messages in each  *)
(* direction, which is what ReceiveBuffer shows SessionBase to make of the *)
(* bytes, and the state of the connection's two ends.                      *)
(***************************************************************************)
EXTENDS Protocol

CONSTANT WireCapacity   \* messages in flight in one direction (a bound)

ASSUME WireAssumption == WireCapacity \in Nat \ {0}

VARIABLES toServer,     \* toServer[c]: written by client c, not yet received
          toClient,     \* toClient[c]: written for client c, not yet received
          clientEnd,    \* the client's socket
          serverEnd     \* the server's socket for that client

networkVars == <<toServer, toClient, clientEnd, serverEnd>>

\* "closed": that side has closed; what it wrote before may still be read.
\* "reset": its kernel has answered with RST, and the next write to it raises
\* SIGPIPE.
Ends == {"idle", "open", "closed", "reset"}

NetworkTypeOK ==
  /\ toServer \in [Clients -> Seq(Messages)]
  /\ toClient \in [Clients -> Seq(Messages)]
  /\ clientEnd \in [Clients -> Ends]
  /\ serverEnd \in [Clients -> Ends]

NetworkInit ==
  /\ toServer = [c \in Clients |-> <<>>]
  /\ toClient = [c \in Clients |-> <<>>]
  /\ clientEnd = [c \in Clients |-> "idle"]
  /\ serverEnd = [c \in Clients |-> "idle"]

Gone == {"closed", "reset"}

\* The kernel takes one more message from the writer.
HasSpace(wire) == Len(wire) < WireCapacity

\* close() of an end with this stream unread: unread data makes it a reset.
AfterClose(unread) == IF unread = <<>> THEN "closed" ELSE "reset"
=============================================================================
