---------------------------- MODULE SessionBase ----------------------------
(***************************************************************************)
(* The thread of a session: pollForData() around the read path of          *)
(* ReceiveBuffer and the sending queue.  One poll() may report several     *)
(* events, which an iteration works through in the order hang-up, data,    *)
(* room to write; readData() and writeData() each overwrite hasError.  The *)
(* handlers readData() calls, cycle(), and the threads of other sessions   *)
(* queue messages and ask for the disconnection at any moment, until the   *)
(* destructor behind the loop has taken the session off the server's map.  *)
(* ended is the loop left because of what was read.                        *)
(***************************************************************************)
EXTENDS ReceiveBuffer

CONSTANTS QueueLimit,     \* MAX_NETWORK_MESSAGE_QUEUE
          MaxAccepted,    \* messages ever queued (a bound)
          MaxInterrupts   \* signals that interrupt ppoll() (a bound)

ASSUME LoopAssumption ==
  /\ QueueLimit \in Nat
  /\ MaxAccepted \in Nat
  /\ MaxInterrupts \in Nat

VARIABLES step,               \* what the thread does next
          watchesRoom,        \* watched.events has POLLOUT
          revents,            \* watched.revents
          failure,            \* hasError, and what set it
          disconnectionFlag,  \* disconnectionFlag_
          accepted,           \* messages sendMessage() has taken
          sendingQueue,       \* sendingQueue_
          sent,               \* messages passed to send(), in order
          reset,              \* the peer has answered with RST
          interrupts          \* signals so far

loopVars == <<step, watchesRoom, revents, failure, disconnectionFlag, accepted,
              sendingQueue, sent, reset, interrupts>>
sessionVars == <<vars, loopVars>>

\* The loop is behind the thread, or its process is dead ...
Over == step \in {"over", "gone", "killed"}

\* ... and nobody finds the session any more.
Unreachable == step \in {"gone", "killed"}

LoopTypeOK ==
  /\ TypeOK
  /\ step \in {"test", "wait", "read", "write", "decide", "over", "gone",
               "killed"}
  /\ watchesRoom \in BOOLEAN
  /\ revents \in SUBSET {"HUP", "IN", "OUT"}
  /\ failure \in {"none", "poll", "read"}
  /\ disconnectionFlag \in BOOLEAN
  /\ accepted \in 0..MaxAccepted
  /\ sendingQueue \in Seq(1..MaxAccepted)
  /\ sent \in Seq(1..MaxAccepted)
  /\ reset \in BOOLEAN
  /\ interrupts \in 0..MaxInterrupts

\* revents is a local of pollForData() that nobody sets before the first poll.
LoopInit ==
  /\ Init
  /\ step = "test"
  /\ watchesRoom = TRUE
  /\ revents \in SUBSET {"HUP", "IN", "OUT"}
  /\ failure = "none"
  /\ disconnectionFlag = FALSE
  /\ accepted = 0
  /\ sendingQueue = <<>>
  /\ sent = <<>>
  /\ reset = FALSE
  /\ interrupts = 0

-----------------------------------------------------------------------------
(* The peer, and the callers of the session.                               *)

PeerSends ==
  /\ PeerWrites
  /\ UNCHANGED loopVars

\* With data of ours unread, its kernel makes it a reset.
PeerLeaves ==
  /\ PeerCloses
  /\ reset' \in {FALSE, sent # <<>>}
  /\ UNCHANGED <<step, watchesRoom, revents, failure, disconnectionFlag,
                 accepted, sendingQueue, sent, interrupts>>

\* sendMessage(): a message for a full queue is not accepted.  It does not ask
\* whether there is still a loop to send it: the walks of other threads, and
\* removeSession() in the destructor, queue messages behind it.
SendMessage ==
  /\ ~Unreachable
  /\ accepted < MaxAccepted
  /\ Len(sendingQueue) <= QueueLimit
  /\ accepted' = accepted + 1
  /\ sendingQueue' = Append(sendingQueue, accepted')
  /\ UNCHANGED <<vars, step, watchesRoom, revents, failure, disconnectionFlag,
                 sent, reset, interrupts>>

Disconnect ==
  /\ ~Unreachable
  /\ ~disconnectionFlag
  /\ disconnectionFlag' = TRUE
  /\ UNCHANGED <<vars, step, watchesRoom, revents, failure, accepted,
                 sendingQueue, sent, reset, interrupts>>

-----------------------------------------------------------------------------
(* pollForData().                                                          *)

\* Mutant of KeepsLooping: what is queued does not keep the loop going.
LoopsUntilDisconnected == failure = "none" /\ ~disconnectionFlag

\* The condition of the loop.
KeepsLooping ==
  /\ failure = "none"
  /\ ~disconnectionFlag \/ sendingQueue # <<>>

LoopTest ==
  /\ step = "test"
  /\ KeepsLooping
  /\ step' = "wait"
  /\ watchesRoom' = (sendingQueue # <<>>)
  /\ UNCHANGED <<vars, revents, failure, disconnectionFlag, accepted,
                 sendingQueue, sent, reset, interrupts>>

\* Mutant of After: a hang-up ends the iteration.
AfterHangup(events) ==
  CASE "IN" \in events /\ "HUP" \notin events -> "read"
    [] "IN" \notin events /\ "OUT" \in events -> "write"
    [] OTHER -> "decide"

\* Where an iteration goes on with the events it has still to look at.
After(events) ==
  CASE "IN" \in events -> "read"
    [] "IN" \notin events /\ "OUT" \in events -> "write"
    [] OTHER -> "decide"

\* What poll() reports whether or not the socket takes more data.  A reset
\* connection is hung up, and readable.
Reported == (IF Readable THEN {"IN"} ELSE {}) \cup (IF reset THEN {"HUP"} ELSE {})

\* ppoll() returns events.
Poll ==
  /\ step = "wait"
  /\ revents' \in {Reported, Reported \cup {"OUT"}} \ {{}}
  /\ "OUT" \in revents' => watchesRoom
  /\ failure' = IF "HUP" \in revents' THEN "poll" ELSE "none"
  /\ step' = After(revents')
  /\ UNCHANGED <<vars, watchesRoom, disconnectionFlag, accepted, sendingQueue,
                 sent, reset, interrupts>>

\* Mutant of PollTimesOut: ppoll() is given no timeout.
PollForEver ==
  /\ step = "wait"
  /\ FALSE

\* ppoll() runs into its timeout: the loop starts anew.
PollTimesOut ==
  /\ step = "wait"
  /\ Reported = {}
  /\ step' = "test"
  /\ UNCHANGED <<vars, watchesRoom, revents, failure, disconnectionFlag,
                 accepted, sendingQueue, sent, reset, interrupts>>

\* ppoll() returns -1 because of a signal, and leaves the revents of an
\* earlier poll, which the iteration takes for its own.
PollInterrupted ==
  /\ step = "wait"
  /\ interrupts < MaxInterrupts
  /\ interrupts' = interrupts + 1
  /\ failure' = "poll"
  /\ step' = After(revents)
  /\ UNCHANGED <<vars, watchesRoom, revents, disconnectionFlag, accepted,
                 sendingQueue, sent, reset>>

\* hasError = readData(), when recv() returns bytes.
ReadsSome ==
  /\ step = "read"
  /\ ReadData
  /\ failure' = IF ended' THEN "read" ELSE "none"
  /\ step' = After(revents \ {"IN"})
  /\ UNCHANGED <<watchesRoom, revents, disconnectionFlag, accepted,
                 sendingQueue, sent, reset, interrupts>>

\* ... and when it returns 0 or -1.
ReadsEnd ==
  /\ step = "read"
  /\ Readable
  /\ 0 \in {Available, Room}
  /\ failure' = "read"
  /\ step' = After(revents \ {"IN"})
  /\ UNCHANGED <<vars, watchesRoom, revents, disconnectionFlag, accepted,
                 sendingQueue, sent, reset, interrupts>>

\* hasError = writeData(), which is always false: whatever was wrong with the
\* events before is forgotten.  send() to a reset connection raises SIGPIPE.
WriteData ==
  /\ step = "write"
  /\ IF sendingQueue = <<>>
     THEN step' = "decide" /\ UNCHANGED <<sendingQueue, sent, reset>>
     ELSE /\ step' = IF reset THEN "killed" ELSE "decide"
          /\ sendingQueue' = Tail(sendingQueue)
          /\ sent' = Append(sent, Head(sendingQueue))
          /\ reset' \in {reset, peerClosed}
  /\ failure' = "none"
  /\ UNCHANGED <<vars, watchesRoom, revents, disconnectionFlag, accepted,
                 interrupts>>

\* The end of an iteration; what cycle() does is a SendMessage.
Decide ==
  /\ step = "decide"
  /\ disconnectionFlag' = (disconnectionFlag \/ failure # "none")
  /\ step' = "test"
  /\ UNCHANGED <<vars, watchesRoom, revents, failure, accepted, sendingQueue,
                 sent, reset, interrupts>>

\* Mutant of LeaveLoop: every end is taken for the peer's.
LeaveLoopEnded ==
  /\ step = "test"
  /\ ~KeepsLooping
  /\ step' = "over"
  /\ ended' = TRUE
  /\ UNCHANGED <<written, peerClosed, taken, buffer, bufferOffset, delivered,
                 watchesRoom, revents, failure, disconnectionFlag, accepted,
                 sendingQueue, sent, reset, interrupts>>

\* The loop is over and the session deletes itself ...
LeaveLoop ==
  /\ step = "test"
  /\ ~KeepsLooping
  /\ step' = "over"
  /\ ended' = (failure = "read")
  /\ UNCHANGED <<written, peerClosed, taken, buffer, bufferOffset, delivered,
                 watchesRoom, revents, failure, disconnectionFlag, accepted,
                 sendingQueue, sent, reset, interrupts>>

\* ... and is off the map: what its queue still holds is never sent.
EndSession ==
  /\ step = "over"
  /\ step' = "gone"
  /\ UNCHANGED <<vars, watchesRoom, revents, failure, disconnectionFlag,
                 accepted, sendingQueue, sent, reset, interrupts>>

\* What the thread does without being disturbed.
LoopStep ==
  \/ LoopTest \/ Poll \/ PollTimesOut \/ ReadsSome \/ ReadsEnd
  \/ WriteData \/ Decide \/ LeaveLoop \/ EndSession

LoopNext ==
  \/ PeerSends \/ PeerLeaves \/ SendMessage \/ Disconnect
  \/ LoopStep \/ PollInterrupted

\* The thread is scheduled, and a socket that takes data whenever the peer
\* goes on reading reports it again and again.
LoopFairness ==
  /\ WF_sessionVars(LoopStep)
  /\ SF_sessionVars(Poll /\ "OUT" \in revents')

LoopSpec == LoopInit /\ [][LoopNext]_sessionVars /\ LoopFairness

-----------------------------------------------------------------------------
(* Properties.                                                             *)

\* The loop around it leaves the read path what ReceiveBuffer says of it.
ImplementsReading == Spec

\* "end when we have to disconnect and all pending messages have been sent":
\* when a session leaves its loop without an error, because it was told to
\* disconnect, it has passed every message accepted up to that moment to send(),
\* in the order they were queued.  It goes no further: what other threads queue
\* between this moment and the session's removal is accepted and lost.
AcceptedIsSent ==
  [][step # "over" /\ step' = "over" /\ failure = "none"
       => sent = [i \in 1..accepted |-> i]]_sessionVars

\* Neither a hang-up nor an error cuts off what the peer has sent before: a
\* session that gives up its peer has read the stream to the end.
DrainsBeforeEnding ==
  (step \in {"over", "gone"} /\ failure # "none" /\ interrupts = 0)
     => peerClosed /\ Available = 0

\* An end of file can be overlooked, when the iteration that sees it also
\* writes, but not for ever.
SessionEnds == peerClosed ~> Over

\* A session that is told to disconnect comes to the end of its loop, unless a
\* signal has left its thread in recv().
DisconnectionEnds == disconnectionFlag ~> (Over \/ interrupts > 0)
=============================================================================
