# LAN Messenger: a TLA+ verification project

LAN Messenger is a chat server and an ncurses client over one shared piece of
network code. Users exchange texts, change their nickname, and send one file at
a time to everybody else. This directory holds TLA+ models of its concurrent
core, TLC configurations that check them on small instances, and TLAPS proofs of
the facts that hold on instances of every size. Line numbers refer to the
sources under `src/src/`.

## The system

| Part | State | Operations | Model |
|---|---|---|---|
| `SessionBase`, receiving (`common/sessionbase.cpp`) | `buffer_`, `bufferOffset_` | `readData`, `parseMessage` | `ReceiveBuffer`, implements `Channel`; `Reception` |
| `SessionBase`, sending | `sendingQueue_`, `disconnectionFlag_` | `sendMessage`, `writeData`, the loop of `pollForData` | `SessionBase`; abstracted in `Protocol`, `Server`, `ClientSession` |
| messages (`common/messages`) | - | the fields of seven message types | `Protocol` |
| `Server` (`server/server.cpp`) | `sessions_`, `connectionsCounter_`, `fileTransferModeActive_`, per session `state` and `isFileTransferSender` | `addSession`, `removeSession`, `checkSessionStateChange`, `clientSent...`, `clientChangedNickName` | `Server` |
| the same, its map and its end | `sessions_`, `accessMutex_`, `listenThread_` | `addSession`, `removeSession`, `findSession`, the walks, `~Server`, `main` with its signals | `Registry`, implements `Broadcast` |
| `SessionClient` (`server/sessionclient.cpp`) | `nickName_`, `fileTransferStatus_` | `availableMessages`, `disconnect` | `Server` |
| `SessionServer` (`client/sessionserver.cpp`) | the transfer fields, file handle, nickname | `availableMessages`, `cycle`, `saveData`, `sendFile`, `disconnect` | `ClientSession` |
| `Client` (`client/client.cpp`) | `connection_`, `inputMutex_`, `sessionEndSignal` | `run`, `askQuestion`, `gotFileTransferRequest`, `connectionClosed`, `~Client` | `ClientUI`; what keys start in `ClientSession` |
| TCP connections | two streams, two sockets | - | `Network` (external) |
| ncurses view, logging, build | - | - | not modelled |

How they interact: one *listening thread* accepts connections and creates a
session; each *session thread* of the server polls its socket, runs the handler
of each message, and the handlers write into the **other** sessions' queues and
read their fields. No lock protects this; the only mutex guards insertion into
and removal from `sessions_`. `main()` waits for a signal and then has `~Server()`
tell every session to disconnect and join its thread. Each client has a *network
thread* (the same `pollForData` loop) and the *main thread* that reads keys; they
share the queue, the transfer fields, the keyboard and the pointer to the session.
Client and server share nothing but the connection.

What is hard to test, and what the properties are for (`hazards` in
`PROJECT.json` lists each at its line):

- byte streams cut and joined anywhere by `recv()`; several events of one `poll()`
  that overwrite each other's error;
- check-then-act on shared fields by several threads (the transfer mode, the
  sender's mark, nicknames, registration after `pthread_create`);
- walks over a map that others change, and a destructor that joins the threads
  which change it;
- stale state: answers of earlier transfers, a handle left open, a check made
  before a dialog and used after it, `revents` after an interrupted poll;
- departures at any moment: of a sender, of a receiver, of somebody being asked,
  of the session a key is about to use;
- progress: a transfer feeds on the writes its own blocks cause; a quitting client
  must flush its queue and still end.

### What makes each part correct

- *Sessions*: every message once and in order, all that is accepted by the end of a
  loop sent before it, nothing of a peer that has closed left unread, and an end for
  every thread.
- *Registry*: sessions, threads and sockets correspond; no session is unknown but
  while the map of sessions is changed, or about to be; an undisturbed walk comes by
  everybody once; a server that is told to end does.
- *Transfers*: an active transfer has a sender able to end it; data flows after
  everybody has answered, to those who accepted; what is reported as received is the
  announced file; what was started ends, as far as `recv()` lets it; nobody is aborted by a late answer.
- *Chat and names*: order kept, no text missing between two, server and client agree on names, names unique.
- *Client*: a question gets the keys meant for it; the session lets go of the
  `Client` before that is deleted; who quits gets away, after what it had queued was sent.

## The modules

`Channel`
: The abstract receive path: `Deliver` hands over the next message, `GiveUp`
  only follows the peer's close.

`ReceiveBuffer`
: `readData()` and `parseMessage()` byte by byte: a byte is its position in the
  stream, so that "the right bytes at the right place" can be stated. `ReadData`
  is one iteration of the loop with `recv()` returning any number of bytes that
  fits; `ReadNothing` is `recv() == 0`, for either reason. Messages have any
  lengths that fit the buffer (`StreamAssumption`, which is what
  `MAX_PAYLOAD_SIZE` guarantees).

`SessionBase`
: The loop of `pollForData()` around `ReceiveBuffer`. `step` is the place in an
  iteration: `LoopTest`, then `Poll`, `PollTimesOut` or `PollInterrupted`, then by
  the events `ReadsSome`/`ReadsEnd`, `WriteData`, then `Decide`. `failure` is
  `hasError` together with what set it last; `WriteData` clears it, as the code
  does. Other threads act through `SendMessage` and `Disconnect` between any two
  steps, and go on behind the loop, until `EndSession` has taken the session off the
  server's map: `sendMessage()` does not ask whether anybody will send. The read path of `ReceiveBuffer` and its `ended` are the loop's view of
  the stream, so that the loop can be shown to refine it.

`Protocol`
: Message records, `CanSend` and `Push` (the queue with its limit and silent drop).

`Network`
: FIFO streams of whole messages (what `ReceiveBuffer` implements) and the
  socket states: an end that closes with unread data resets the connection, and
  a write after a reset is fatal (SIGPIPE is handled by neither `main()`).

`Server`
: The listening thread (`Accept`, `Register`: the two halves of `addSession()`
  on either side of `pthread_create()`'s effect) and one action per handler and
  step. A handler is cut where it touches state that other threads share: `pc`
  says which step of it is next. `ReceiveNickname`/`Rename`,
  `ReceiveStatus`/`SaveAnswer`/`ScanAnswers`,
  `ReceiveFileRequest`/`AnnounceTransfer`/`FlagSender`/`AcceptOwnTransfer`,
  `ReceiveFileData`/`ResetStatus` are such handlers. `findSession()` takes no lock in
  the handlers: while somebody else is being registered or may be erasing itself
  (`MayMiss`), a search may miss a session that is there (`ReceiveUnknown`). In
  `removeSession()` it is made under `accessMutex_`, like every change of the map, and
  misses nobody (`RemoveSession`). The module's own environment is clients that send
  any message at any time.

`Broadcast`
: What a walk over the sessions promises: everybody who is there from its start to
  its end is met, and nobody twice; a walk that is disturbed or broken off promises
  nothing.

`Registry`
: The same server with its map seen element by element and its messages left out:
  `BeginWalk`, `Visit`, `Advance`, `EndWalk` are the loop every handler has,
  `LeavesWalk` its `return` or `break` (server.cpp:186, 374),
  `LockToRegister`/`Register` and `LockToRemove`/`Remove` the changes under
  `accessMutex_`, `MainInitializes` to `MainEnds` are `main()` and `~Server()`. A
  thread that reads the tree while it is rebuilt, or goes on from an erased node,
  does something undefined: it crashes or arrives anywhere (`Disturbed`,
  `MainJoins`).

`ClientSession`
: The network thread (`Takes...`, `Cycle`, `ClientWrites`, `ClientEnds`) and what
  the user's keys start (`TypesText`, `TypesNickname`, `OpensDialog`/`SendsFile`,
  `UserAnswers`, `Quits`). A file is a set of blocks with positions, so an
  overwritten, truncated or incomplete one differs from the announced one.
  `task` keeps the order read, write, `cycle()` of an iteration.

`ClientUI`
: The two threads of the client key by key. `main` is the place of `main()` and
  `run()`, `net` that of the network thread; `key` is what the key read is for. Each
  read of `connection_` is a step of its own (`ChecksConnection` and `ChecksOnceMore`
  test it, `LoadsConnection` reads it again for the call), so that the session can go
  between them; a call of a session that is freed may crash or not. `~Client()` is
  `CancelsThread` and `Destroys`: the cancellation may meet the network thread in the
  `close()` of its session's destructor, and the thread then unwinds or brings the
  process down (`Unwinds`). `lost` and `acted` count the keys that `run()`
  drops or acts on during a question.

`Messenger`
: `Server` with the real client in place of the free one, and the safety properties of
  the whole. It implements `Server` (`ImplementsServer`). A thread may take the next
  whole message of its stream at any time, and need not.

`Reception`
: `Messenger` and what is left in `buffer_` behind the message handed over.
  `readData()` calls `recv()` once and `parseMessage()` once, so of several messages that
  come in together the others wait until more bytes arrive, which need not happen
  (sessionbase.cpp:323-341). `serverBuffer` and `clientBuffer` count the messages of a
  stream that are in the buffer already; a thread takes one only when `recv()` has
  something to receive, and leaves any number behind it (`LeftBehind`). A block that is
  not the last has the size of the buffer and comes in alone. All liveness of the whole
  is stated here, over a fairness that never forces a thread to take what waits in a
  buffer.

`OneRequest`
: `Messenger` in which users ask to send one file, all together (`RequestsFile` in
  place of `SendsFile`); everything else is as free as before. What the answers of
  one transfer do to the next is shown by the violation runs; this is where the
  promises hold, whoever joins, leaves or answers and whatever queues are full. Only
  that nobody is aborted has two hypotheses, which name the races that break it
  (`SenderStays`, `AnswersInTurn`).

`MCSessionBase`, `MCServer`, `MCRegistry`, `MCMessenger`, `MCReception`, `MCOneRequest`
: Instances and bounds. `MCMessenger` says which users may do what, and who has joined
  at the start. `ClientUI` needs none.

`ReceiveBufferProofs`, `SessionBaseProofs`, `ServerProofs`, `RegistryProofs`,
`ClientUIProofs`, `MessengerProofs`, `ChatProofs`, `TransferProofs`
: The theorems.

Definitions whose comment begins with "Mutant of" are altered forms of the
definition below them: each property of a passing run is violated when one of
them takes that definition's place.

### How the models fit together

`SessionBase` refines `ReceiveBuffer`, which refines `Channel`: messages arrive
whole and in order, and at no promised time. That is what `Network` takes for granted, and `Server` and
`ClientSession` are written over it; `Messenger` composes the two and refines
`Server`. `Reception` adds what `ReceiveBuffer` knows about the time of arrival: it has
no behaviour that `Messenger` does not have. `Registry` looks at the map `Server` treats as a set: it refines
`Broadcast`, the promise that a walk of `Server` in one step relies on, and says when
the promise is off. `ClientUI` looks at the keys that `ClientSession` treats as
single steps.

### Abstractions

- In `Server` a walk over `sessions_` is one step; what a change by another thread
  does to it is in `Registry`, where a walk that is disturbed loses every promise. The
  assignment of the mode at server.cpp:305 belongs to the walk that follows it.
  Two walks that overlap may reach two receivers in different orders, so nothing is
  said about the order of the texts of different senders.
- Some pairs of lines are one step, as nothing checked tells them apart:
  `setNickName()` and the answer (sessionclient.cpp:71, 72) in `Rename`, the mode and the
  sender's mark (server.cpp:283, 284) in `ReceiveFileData` (between them
  `ActiveTransferHasSender` fails for a moment), the test of the queue and the call of
  `sendMessage()` (sessionserver.cpp:207, 246) in `Cycle`.
- A client that closes while whole messages wait in its buffer has read them, for the
  kernel; in `Network` they count as unread, and an end that closes then resets its
  connection, so that the first message written to it is fatal and not the second.
- A block is a position in its file. That of a file whose length is a multiple of the
  blocks' ends with a last block without data; a receiver is held to that one too.
- Payloads are those that the program writes: `fromRawBytes()` refuses none.
- Pushing to and popping from a queue are atomic: after a race of the two on a
  `std::list` nothing could be said.
- In `Server` and `ClientSession` one `poll()` serves one event; several at once are
  in `SessionBase`. A message is sent whole.
- Sessions are named by their client, who connects once: the address of a freed
  session is not used again. `Address` orders the walk: the last flagged session it
  meets is taken for the sender.
- The comparison of nicknames (server.cpp:168) reads past the copied name.
  `SpaceExtends` holds the pairs of names where that *can* find a clash; every
  other pair never does.
- A receiver keeps the file name it is offered. A file that cannot be opened for
  writing is not modelled. Texts are `<<client, number>>`, names model values.
- `MaxOffset` caps the blocks of one transfer, in the guard of `Cycle`: only a
  stale handle of mode "w" would send more than a file has.
- Creating a thread succeeds. In `Registry`, when `main()` has returned, the threads
  of sessions that came too late for `~Server()` end with the process: what they do
  with the freed server in that moment is left out.

## The runs

| Run | Module | What it shows |
|---|---|---|
| `session_base` | `MCSessionBase` | types, room, step; the loop refines the read path and `Channel`; what is accepted is sent, what came is read, and the thread ends |
| `server_open` | `MCServer` | types, sender of an active transfer, when a session is unknown, threads and sockets, against arbitrary clients |
| `registry` | `MCRegistry` | the mutex, who can be unknown and when, walks refine `Broadcast`, a server told to end does |
| `client_ui` | `ClientUI` | keys of a question, the session lets go before `Client` is deleted, one BYE, quitting or losing the server ends the program |
| `one_transfer` | `MCOneRequest` | three clients, one request, all may quit: data after all answers and to receivers only, files complete, the transfer kept for its sender, nobody aborted but by two races |
| `transfers` | `MCReception` | two clients, three requests of one sender: the same, no abort, what starts is received, who connects is named, who quits gets away |
| `chat` | `MCReception` | from the start: connecting, one rename, three texts, quitting: order, no gaps, names, nobody thrown out; the whole refines `Server` |

The bounds and why they are enough:

- `session_base`: a header of 2 bytes, a buffer of 8, five messages: header only,
  with payload, of exactly the buffer's size, and two short ones that fit together.
  Three messages to send and a limit of 1, so that the queue fills, is refused a
  message and empties; one signal, which leaves stale events of every kind.
- `server_open`: two clients (a pair is what every race needs), three messages
  in all of any type, a queue limit of 1 so that drops happen, one message in
  flight each way.
- `registry`: three sessions, so that a walk has a node before, at and behind it;
  one of them walks, any number of times, while all join and leave; one signal,
  at any time. Two walks do not touch each other's state.
- `client_ui`: two questions, so that one can follow the other's last key; the keys,
  the server's leaving and the ends are free.
- `one_transfer`: three clients, since only the third makes the order of two
  answers matter; a file of two blocks, so that there is a block that is not the
  last; two messages in flight. No queue ever fills at
  `QueueLimit` 4.
- `transfers`: two clients, where answers left over do no harm (the one other
  client always answers anew); three requests let a second start on the leavings
  of a first and a third on those of a second. Besides, one client may join another who
  sends no file. One text, and two messages in flight: the least that lets a name or
  the last block of a file come in behind a text and wait. The receiver may quit.
- `chat`: two clients, three texts, so that one is between two others, and one rename
  by the user who types, so that a text passes a rename; two messages in flight, so that
  two can come in together. `QueueLimit` is 9, above all this traffic: `sendMessage()`
  is documented to refuse a message when its queue is full, so that texts are lost
  then is no surprise, and only `server_open` and `session_base` let queues fill.

The runs that begin with `Joined` start with everybody connected and named, a
state `chat` reaches (`JoinedBy` with some of them); it removes only the interleavings of logging in. Deadlock
is not checked: the system rests when all users rest, and a process that has ended
takes no step.

Five runs show what the code does against what it or its description says;
each stops at the shortest behaviour of its kind:

| Run | Broken promise | Cause |
|---|---|---|
| `unique_names` | "Check if the new name is unique" | the NUL turned blank (server.cpp:168) |
| `transfer_complete` | "Reset the file transfer status for the next file" | only the sender's is reset (sessionclient.cpp:148); needs three clients and a second request |
| `client_abort` | "cancel the transfer for everybody else" | notice sent to the leaver (server.cpp:512); the late answer is fatal (sessionserver.cpp:101) |
| `transfer_stuck` | the sender gets the OK when everybody has answered | an answer between server.cpp:328 and sessionclient.cpp:137 |
| `all_rejected` | "... and at least one has said yes" | the sender's own status counts (server.cpp:377, sessionclient.cpp:137) |

`NoClientAbort` and `ReceivedFileComplete` therefore appear twice. Files are complete
for a first request (`one_transfer`) and with two clients (`transfers`), and not
beyond. Nobody is aborted when there are two clients and the sender stays
(`transfers`: its only quitter is the receiver). With three, a sender that stays can
be aborted in a first request already, when nobody leaves: two answers are both
saved (sessionclient.cpp:99) before either is counted (server.cpp:360), each count
tells the sender to start, and the second Accept finds a short file already sent
(sessionserver.cpp:80). That and the sender's leaving are all there is:
`AbortedByRacesOnly`, in `one_transfer`, says that nobody is aborted in a first transfer
without one of the two. Neither hypothesis can be left out: `client_abort` shows what
the sender's leaving does, and without `AnswersInTurn` TLC finds the double count in the
very instance of `one_transfer`. `TransmitterHoldsTransfer`
is checked with one sender: with two, both can pass the test at sessionclient.cpp:124
before either sets the mode, and the first last block ends the transfer for both.

Some promises are narrowed by a case in which the code does not keep them, and say
so: `DrainsBeforeEnding` and `DisconnectionEnds` leave out a thread that a signal
interrupted in `ppoll()` (it acts on stale events, and may wait in `recv()` for
ever); `QuitsWhenTold` begins with a signal that finds `main()` waiting (an
earlier one is forgotten by the second `sem_init()`, main.cpp:83) and leaves out a
server with a walk gone astray; `QuitEnds` and `LossEnds` count a crash as an end (a
session can delete itself between `run()`'s test of `connection_` and the call).
`AcceptedIsSent` ends with the loop: what is queued between the loop's last test and
the erase of the session (server.cpp:515) is accepted and lost. `NamedAtLast` and
`StartedIsReceived` allow one thing besides an end, that the name, or the last block, has
come in whole behind another message and stays in a buffer for ever, and each is
refuted by TLC without that. `UnknownOnlyInChanges` allows
the server to miss a session whenever another thread may be changing the map.

### Fairness

- `ReceptionFairness` is weak fairness of every thread: the listening thread's two
  steps, each server session as a whole (`SessionThread`), each client's network
  thread as a whole (`ClientThread`). The operating system schedules every runnable
  thread and `pollForData()` polls with a timeout of one second for as long as it lives;
  no thread waits for a lock in these steps. A thread whose stream is all in its buffer
  has nothing to receive and need not take anything. Fairness is not asked of single
  actions of a thread: which of them happens is decided by the socket, and so is how
  many messages a `recv()` joins. Users are only assumed to answer a question they are
  asked (the program shows nothing else until they do); they need never type, send or
  quit. `transfer_stuck` refutes its property under exactly this fairness. Module
  `Messenger` has none.
- `LoopFairness` is weak fairness of the thread as a whole (`LoopStep`), and
  strong fairness of a poll that reports room to write: a peer that goes on reading
  makes room again and again, and the thread polls again and again. `DisconnectionEnds`
  needs it, since a queue only empties into a socket with room.
- `ReceiveBuffer` by itself has weak fairness of reading data and of reading nothing.
- `Registry`: weak fairness of `main()`, of registering, of the steps of a walk and
  of a removal; strong fairness of the two waits for `accessMutex_`, which other
  threads take and give back in between.
- `ClientUI`: weak fairness of both threads, of keys (the user goes on typing:
  `run()` notices a lost connection only when `getch()` returns) and of an answer to
  every question. The character put back by `ungetch()` is not a key typed.

## What is proved

`ReceiveBufferProofs`, from `StreamAssumption` alone:

- `TypeCorrect`, `AlwaysRoom`, `AlwaysInStep`: `Spec => []TypeOK`,
  `[]BufferHasRoom`, `[]InStep`. `InStep` alone is not inductive: that a parsed
  header is one of the stream's, and that there is a next message at all, needs
  `ReceivedWasWritten` (no byte is taken and no message delivered that was not
  written), and all of them need the types; `IInv` is their conjunction. The
  heart is that a
  header identifies its message (`OneHeader`, from the fact that messages' ends
  increase), that filling keeps the buffer in step (`FilledInStep`), and that
  parsing an in-step buffer finds the next message or nothing yet
  (`ParsesNextMessage`). Room is left because a message that is still
  incomplete is shorter than the buffer, and a parsed one frees its length.
- `Refinement`: `Spec => Implements`. Initial states map to initial states,
  `PeerWrites`/`PeerCloses` to `Send`/`Close`, a `ReadData` that completes a message
  to `Deliver`, any other to a stutter, `ReadNothing` to `GiveUp`
  (`GivesUpAfterClose`: it is enabled only after the close, since there is room).

`SessionBaseProofs`, from `LoopAssumption` as well:

- `LoopReads`: each step of the loop is a step of `ReceiveBuffer` or a stutter, hence
  `LoopIsChannel` and the invariants of the read path in the loop (`LoopHasRoom`,
  `LoopInStep`), and `LoopTypeCorrect`.
- `DisconnectsWhenSent`, `DrainsFirst`, from `LoopInv`: what was sent followed by
  what is queued is the sequence accepted (`QueuedInOrder`), so that a loop left with an
  empty queue, as one left without an error is, has sent all that was accepted by then;
  without signals an error means that the peer has closed, and one of reading that its
  stream is at its end (`FailuresAreEnds`); only the end of the loop gives the stream up
  (`EndsOverLoop`). `SendMessage` goes on behind the loop, which is why the first is
  about the step that leaves it.

`ServerProofs`, from `NoClientAssumption`, `AddressAssumption` and those of
`Protocol` and `Network`, for any set of clients:

- `TypeCorrect`, `TypesHold`: handlers cut into steps carry their message in
  `hand`; `HandsFit` says it is one the step can work on, and is what makes the
  types inductive.
- `TransfersHaveSenders`, `ThreadsAndSessions`, `UnknownOnlyInRaces`, from
  `IInv`. The strengthening: threads in the middle of a handler belong to
  registered sessions (`HandlersRegistered`), the newcomer is unregistered.
  Removal then clears the mode with the mark of the leaver, a last block with the
  mark of its sender, and an unregistered poller can only be the newcomer; a search that
  misses a registered session overlaps a registration or the way out of another.

`RegistryProofs`, from `RegistryAssumption`, for any number of sessions and walks:

- `MutexGivenBack`, `UnknownNeedsARace`: a running thread that is not registered is
  the newcomer's (`UnknownIsNewcomer`).
- `WalksKeepTheirPromise`: the walks refine `Broadcast`. The invariant
  (`OnItsWay`): whoever was there from the start and has not been met lies at or
  behind the iterator in the order of addresses, whoever has been met before it. It
  survives the insertion of newcomers on either side and the removal of anybody who
  is not under an iterator, and a handler that leaves its walk owes nobody anything; only the removal of the node a walk stands on, or a
  move while the mutex is held, disturbs it.

`ClientUIProofs`, from `UIAssumption`: `KeyboardIsTheQuestions`, `SessionLetsGo`,
`GoodbyeOnce`, from `UIInv`, which relates `lost` and `acted` to the place where
`run()` is while the lock is held (`Keyboard`), the semaphore to the places of both
threads (`Ending`), and the number of BYEs to the flag (`Goodbyes`).

`MessengerProofs`, from the assumptions of `Server` and `ClientSession`, for any
numbers of clients, files, names and texts:

- `SystemTypes`: the types of server and clients together. `TransfersFit` (a handle
  that is open fits the transfer and its file), `RequestsFit` (a question belongs to a
  client that is being asked) and `EndsFit` (a client's socket agrees with its
  state) make them inductive.
- `SystemImplementsServer`, `SystemIsServer`: every step of a client program is one
  that `Server` allows its free environment, so what is proved of `Server` holds of
  the whole; `SystemTransfersHaveSenders` is such a consequence.
- `ReceptionIsMessenger`: each step of `Reception` is one of `Messenger`. So this and
  all that follows holds however `recv()` joins messages.

`ChatProofs`, over the same `MessengerSpec`, for any numbers of clients and texts:

- `TextsInOrder`, unconditionally: queues may fill and drop, connections break. The
  invariant `OrderInv` follows a text along its line: the queue of its client and the
  connection to the server (`Outgoing`), then the queue of a session and the connection
  to its client (`ToCome`). Texts are in order in each line, the line's author is who
  typed them, what a client has been shown comes before what is still to come to it,
  and that before what the server has yet to read. Three steps move a text from one
  part to the next (`TypesText`, `ReceiveChat`, `TakesChat`); every other step is
  `Calm`: it keeps the texts of every line in place, or cuts off those at the end of a
  line one of whose programs is ending.
- `TextsWithoutGaps`, for behaviours in which `QueuesHaveRoom` always holds, that is
  in which `sendMessage()` drops nothing. It is a hypothesis because dropping from a
  full queue *is* what makes a gap; `chat` satisfies it in all its states. `GapInv` says
  that from the first text of d's that c has been or will be shown, all that d has
  typed is shown, to come, or on its way to the server (`SeenWhole`), and that a line
  to the server is complete from its first text on (`LineWhole`). It rests on
  `PresenceInv`: a client that has no session has been sent nothing, so a newcomer
  starts with nothing and not in the middle.
- `NamesKeptInStep`, under the same hypothesis (a full queue that drops a NICKNAME
  leaves a client with its old name). `ToldItsName`: the last name in the line to a
  client, or if there is none the one it knows, is its session's name, or nobody has
  told it one. Only the answers to HELLO and NICKNAME add a name to a line
  (`HandlersAdd`), and reading takes the first (`ToldRest`).

`TransferProofs`:

- `NobodyDisconnected`, over `MessengerSpec`: what a client has yet to say to its
  session fits the session's state (`LoginInv`). A line to a session in state START
  begins with HELLO, the only one in it; nothing that changes the state follows a BYE
  (`ByeIsLast`), since the prompt is gone once `disconnectionFlag_` is set. It is needed
  below too: a session then ends only after its client has closed (`NobodyLeaves`).
- `AnsweredBeforeTransmitted`, `TransmitterKeepsTransfer`, `DataReachesReceivers`, over
  `OneRequestSpec`, for any numbers of clients, files and blocks, with no hypothesis about
  queues: dropping a message only ever stops a transfer. (`OneRequestIsMessenger`: it is
  the whole system, with nothing added.) They need to know who asks, or their first
  counterexample is a second request: see `transfer_complete`.

  The invariant `TransferInv` says who knows how much. Until the request is announced
  nothing of it is known anywhere (`Untouched`). A user's answer is in exactly one place:
  not yet asked for, on its way to the server, in its handler's `hand`, or in
  `fileTransferStatus` (`AnswerInv`), so that an answer the server counts is one to this
  request. Once the sender may start, or blocks are on their way, nobody is asked
  and no answer is under way (`VerdictInv`). The mode stays on until the last block is
  with the server (`HoldInv`), blocks come only to clients whose accepted answer the
  server has (`DataInv`), and each line has at most one request and one last block, with
  no block behind it (`TidyInv`). `StrangerInv` covers clients that join meanwhile: who
  is not registered has been told nothing.

  A step either moves one message from one place to another, or adds one; what it does
  to a line is said by `LongerLine` and `ShorterLine`, and most steps are *quiet*: they
  leave everybody knowing what they knew or less (`QuietFor`, `LessKnown`). The steps
  with work of their own are the announcement, the taking, saving and counting of an
  answer (`AnnounceKeeps`, `AnswerIsTaken`, `AnswerIsSaved`, `VerdictIsTold`), the block
  that is sent, passed on and saved (`SendsBlockKeeps`, `BlockHandler`,
  `TakesBlockKeeps`), and the leaving of a session (`HangupKeeps`).
- `ReceivedFileIsWhole`, over `OneRequestSpec`, for behaviours in which `QueuesHaveRoom`
  always holds: dropping a block from a full queue makes a hole, and nobody is told (with
  `QueueLimit` 1 and a file of four blocks TLC shows one). `one_transfer` satisfies the
  hypothesis in all its states. Of the constants it needs in
  addition that garbage and no data are not blocks of a file (`ContentsAssumption`).

  The invariant `FileInv` follows the blocks of the file. The sender's handle is at the
  block it has announced as its offset (`SourceFits`). A client that receives has saved
  exactly the first `Count` blocks (`ReceiverFits`), and those it has not are on their
  way (`Pipe`): in the line to it those up to some n, in order and without a gap, and in
  the sender's line those from n to its offset (`Sends`; both are a `Stream`). So
  the block that `cycle()` reads goes to the end of a stream, the one that the server
  passes on from the head of one to the end of the other, and the one that `saveData()`
  writes is the next. A client whose answer comes late misses nothing, as nothing is sent
  before all answers are known (`AnswerReachesServer`, `NothingSent`, by `TransferInv`).
  Everybody is asked about that one file (`RequestIs`), no file is open before or after
  (`RestFits`), and the disks hold whole files until then and the sender's for good
  (`HasWhole`): a stale handle is what a second request meets in `transfer_complete`.
  Whoever a step leaves out is `NotInvolved`.
- `OnlyRacesAbort`, over `OneRequestSpec`, whatever the queues drop: `AbortedByRacesOnly`.
  A client aborts over a status it cannot relate to a transfer of its own, so the
  invariant is about who can still be told one. `ToldInv`: only the sender is told
  anything, namely to start, at most once (`OneStart`) and when it has not started;
  as long as somebody has been asked and has not answered (`Waits`) the transfer is
  active, so no answer is refused; and from the moment the sender is told, every answer
  has been saved and counted (`Spent`), so nobody can count them again. This last part
  is where `AnswersInTurn` comes in: the session that finds all answers there is then
  the only one with an answer not yet counted (`VerdictTold`). `AliveInv`: as long as the
  server runs, nobody's connection ends but by the user who quits, and the sender's does
  not, so that no `removeSession()` frees the transfer (`SessionsTold`); this is where
  `SenderStays` comes in. Both rest on `TransferInv` and the invariants below it. What
  brings a client nothing of all that is `Unmoved`.

Only model-checked:

- liveness (`SessionEnds`, `DisconnectionEnds`, `QuitsWhenTold`, `QuitEnds`,
  `LossEnds`, `StartedIsReceived`, `NamedAtLast`, `QuittersLeave`), which needs ENABLED
  and fairness and is out of the prover's reach;
- The transfer properties beyond the first request, in `transfers`. Among them
  `NoClientAbort` without the hypothesis that answers are counted in turn: with two
  clients only one other session answers.

No module with a theorem uses recursion; induction over data is nowhere needed, as
streams are functions on positions.

## Not modelled

- The layout of messages in bytes, and the truncation of names, texts and paths:
  single-threaded string code. `ReceiveBuffer` has the lengths of messages, `Protocol`
  their fields.
- `HISTORY_SIZE`, the text of the line editor, drawing, logging, parsing of
  arguments: no property of the concurrent system depends on them.
- Races on one `std::list`, on `chatHistory_` and in ncurses: undefined, with nothing
  left to state.
- Threads that cannot be created, and ended threads that are never joined.

What would come next: a receiver whose disk refuses the file; what a second request of
the same sender may rely on when there are two clients, as a theorem.
