# TLA+ models of IOCP-GameChatServer

A Windows chat and game server: an accept thread, a pool of IOCP workers and one
game thread. This directory holds models of its session life cycle and of its
shutdown, of the framing of the byte stream, of the game thread's world of players
and rooms, and of the console client with the messages it is sent, with TLC runs over small instances and proofs for all instances. Paths below
are relative to `src/`; `S/` stands for
`IOCP-GameChatServer/IOCP-GameChatServer/`.

## The system

| part | state | operations | talks to |
|---|---|---|---|
| Session (`S/Session.*`) | state, gameCleanupDone, pendingIO, destroying, recvPosted, closeIssued, sock, recvContext, recvRing | PostRecv, PostSend, SendPacket, OnRecvComplete, OnSendComplete, RequestClose, Close, TryBeginDestroy | kernel, packet gate, game server |
| Network (`S/Network.cpp`) | m_sessions, IOCP, listen socket, m_running | AcceptThread, WorkerThread, TryDestroySession, AddSession, RemoveSession, shutdown | sessions, game server |
| framing (`S/RingBuffer.*`, `S/Packet.*`) | buffer, readPos, writePos, storedBytes | Write, Peek, Has, Skip, the parse loop | session |
| packet gate (`S/Protocol.cpp`) | none | ProcessPacket | session, job queue |
| job queue (`S/GameJobQueue.*`) | a deque under a mutex | Push, Pop | workers, accept thread, game thread |
| game server (`S/GameServer.*`) | players, rooms, nextGameRoomId, nextPlayerId, nextMatchId | connect, disconnect and the packet handlers | rooms, players, sessions |
| Room, Player (`S/Room.*`, `S/Player.*`) | members, capacity, gameStarted; state, name, ready, room | Join, Leave, BroadcastChat | each other |
| FSM (`S/FSM.*`) | the constant table g_FSM | GetHandler | game server |
| shutdown (`S/Network.cpp`, `S/GameServer.cpp`) | server state, m_running, running | ConsoleHandler, Shutdown, RequestShutdownAllSessions, StopWorkerThreads, main | everything |
| serialisation and map (`S/GameServer.cpp`, `S/Player.cpp`) | none | Writer, SendRoomState, TryStartGame, SendChat, IsWallTile | clients |
| console client (`client/client.cpp`) | running, sock | main: login, enter, chat, quit; RecvThread | the server |
| Unity client (`client/client.cs`) | running, socket, two queues | Connect, Disconnect, Update, RecvLoop | the server |

Packets go client -> kernel -> worker (OnRecvComplete, ProcessPacket) -> job queue
-> game thread (OnPacket, FSM, handler) -> SendPacket of some sessions -> kernel.
A session's raw pointer is at the same time the IOCP completion key, the `session`
of the jobs, a key of `players`, and a field of Player. Nothing counts
references: what keeps the memory alive is the release protocol, that is the
three conditions of `TryDestroySession` and its claim.

What is hard: the release protocol, whose steps interleave on any number of
threads; the state that is spread over FSM state, room, capacity and start flag
and moved about by two families of clients, chat and game; the stop, in which five kinds of
threads end by waking and waiting for each other; and the boundaries of
the ring buffer and of packets. What makes each part correct: a session is freed once, in the
end, and never under the kernel, the game thread or another worker; packets
reach the game whole, in order and around their connect and disconnect; players,
rooms and FSM states agree; the rooms keep the promises of `docs/protocol-v1.md`; server and
client threads all end.
`PROJECT.json` lists the hazards at their lines.

## Modules

**Session** (`S/Session.cpp`, `S/Network.cpp`, `S/Protocol.cpp`, `S/GameJobQueue.cpp`,
the ends of `S/GameServer.cpp` that touch a Session). A step is one access to a
shared field or one kernel call, so three loads of three atomics are three steps.
A thread's place is `pc[t]`, the pointer it holds `cur[t]`, and since
RequestClose is called from many places, `ret[t]` is where it returns to. The fields
have their names; `mem` tells whether the object exists. The kernel is `recvIo`,
`sendIo` (accepted I/O that no worker has taken up, whether completed or not)
and `cleanupMsgs`; a WSARecv or WSASend on an open socket is accepted or fails, on
a closed one it fails. What game handlers do to a session, a series of sends and
perhaps a close, is `task`, `subject` and `todo`; which sends is left open
here and settled in GameServer, and a job sends a session one packet at most, where HandleReady may send it two
(`S/GameServer.cpp:629-630`); sends of different causes do overlap. A freed object is still read with its last contents, the
mildest outcome of a use after free: properties that forbid such a
use say so (`GameThreadSafe`, `KernelSafe`, `NoDoubleFree`). Every connection has an address of its own.

**SessionLife** is the abstract promise: unborn, open, closed, let go by the game,
freed; I/O starts only while open, and memory is freed only with no I/O held.
`Session!ImplementsLife` is the refinement.

**SessionReuse** is Session with an allocator that gives a freed address out again.

**Shutdown** (`S/Network.cpp`, `S/GameServer.cpp`) extends Session by the console handler, by
main, by the accept thread's own loop and by what a stopping server tests: `serverState`,
`m_running`, `m_lock`, the listen socket (`listenOpen`) and the workers' exit messages. The
handler walks the registry while it holds `m_lock` (`unsent` is what it has before it), sending
and closing with the very steps of Session. Steps of Session that stopping does not change are
used as they are (`UnchangedStep`); the others have a form of their own (`StopSendCheck`,
`StopParsePacket`, `PacketJobCheck`, `LockedRemoveSession`). `StopSpec` lets main sleep, so that what the
others do is seen to its end. `AcceptFail` is the failing accept() of a closed listen socket; one that fails while the
socket is open makes the loop come back to accept(), or end as `AcceptLoop` does, and has no action of its own. In `ExitSpec` main returns when the code lets it, and
everything stops.

**Framing** (`S/RingBuffer.cpp`, the parse loop of `S/Session.cpp`). A byte is a
record (packet, place, stated size), so that bytes lost, repeated or out of
order are seen. The body of a packet and its header are skipped by two calls
in the code, with ProcessPacket between them; nothing else reads the ring in that time
(`Session!OneReceiver`), so one action does both. The branch in which Peek of the body
fails cannot be taken after `Has(header.size)` and is left out.

**GameServer** (`S/GameServer.cpp`, `S/FSM.cpp`, `S/Room.cpp`, `S/Player.cpp`). One
game thread: a job is one action. Helpers take a world (players and rooms) and
return one, in the order of the code's calls. Names are their lengths: `BroadcastRoomState` and
`Chat` ask **Wire** whether SendPacket drops the message for its size, and `sent` holds what is not dropped, of the
last job and in order. Whether the session is closing, the other reason to drop a message, is the subject of Session. A
room state of 2^16 bytes or more, which SendPacket takes for a shorter one (see below), is in `sent` as if it were whole. `NewRoom` keeps the
room's number as its key; `RoomState` applies the truncation to 16 bits. `MixesRooms`
chooses the clients: any client, or clients that do not move by CS_ENTER_ROOM
into or out of game rooms. Clients name any room, numbers not given out yet included. One step is left out:
an assigned room whose number is in use already (a conjunct of `JoinRoom`'s guard). **GameServerNumbers** has that step
too, and ends after it. What is checked and proved of GameServer holds of the server up to that step.

**Arena** has the map and the spawns of SC_GAME_START, in the code's coordinates, and which tiles can
be walked to.

**Wire** (used by GameServer and Client) has the sizes of what a client in a room is sent: names and texts are their lengths, and a
function that sends returns the packets it sends, none if it drops the message. **Client** is the
console client: main and recvThread, which share `running` and the socket, over a connection that may
break at any time and lose what was not read. The server is reduced there to what this client can see: the
FSM's answer to its three packets, the chats of peers and the room states of a game, and the stop. `said`
is a history: the chats of the room whose names leave room for a byte of text, that is those a client has to be shown.

**Match** is the abstract promise of waiting rooms: at most Capacity players, the game
starts in the step in which a full room becomes ready, nobody enters after that.

**SessionProofs** and **SessionJobProofs** hold the proofs about Session, **ShutdownProofs** and **ShutdownKernelProofs**
those about Shutdown (the second of each extends the first), **GameServerProofs** and **GameServerMatchProofs** those about GameServer,
**FramingProofs** and **ClientProofs** those about Framing and about Client and Wire. `MC*` modules and their `.cfg`
files are the instances; operators called a fault in their comments are
deliberately wrong variants of the definition after them, which show that the
properties notice; no specification uses them.

## Runs

| run | question | result |
|---|---|---|
| session_safety | is the release protocol safe under every interleaving? | passes |
| session_liveness | is every closed session deleted in the end? | passes |
| session_reuse | also if addresses are reused? | `NeverDeletesConnected` violated |
| lobby_mixed | do players, rooms and states agree, whatever clients send and whichever rooms they name? | passes |
| lobby | do game rooms keep their promises to clients that keep chat apart, and are they told of every change that fits into a packet? | passes |
| lobby_start | does a full and ready room always start? | `ReadyRoomStarts` violated |
| lobby_chat | are players in a game free of chat? | `NoChatInGame` violated |
| lobby_numbers | are room numbers new when clients choose any? | `NumbersAreNew` violated |
| framing | do packets survive the stream and the ring? | passes |
| shutdown | is the stop safe at any moment, and do all threads end? | passes |
| shutdown_exit | does the process wait for the stop? | `EndsInOrder` violated |
| client | does the console client get its chats, and end? | passes |

*session_safety*: two sessions, two workers, the game and the accept thread; each
client sends at most one packet (`MaxPackets`), a session has at most two sends
in the kernel (`MaxSends`). The properties relate one session to the threads, and the
second session is what lets a thread act on one session while another is being
freed, and what broadcasts reach. A packet is one cause of a send, a job and a kick; two
sends are outstanding when a kick and the game's answer meet. *session_liveness*
has one session, two packets and three workers: at most a receive, a send
and a cleanup completion of one session are taken at once before the fourth waits.
*lobby_mixed* and *lobby*: three clients, since a room of two can then be full
with one left over; room numbers 0 (assign) and 101, which a client can make itself before the server, which
begins with 100, gives it out or join after that; names of 8 bytes, the shortest a HELLO gives, and of 2036: a room state
with one long name fits into a packet, with two it does not (4093 bytes against 4092); the Lobby, number 1, being entered or asked for by nobody but
present from the start and searched by automatic assignment; two game
rooms numbered by the server (`MaxGameRooms`). Deadlock is not checked there
because the bound on rooms can leave the model without a new one. *framing*: header of 2 bytes, packets of
at most 4, receives of at most 4 bytes, four packets of sizes 1 to 5, so that the ring wraps several
times at every offset. The ring has 7 bytes, one fewer than the code's
ratio of 8192 to 4096: the smallest that suffices, so a larger one does too.
*shutdown*: one session, since the handler handles one after the other and each is closed,
sent to and deleted apart from the others; one worker, the game thread, the accept thread
and the handler, that is four threads that may close or send to the session at once; one packet and two sends
outstanding (the answer or kick, and SC_SHUTDOWN). The same instance with two workers and one
outstanding send (856 641 states) passes as well; it is not a run because it takes about
three minutes, and the interleavings of several workers are those of *session_safety*. The console event
may come before, while and after the session exists. *client*: two chats and two
messages from the server besides SC_SHUTDOWN; lengths on both sides of each limit: a name of 4083
bytes leaves one byte for a text, one of 4084 none, 4092 bytes are the most a client sends; room states of 1 and
of 17 names, the latter longer than 2^16 bytes. In both, deadlock is checked, so the final states are
exactly those in which all threads have ended.

### What the violations show

* `NeverDeletesConnected`: the game thread marks the cleanup done; before it posts the
  cleanup message, the worker with the session's last completion finds all three
  conditions met and deletes the session. The worker that takes the message then runs
  `TryDestroySession` on freed memory, whose old contents pass the checks; if the accept thread
  gets a new Session at that address before the claim, the claim succeeds and the
  new, connected session is deleted. Without reuse the checks and the claim are
  still made on freed memory. The cause is that a completion carries a pointer which nothing
  keeps alive, and that the conditions are read before the claim.
* `ReadyRoomStarts`: a ready player moves by CS_ENTER_ROOM into a game room where the
  other is ready; only HandleReady calls TryStartGame.
* `NoChatInGame`: CS_ENTER_ROOM takes a chat client into a room whose game
  runs, and its chat is sent to the players.
* `NumbersAreNew`: a client made a room with a number that is given out later, and it cannot be assigned, being a chat room, full or
  started; the counter then gives out that number, emplace does not insert, and the player gets a
  Room that is destroyed.

* `EndsInOrder`: the handler clears `m_running` before anything else; the accept thread, found between two
  clients, ends at once, and main, which waits for it alone, returns. The process is gone with
  no client told and the workers running.

Seen while modelling and not stated as runs, because one step of the code shows them:

* `OnPacket` drops a packet that the FSM does not admit without the SC_ERROR, code 3, of
  docs/protocol-v1.md:440.
* CS_JOIN_ROOM for room 65536 is answered with room 0, which docs/protocol-v1.md:178-180 tells clients
  to treat as a violation: `Room::roomId` has 16 bits.
* SC_ROOM_STATE is dropped by `Session::SendPacket` when the names in the room make it longer
  than 4096 bytes, and nobody there is told of the change, where docs/protocol-v1.md:196 promises a broadcast to the
  whole room at every change. CS_LOGIN takes names of up to 4092 bytes, and whoever logged in may join a room: two
  clients with names of 2036 bytes do (4097 bytes), in run `lobby`. So `ChangesAreTold` and
  `StartFollowsRoomState` are claimed of the rooms whose names leave their state in a packet, and of no others; without that
  condition TLC finds the second join of that example.
* Since `Writer::Size` has 16 bits, an SC_ROOM_STATE of 2^16 bytes or more (17 names of
  4084 bytes) wraps and its first bytes are sent as if they were all.
* In the stop: a Disconnect job can be pushed before the session's Connect job and a job behind the
  Shutdown job; a client that is accepted after the broadcast is neither told nor
  closed; a session whose jobs are not handled any more is never deleted, nor is its handle closed
  if it was accepted late (README.md:253, limit 3, admits the I/O that remains). The accept thread may
  use a session after it was deleted, between AddSession and PostRecv, when the handler closes it
  in between. None of this is claimed not to happen, and the process ends soon after; that is why
  `Shutdown` states neither `GameThreadSafe` nor `ClosedIsFreed`.
* The console client sits in getline when the server stops; it ends with the next line typed
  (`OneLineLate`), not before. That is why `ClientEnds` needs a user who goes on typing.
* client.cs: `ForceDisconnectFromWorker` closes whatever `socket` holds, a newer connection's included, if the
  game has reconnected meanwhile.

Further: README.md:40-41 says a chat room in use is refused with
ERR_ROOM_FULL, the code answers ERR_NO_SUCH_ROOM; docs/packet-flow.md describes
a send queue with one outstanding send per session, the code posts every send at
once; `S/FSM.cpp:64` says rooms are entered only after WELCOME, but LOGIN leads to the
same state; CS_ENTER_ROOM neither checks the capacity and the start of a game room nor
tells it of a change, which is why `lobby` needs clients that keep chat apart.

## Fairness

Safety needs none. *session_liveness* assumes that the system runs every thread (WF of
each thread's step and of the game thread), that an aborted I/O of a closed socket and a
cleanup message, once in the IOCP, are taken by some worker even while others keep
arriving (SF, as the IOCP is a queue drained by several workers), and nothing about I/O
on an open socket. *shutdown* assumes that every worker goes on with what it has taken up (WF), that the
other threads, which cannot go on for ever, are not all left idle while one can run (WF), and
that an exit message is taken by some worker even while completions keep arriving
(SF); no console event, client or I/O is assumed to come. *client* assumes that main and
recvThread go on (WF), which for main means that the user types lines; neither a quit nor a chat
is assumed among them, nor anything of the server or the network. *framing* assumes that what the client sent is received and that the worker goes on.

## Proofs

Each theorem holds for every value of the constants that the module's assumption admits. The
assumptions are what the code's types and constants give: finitely many workers; threads, console handlers, null pointer and "no room"
distinct from sessions and from each other; bounds that are numbers; a ring with room for a buffer and all but the last byte of a packet
(8192 against 4096 + 4095).

| module | theorem | property |
|---|---|---|
| SessionProofs | `TypeCorrect`, `PendingIOIsExact`, `KernelIsSafe` | `TypeOK`, `PendingIOCounts`, `KernelSafe` |
| SessionJobProofs | `DisconnectedOnce`, `JobsInOrder`, `GameThreadIsSafe`, `DeletedOnce`, `ReceiverAlone`, `LifeImplemented` | `DisconnectOnce`, `JobOrder`, `GameThreadSafe`, `NoDoubleFree`, `OneReceiver`, `ImplementsLife` |
| ShutdownProofs | `RegistryIsSafe`, `BroadcastLeavesNoneConnected`, `ReportedOnceStopping`, `PacketsFindTheirPlayer` | `RegistrySafe`, `BroadcastCloses`, `DisconnectOnceStopping`, `PacketsFindPlayer` |
| ShutdownKernelProofs | `StopTypeCorrect`, `KernelSafeStopping`, `LifeImplementedStopping` | `StopTypeOK`, `KernelSafe`, `ImplementsLife` |
| GameServerProofs | `GameTypeCorrect`, `RoomsAndPlayersAgree`, `StatesAreTrue`, `StartIsAnnounced`, `AutoJoinNeverRefused`, `ChatIsLeftAlone`, `SpawnsAreApart` | `TypeOK`, `MembershipAgrees`, `StateAgrees`, `StartFollowsRoomState`, `AutoJoinSucceeds`, `ChatRoomStays`, `SpawnsApart` |
| GameServerMatchProofs | `EveryoneIsTold`, `RoomsImplementMatch` | `ChangesAreTold`, `ImplementsMatch` |
| FramingProofs | `FramingTypeCorrect`, `OnlyWholePackets`, `RingNeverOverflows`, `NoByteIsLost` | `TypeOK`, `PacketsIntact`, `ClosedForCause`, `StreamIntact` |
| ClientProofs | `ClientTypeCorrect`, `ChatsShownInOrder`, `PacketsAccepted`, `OneLateLine`, `ChatIsWhole` | `TypeOK`, `ChatsAreShown`, `PacketsAreAccepted`, `OneLineLate` |

**Session, memory and the kernel.** `KernelSafe` alone is not inductive: to know that the worker at `delete` frees
nothing the kernel holds one must know what its three loads, made at different times, say about
now. `IInv` adds: `TypeInv` (types, and that a thread that is not idle holds a session);
`PendingIOCounts`, so that a load of 0 means no I/O in the kernel or in a thread's hands;
`Born`, so that what is queued or worked on was created and is not reset by AcceptClient;
`ClosedBefore`, that behind the cleanup flag, the Disconnect job and the label after the second load
the socket is closed, for good, so that no I/O can start; and `NothingHeld`, that
from the third load on there is none. pendingIO itself may rise again after
it was read as 0 (a late PostSend counts, then fails), which is why the argument goes through
`recvIo` and `sendIo`. The preservation is a lemma per function of the code, and
one per kind of step (a step that leaves I/O alone, one that passes an
I/O from the kernel to a thread, one that gives it up).

**Session, jobs.** `JInv` follows the report of a connection's end as a token: from the compare-exchange that wins
RequestClose it passes from the closing thread to the queue, to the game thread and into `gameCleanupDone`, and is in
one of these places (`Once`). The Connect job is ahead of every other job of its session (`Ordered`), since nobody
knows the session before the accept thread has queued it (`Sole`). The game thread forgets a session before it marks it
cleaned up (`Retired`), and no thread deletes it earlier; hence no pointer of the game or of the accept thread
is ever to a deleted session.

**Session, release.** `Destroying`: the flag is claimed by one thread, which alone is at the labels of the deletion.
`Receiving`: the receive posted in the kernel, or the one thread in the receive path, which becomes the other only
by the WSARecv that ends it. The refinement of SessionLife takes these together: a session's `Phase` is read off its fields,
nearly every step of Session is a stutter, and the close, the cleanup flag and the
delete are the abstract steps, whose guards (no I/O is held when memory is freed) are `IInv`. `Phase` is
written as a chain of IFs, its cases being disjoint only in reachable states.

**Shutdown.** `RInv` is about the registry. The lock has one owner, which is at the labels of the broadcast
(`Locked`, with `OneHandler`: the compare-exchange of Shutdown lets one handler through), and sessions enter and leave the registry only while
nobody has it; so what the broadcast has before it stays registered, and what it has behind it is not connected (`Told`).
A session leaves the registry before it is deleted (`Registered`), and one that is not in it yet is known to nobody but
the accept thread (`Strangers`), so that no other thread deletes what is about to be added. `Once` is the token of
DisconnectOnce again, which here passes through handlers too. `Finding` is why the tests of IsShuttingDown, made by different threads and apart from
the pushes, suffice: while the server runs nobody receives from a session that was not announced (`Receivers`), since
the accept thread's test fails before its first PostRecv; a worker past its own test has seen the server running after
that (`rx_queue`); and an announcement stays ahead of the packets (`PacketsInOrder`).

**Shutdown, memory and the kernel.** The broadcast sends to sessions and closes them from a thread that Session does not have, between any
two steps of the others, so `IInv` is not enough and `KInv` takes its place. `StopCounts` is the exact counter with the handlers among the
threads that may hold an I/O in hand; `ClosedFirst` is that a close, a report, the cleanup flag and a deletion come after the socket was
closed, whichever thread closed it; `HeldByNone` is that from the third load of TryDestroySession on the kernel holds nothing. `Releasing`
adds that the game marks a session once, that workers claim it after that and that one does; the refinement needs it, since
the mark and the deletion are steps of SessionLife. Most steps are one of a few shapes
(`Ordinary`: nothing is created, closed, claimed or deleted); the lemmas per function show the shape, and one lemma per
shape shows that it keeps `KInv`.

**GameServer.** `GInv` is about the world between two jobs: records and keys are what they should be (`IsWorld`); a
room lists exactly the players that point to it, each once (`Agrees`); the FSM's state says whether a player is in
a room and whether its game runs (`StateTrue`); the counter of game rooms starts at its first number and counts up (`NumbersInv`); mail
goes to sessions with a Player. That the next number is free is no part of it, since the code does not provide for it: all these theorems hold
whatever rooms clients name, and say nothing of what follows the step in which the number given out is in use (`lobby_numbers`). Inside a job these do not hold: between leaving one room and joining another a
player's state is not true. Therefore each helper (`Leave`, `Join`, `AcquireGameRoom`, `StartGame`...) has a
lemma about one call, what it changes in a world and what of the invariant it needs and gives, and a handler is
proved by composing them as the code composes the calls. That a list holds nobody twice is what
makes `RemoveFirst` of one entry remove the player.

`EveryoneIsTold` and `RoomsImplementMatch` are proved under `~MixesRooms`: clients that do not move into or out of
game rooms by CS_ENTER_ROOM, the constant's value in run `lobby`. Without it both are false of the code: CS_ENTER_ROOM
neither checks the capacity and the start of a game room nor tells it of a change. `EveryoneIsTold` further is
about rooms whose names leave their state in one packet (`RoomStateFits`); that such a state is not dropped is `FitsIsSent`, about
SendPacket's 16-bit size and its limit. `StartIsAnnounced` has the same condition: a room with longer names starts without
the SC_ROOM_STATE. `Numbered` is their additional invariant, that game
rooms have numbers Match knows. Each job is shown to be one abstract vote, leave or taking of a seat, or a stutter (`MatchStep`).

`SpawnsAreApart` is proved for a `GAME_ROOM_CAPACITY` of at most 2, the code's value. It is false above that, since
BroadcastGameStart uses its two spawn tiles in turn and a third player would start on the first one's. Every step that starts a game sends
`SlotsInTurn`: as many spawns as the room holds, each at the slot of its place. The rest is about the map alone: that
the recursive function `Within` exists and grows by a step (`WalksExist`, `WithinWalks`), that the first row and the
last column are free, and that one walks along them from one spawn to the other in 22 steps (`SpawnsConnected`).

**Framing.** `FInv` looks at what is stored followed by what is on the wire as one stream. `Framed` says of
it: each byte is its packet's own (`Genuine`), every packet that begins in it is in it whole (`Whole`), the last byte of a packet is followed by
the first of the next (`InTurn`), and it begins with the packet after those parsed (`Starts`). These are statements about
neighbouring bytes, so neither sending, nor receiving at any cut, nor skipping needs an induction over the
stream. `RoomWhenWaiting`, that less than a packet is stored whenever a receive is outstanding, is the loop's
exit condition and, with the assumption on the sizes, the reason that the ring never overflows.
`NoByteIsLost` adds `Accounted`: parsed packets followed by the stream are the packets sent. A send appends one packet to both sides,
a parse moves the stream's head, a receive changes neither. That needs what `FlattenSeq` does to an appended
sequence (`FlattenAppend`), which is an induction over data; it is made on a set of numbers, with the
well-foundedness of < on Nat (`NumbersInTurn`), and begins with the existence of the function that `FlattenSeq` chooses
(`FlattensExists`).

**Client.** `MainInv` says that, until the server stops, each packet on its way finds the FSM in the state that
the packet before it leaves (`InStep`), and that a line typed too late is the last (`LateIsLast`). `RecvInv` says that
what is shown is a prefix of what has to be shown (`ShownSoFar`), and that the chats shown, the one in hand and those on the way
are all of them (`NoneMissing`, with a function that numbers the chats among the packets in `inbound`). It rests on
`ChatIsWhole`: for names and texts of every length a chat whose name leaves room
for one byte of text is sent in one packet of a valid size, with lengths that are not cut
to 16 bits, which the client's parser accepts; the text is whole or fills the packet.

Only model-checked: liveness (`ClosedIsFreed`, `AllParsed`, `ThreadsEnd`, `ClientEnds`), since fairness is out of the
prover's reach. Every invariant and every other action property of the passing runs is stated by a theorem.

## Not modelled, and the plan

1. Handles: `sock` as a plain field and the reuse of its value, with `m_sessions`
   keyed by it. In the models a handle is never reused.
2. client.cs: its threads, locks and reconnection. It runs inside the Unity engine, whose
   scheduling of Update and coroutines is not part of this repository; its packets and its
   parser are those of Wire.

Left out for good: terminal input and output, logging, build files, the bytes of
messages of a fixed size. Starting the threads (`Network::Init`, `StartWorkerThreads`,
`GameServer::Init`, `InitFSM`) happens before anything else and is the initial state.
`AllSessionsIOCompleted` and `RingBuffer::Read` have no caller; `PlayerState::Closing`
is never set by the code.
