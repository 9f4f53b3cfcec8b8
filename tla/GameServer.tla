----------------------------- MODULE GameServer -----------------------------
(***************************************************************************)
(* The game thread's world (GameServer.cpp, FSM.cpp, Room.cpp, Player.cpp):*)
(* players, rooms and the messages sent, driven by the jobs of the queue.  *)
(* One thread runs the jobs one after the other, so a job is one step:     *)
(* the connect, the disconnect, or a packet, which the FSM table admits or *)
(* drops by the state of its player.                                       *)
(*                                                                         *)
(* A Player is identified with its Session (Session and its queue are the  *)
(* subject of module Session).  Abstracted: names to their lengths, packet *)
(* bodies to whether their size is right, playerId and matchId, which only *)
(* count up.                                                               *)
(***************************************************************************)
EXTENDS Arena, Wire

CONSTANTS
  Sessions,
  RoomIds,             \* the int32 room numbers clients ask for
  NameLengths,         \* the lengths of names, in bytes
  NoRoom,              \* the null Room*
  GAME_ROOM_CAPACITY,  \* 2
  FirstGameRoomId,     \* 100
  RoomIdModulus,       \* 2^16: Room::roomId is a uint16_t
  MaxGameRooms,        \* bound: game rooms the server numbers itself
  MixesRooms           \* do clients ENTER_ROOM from or into game rooms?

ASSUME GameServerAssumption ==
  /\ RoomIds \subseteq Int
  /\ NameLengths \subseteq 1 .. MAX_PACKET_SIZE - HEADER_SIZE
  /\ NoRoom \notin Int
  /\ GAME_ROOM_CAPACITY \in Nat \ {0}
  /\ FirstGameRoomId \in Nat /\ FirstGameRoomId > 1
  /\ RoomIdModulus \in Nat \ {0}
  /\ MaxGameRooms \in Nat
  /\ MixesRooms \in BOOLEAN

VARIABLES
  players,         \* session -> its Player
  rooms,           \* room number -> Room
  nextGameRoomId,
  sent             \* what SendPacket did not drop of the last job, in order

vars == <<players, rooms, nextGameRoomId, sent>>

PlayerStates == {"None", "LoggedIn", "InRoom", "InGame"}

RoomNumbers == RoomIds \cup FirstGameRoomId .. FirstGameRoomId + MaxGameRooms

\* The Lobby room, number 1, is made by GameServer's constructor.
NewRoom(capacity) == [capacity |-> capacity, gameStarted |-> FALSE, players |-> <<>>]
NewPlayer == [state |-> "None", name |-> 0, ready |-> FALSE, room |-> NoRoom]

Init ==
  /\ players = <<>>
  /\ rooms = [k \in {1} |-> NewRoom(0)]
  /\ nextGameRoomId = FirstGameRoomId
  /\ sent = <<>>

Connected == DOMAIN players

-----------------------------------------------------------------------------
(* Rooms and players, as handlers pass them on from call to call.          *)

World == [players |-> players, rooms |-> rooms]

\* Fault: a room counts as full one player too late.
IsOverfull(room) == room.capacity # 0 /\ Len(room.players) > room.capacity

IsFull(room) == room.capacity # 0 /\ Len(room.players) >= room.capacity

AddRoom(w, id, capacity) ==
  [w EXCEPT !.rooms =
     [k \in DOMAIN @ \cup {id} |-> IF k = id THEN NewRoom(capacity) ELSE @[k]]]

\* Fault: the player is not told its room.
JoinOneSided(w, k, s) == [w EXCEPT !.rooms[k].players = Append(@, s)]

\* Room::Join: once per player.
Join(w, k, s) ==
  IF Contains(w.rooms[k].players, s)
    THEN w
    ELSE [w EXCEPT !.rooms[k].players = Append(@, s), !.players[s].room = k]

\* GameServer::LeaveRoom with Room::Leave.
LeaveRoom(w, s) ==
  LET k == w.players[s].room IN
    IF k = NoRoom \/ ~Contains(w.rooms[k].players, s)
      THEN w
      ELSE [w EXCEPT !.rooms[k].players = RemoveFirst(@, s), !.players[s].room = NoRoom]

GetOrCreateRoom(w, id) == IF id \in DOMAIN w.rooms THEN w ELSE AddRoom(w, id, 0)

SetState(w, s, st) == [w EXCEPT !.players[s].state = st]

-----------------------------------------------------------------------------
(* Messages.                                                               *)

\* SC_ROOM_STATE of room k.
RoomState(w, k) ==
  LET room == w.rooms[k] IN
    [roomId   |-> k % RoomIdModulus,
     capacity |-> room.capacity,
     list     |-> [i \in DOMAIN room.players |->
                     [player  |-> room.players[i],
                      isReady |-> w.players[room.players[i]].ready]]]

RoomStateTo(w, k, s) == [to |-> s, type |-> "SC_ROOM_STATE", room |-> RoomState(w, k)]

Names(w, k) == [i \in DOMAIN w.rooms[k].players |-> w.players[w.rooms[k].players[i]].name]

\* To everyone in the room, or to nobody if SendPacket drops the body for its
\* size.  That a body of 2^16 bytes, of 16 long names or more, is cut to what
\* Writer::Size says of it is not shown in the message.
BroadcastRoomState(w, k) ==
  IF SendRoomState(Names(w, k)) = <<>>
    THEN <<>>
    ELSE [i \in DOMAIN w.rooms[k].players |-> RoomStateTo(w, k, w.rooms[k].players[i])]

SendError(s, code) == <<[to |-> s, type |-> "SC_ERROR", code |-> code]>>

BroadcastGameStart(w, k) ==
  [i \in DOMAIN w.rooms[k].players |->
     [to |-> w.rooms[k].players[i], type |-> "SC_GAME_START",
      spawns |-> [n \in DOMAIN w.rooms[k].players |->
                    [player |-> w.rooms[k].players[n], at |-> SpawnOf(n)]]]]

IsRoomState(m, s) == m.to = s /\ m.type = "SC_ROOM_STATE"

\* The job leaves the world w and sent the messages in out.
Done(w, out) ==
  /\ players' = w.players
  /\ rooms' = w.rooms
  /\ sent' = out

\* Nothing changes but that the session is told why.
Refuse(s, code) == Done(World, SendError(s, code)) /\ UNCHANGED nextGameRoomId

\* The handler returns without an answer.
Ignore == Done(World, <<>>) /\ UNCHANGED nextGameRoomId

-----------------------------------------------------------------------------
(* Connect and disconnect jobs.                                            *)

OnSessionConnected(s) ==
  /\ s \notin Connected
  /\ Done([World EXCEPT !.players =
             [q \in DOMAIN @ \cup {s} |-> IF q = s THEN NewPlayer ELSE @[q]]],
          <<>>)
  /\ UNCHANGED nextGameRoomId

\* Faults: whoever stays behind is not told; the list is taken before the leave.
NoBroadcast(w, k) == <<>>
ToldEarly(w, k) == IF k # NoRoom THEN BroadcastRoomState(World, k) ELSE <<>>

\* The room left is told, if it is a game room.
ToldOfLeave(w, k) ==
  IF k # NoRoom /\ w.rooms[k].capacity # 0 THEN BroadcastRoomState(w, k) ELSE <<>>

OnSessionDisconnected(s) ==
  /\ s \in Connected
  /\ LET left == LeaveRoom(World, s)
         gone == [left EXCEPT !.players = [q \in DOMAIN @ \ {s} |-> @[q]]]
     IN  Done(gone, ToldOfLeave(gone, players[s].room))
  /\ UNCHANGED nextGameRoomId

-----------------------------------------------------------------------------
(* Packets, as the FSM table admits them.                                  *)

\* The table g_FSM: the states in which a packet has a handler.
Admitted(packet) ==
  CASE packet \in {"CS_LOGIN", "CS_HELLO"}       -> {"None"}
    [] packet = "CS_ENTER_ROOM"                  -> {"LoggedIn", "InRoom"}
    [] packet = "CS_JOIN_ROOM"                   -> {"LoggedIn"}
    [] packet \in {"CS_CHAT", "CS_READY"}        -> {"InRoom"}

Packets == {"CS_LOGIN", "CS_HELLO", "CS_ENTER_ROOM", "CS_JOIN_ROOM", "CS_CHAT", "CS_READY"}

\* OnPacket finds the Player and its handler.
Admits(s, packet) == s \in Connected /\ players[s].state \in Admitted(packet)

\* OnPacket drops a packet without a handler.
Blocked(s, packet) ==
  /\ s \in Connected
  /\ players[s].state \notin Admitted(packet)
  /\ Ignore

SetName(w, s, name) == [w EXCEPT !.players[s].name = name]

\* FSM_Login: the state moves on even if HandleLogin found an empty body.
Login(s, body) ==
  /\ Admits(s, "CS_LOGIN")
  /\ LET named == SetName(World, s, IF body = 0 THEN players[s].name ELSE body)
     IN  Done(SetState(named, s, "LoggedIn"), <<>>)
  /\ UNCHANGED nextGameRoomId

\* A refused HELLO is followed by RequestClose: the Player stays until the
\* disconnect job.
RefuseHello(s, code) ==
  /\ Admits(s, "CS_HELLO")
  /\ Refuse(s, code)

\* "Player " and the number of the player.
GivenNames == NameLengths \cap 8 .. 17

\* In state None a player has no name yet.
Hello(s, name) ==
  /\ Admits(s, "CS_HELLO")
  /\ Done(SetState(SetName(World, s, name), s, "LoggedIn"),
          <<[to |-> s, type |-> "SC_WELCOME"]>>)
  /\ UNCHANGED nextGameRoomId

\* FSM_EnterRoom, HandleEnterRoom and EnterRoom; without a name, or with a
\* short body, nothing happens.
EnterRoom(s, id) ==
  /\ Admits(s, "CS_ENTER_ROOM")
  /\ players[s].name # 0
  /\ LET old == LeaveRoom(World, s)
         new == Join(GetOrCreateRoom(old, id), id, s)
     IN  Done(IF new.players[s].room # NoRoom THEN SetState(new, s, "InRoom") ELSE new, <<>>)
  /\ UNCHANGED nextGameRoomId

EnterRoomIgnored(s, wellFormed) ==
  /\ Admits(s, "CS_ENTER_ROOM")
  /\ ~(players[s].name # 0 /\ wellFormed)
  /\ Ignore

\* HandleChat and Room::BroadcastChat: everyone in the room but the sender,
\* whom the room lists once, unless the name leaves no room for a text, which
\* is clipped to what there is.
Chat(s) ==
  /\ Admits(s, "CS_CHAT")
  /\ players[s].name # 0
  /\ players[s].room # NoRoom
  /\ LET others == RemoveFirst(rooms[players[s].room].players, s)
     IN  Done(World, IF BroadcastChat(players[s].name, 1) = <<>>
                       THEN <<>>
                       ELSE [i \in DOMAIN others |->
                               [to |-> others[i], type |-> "SC_CHAT", sender |-> s]])
  /\ UNCHANGED nextGameRoomId

ChatIgnored(s, hasText) ==
  /\ Admits(s, "CS_CHAT")
  /\ ~(players[s].name # 0 /\ players[s].room # NoRoom /\ hasText)
  /\ Ignore

-----------------------------------------------------------------------------
(* CS_JOIN_ROOM.                                                           *)

\* What AcquireGameRoom may return: the room (its number), the world with the
\* room made or converted, and the next free number.
Acquired(k, w, next) == [room |-> k, world |-> w, next |-> next]

\* Fault: a room is offered whatever its state.
OpenIfSeated(room) == room.capacity # 0 /\ ~IsFull(room)

\* A game room that has not started and has a seat.
IsOpen(room) == room.capacity # 0 /\ ~room.gameStarted /\ ~IsFull(room)

OpenRooms == {k \in DOMAIN rooms : IsOpen(rooms[k])}

\* Fault: a room in use by a chat is converted.
MayConvertAny(room) == room.capacity = 0

\* An unused chat room.
MayConvert(room) == room.capacity = 0 /\ Len(room.players) = 0

\* Request 0: some open room, in the order of an unordered_map, or a new one.
AutoRoom ==
  IF OpenRooms # {}
    THEN {Acquired(k, World, nextGameRoomId) : k \in OpenRooms}
    ELSE {Acquired(nextGameRoomId,
                   AddRoom(World, nextGameRoomId, GAME_ROOM_CAPACITY),
                   nextGameRoomId + 1)}

\* A room by its number: made if there is none, converted if it is unused.
NamedRoom(id) ==
  CASE id \notin DOMAIN rooms ->
         {Acquired(id, AddRoom(World, id, GAME_ROOM_CAPACITY), nextGameRoomId)}
    [] id \in DOMAIN rooms /\ MayConvert(rooms[id]) ->
         {Acquired(id, [World EXCEPT !.rooms[id].capacity = GAME_ROOM_CAPACITY],
                   nextGameRoomId)}
    [] id \in DOMAIN rooms /\ rooms[id].capacity # 0 ->
         {Acquired(id, World, nextGameRoomId)}
    [] OTHER -> {Acquired(NoRoom, World, nextGameRoomId)}

AcquireGameRoom(requested) == IF requested = 0 THEN AutoRoom ELSE NamedRoom(requested)

\* The join proper, in a room that has a seat.
Seat(w, k, s) ==
  LET left   == LeaveRoom(w, s)
      joined == Join([left EXCEPT !.players[s].ready = FALSE], k, s)
  IN  SetState(joined, s, "InRoom")

\* What HandleJoinRoom does with the room it acquired; a room that was made or
\* converted stays so even if the join is refused.
JoinAcquired(s, got) ==
  LET room == got.world.rooms[got.room] IN
    /\ nextGameRoomId' = got.next
    /\ IF got.room = NoRoom    THEN Done(got.world, SendError(s, "NO_SUCH_ROOM"))
       ELSE IF room.gameStarted THEN Done(got.world, SendError(s, "MATCH_ENDED"))
       ELSE IF IsFull(room)     THEN Done(got.world, SendError(s, "ROOM_FULL"))
       ELSE LET w == Seat(got.world, got.room, s)
            IN  Done(w, BroadcastRoomState(w, got.room))

\* A room that is made gets a number nobody uses; module GameServerNumbers has
\* what happens otherwise.
JoinRoom(s, requested) ==
  /\ Admits(s, "CS_JOIN_ROOM")
  /\ requested >= 0
  /\ requested = 0 /\ OpenRooms = {}
       => /\ nextGameRoomId < FirstGameRoomId + MaxGameRooms
          /\ nextGameRoomId \notin DOMAIN rooms
  /\ \E got \in AcquireGameRoom(requested) : JoinAcquired(s, got)

\* A body of the wrong size, or a negative number.
JoinRefused(s) ==
  /\ Admits(s, "CS_JOIN_ROOM")
  /\ \E code \in {"BAD_FORMAT", "NO_SUCH_ROOM"} : Refuse(s, code)

-----------------------------------------------------------------------------
(* CS_READY.                                                               *)

\* Fault: a room that is more than full starts too.
MayStartOverfull(w, k) ==
  LET room == w.rooms[k] IN
    /\ room.capacity # 0
    /\ Len(room.players) >= room.capacity
    /\ \A i \in DOMAIN room.players : w.players[room.players[i]].ready

\* TryStartGame, once the room is known not to have started.
MayStart(w, k) ==
  LET room == w.rooms[k] IN
    /\ room.capacity # 0
    /\ Len(room.players) = room.capacity
    /\ \A i \in DOMAIN room.players : w.players[room.players[i]].ready

\* Fault: the room is not marked.
StartPlayers(w, k) ==
  [w EXCEPT !.players = [q \in DOMAIN @ |->
     IF Contains(w.rooms[k].players, q) THEN [@[q] EXCEPT !.state = "InGame"] ELSE @[q]]]

StartGame(w, k) ==
  [players |-> [q \in DOMAIN w.players |->
                  IF Contains(w.rooms[k].players, q)
                    THEN [w.players[q] EXCEPT !.state = "InGame"]
                    ELSE w.players[q]],
   rooms   |-> [w.rooms EXCEPT ![k].gameStarted = TRUE]]

\* Fault: the start goes out before the news.
AnswerStartFirst(w, k) ==
  IF MayStart(w, k)
    THEN Done(StartGame(w, k), BroadcastGameStart(w, k) \o BroadcastRoomState(w, k))
    ELSE Done(w, BroadcastRoomState(w, k))

\* First the news of who is ready, then perhaps the start.
AnswerReady(w, k) ==
  IF MayStart(w, k)
    THEN Done(StartGame(w, k), BroadcastRoomState(w, k) \o BroadcastGameStart(w, k))
    ELSE Done(w, BroadcastRoomState(w, k))

Ready(s, flag) ==
  /\ Admits(s, "CS_READY")
  /\ players[s].room # NoRoom
  /\ ~rooms[players[s].room].gameStarted
  /\ AnswerReady([World EXCEPT !.players[s].ready = flag], players[s].room)
  /\ UNCHANGED nextGameRoomId

\* The checks in the order the code makes them.
ReadyRefused(s) ==
  /\ Admits(s, "CS_READY")
  /\ LET k == players[s].room IN
       IF k = NoRoom                  THEN Refuse(s, "NOT_ALLOWED")
       ELSE IF rooms[k].gameStarted   THEN Refuse(s, "MATCH_ENDED")
       ELSE Refuse(s, "BAD_FORMAT")

-----------------------------------------------------------------------------
IsGameRoom(id) == id \in DOMAIN rooms /\ rooms[id].capacity # 0

\* Clients that keep chat and game apart do not ENTER_ROOM a game room, nor
\* any room from within one.
MayEnter(s, id) ==
  MixesRooms \/ (~IsGameRoom(id) /\ ~IsGameRoom(players[s].room))

\* A packet that names a room.
RoomPacket(s) ==
  \E id \in RoomIds :
    \/ s \in Connected /\ MayEnter(s, id) /\ EnterRoom(s, id)
    \/ JoinRoom(s, id)

OtherPacket(s) ==
  \/ \E packet \in Packets : Blocked(s, packet)
  \/ \E body \in NameLengths \cup {0} : Login(s, body)
  \/ \E code \in {"BAD_FORMAT", "VERSION_MISMATCH"} : RefuseHello(s, code)
  \/ \E name \in GivenNames : Hello(s, name)
  \/ \E wellFormed \in BOOLEAN : EnterRoomIgnored(s, wellFormed)
  \/ Chat(s)
  \/ \E hasText \in BOOLEAN : ChatIgnored(s, hasText)
  \/ JoinRefused(s)
  \/ \E flag \in BOOLEAN : Ready(s, flag)
  \/ ReadyRefused(s)

Next ==
  \E s \in Sessions :
    \/ OnSessionConnected(s)
    \/ OnSessionDisconnected(s)
    \/ RoomPacket(s)
    \/ OtherPacket(s)

Spec == Init /\ [][Next]_vars

-----------------------------------------------------------------------------
(* Properties.                                                             *)

\* Every variable keeps its type; a player's room is one that the server owns,
\* and a message goes to a session that still has its Player.
TypeOK ==
  /\ Connected \subseteq Sessions
  /\ \A s \in Connected :
       players[s] \in [state : PlayerStates, name : NameLengths \cup {0}, ready : BOOLEAN,
                       room : DOMAIN rooms \cup {NoRoom}]
  /\ DOMAIN rooms \subseteq Int
  /\ \A k \in DOMAIN rooms :
       /\ rooms[k].capacity \in {0, GAME_ROOM_CAPACITY}
       /\ rooms[k].gameStarted \in BOOLEAN
       /\ rooms[k].players \in Seq(Sessions)
  /\ nextGameRoomId \in Nat
  /\ \A i \in DOMAIN sent : sent[i].to \in Connected

\* A Room points to Players it does not own, and a Player to its Room: the two
\* always agree, without duplicates, so no deleted Player is left in a room.
MembershipAgrees ==
  /\ \A k \in DOMAIN rooms : \A i \in DOMAIN rooms[k].players :
       /\ rooms[k].players[i] \in Connected
       /\ players[rooms[k].players[i]].room = k
       /\ \A j \in DOMAIN rooms[k].players :
            rooms[k].players[j] = rooms[k].players[i] => j = i
  /\ \A s \in Connected :
       players[s].room # NoRoom => Contains(rooms[players[s].room].players, s)

\* The FSM lets a player act in a room exactly while it is in one, and in a
\* game exactly while the game of that room runs with it.
StateAgrees ==
  \A s \in Connected :
    /\ players[s].state \in {"InRoom", "InGame"} <=> players[s].room # NoRoom
    /\ players[s].state = "InGame" => rooms[players[s].room].gameStarted

\* The SC_ROOM_STATE of room k fits into a packet.
RoomStateFits(w, k) ==
  RoomStateSize(Names(w, k)) \in 0 .. MAX_PACKET_SIZE - HEADER_SIZE

\* The client a message goes to is in a room whose state fits into a packet.
Tellable(m) == RoomStateFits(World, players[m.to].room)

\* protocol-v1.md, SC_GAME_START: the spawns are exactly the participants of
\* the SC_ROOM_STATE sent just before, all of them ready.  A room whose names are
\* so long that its state does not fit starts without one.
StartFollowsRoomState ==
  \A i \in DOMAIN sent : sent[i].type = "SC_GAME_START" /\ Tellable(sent[i]) =>
    \E j \in 1 .. i - 1 :
      /\ IsRoomState(sent[j], sent[i].to)
      /\ \A n \in DOMAIN sent[j].room.list : sent[j].room.list[n].isReady
      /\ [n \in DOMAIN sent[j].room.list |-> sent[j].room.list[n].player]
           = [n \in DOMAIN sent[i].spawns |-> sent[i].spawns[n].player]

\* protocol-v1.md, the map: whoever comes to a room by whichever packet, the
\* players of a game start on tiles of their own that are free, with two ways
\* out, and from which they can walk to each other.
SpawnsApart ==
  \A i \in DOMAIN sent : sent[i].type = "SC_GAME_START" =>
    LET start(n) == TileOf(sent[i].spawns[n].at) IN
      \A n \in DOMAIN sent[i].spawns :
        /\ start(n) \in Walkable
        /\ \E t, u \in Beside(start(n)) : t # u
        /\ \A m \in DOMAIN sent[i].spawns : start(m) = start(n) => m = n

NewWorld == [players |-> players', rooms |-> rooms']

\* What the clients see of room k changes in this step.
Changes(k) ==
  k \in DOMAIN rooms => RoomState(NewWorld, k) # RoomState(World, k)

\* All who are in room k after this step are sent its state as it then is.
AllAreTold(k) ==
  \A i \in DOMAIN rooms'[k].players :
    RoomStateTo(NewWorld, k, rooms'[k].players[i]) \in ToSet(sent')

\* Whenever someone comes, goes or is ready, all who are now in a game room are
\* sent its state, provided that their names leave it room in one packet.  That is
\* less than protocol-v1.md promises for SC_ROOM_STATE: SendPacket drops a longer
\* one, and nobody there is told.
ChangesAreTold ==
  [][\A k \in DOMAIN rooms' :
       rooms'[k].capacity # 0 /\ Changes(k) /\ RoomStateFits(NewWorld, k)
         => AllAreTold(k)]_vars

\* protocol-v1.md, CS_JOIN_ROOM: request 0 is assigned a free room; it is never
\* refused, however many rooms were filled, started or abandoned, unless the
\* number of the room to be made is in use (module GameServerNumbers).
AutoJoinSucceeds ==
  [][\A s \in Sessions : JoinRoom(s, 0) => players'[s].room # NoRoom]_vars

\* Chats are not disturbed: a room that has people chatting in it does not
\* become a game room, whatever is asked of CS_JOIN_ROOM.
ChatRoomStays ==
  [][\A k \in DOMAIN rooms :
       rooms[k].capacity = 0 /\ rooms[k].players # <<>> => rooms'[k].capacity = 0]_vars

\* protocol-v1.md, CS_READY: when a room is full and everyone in it is ready,
\* the game starts.
ReadyRoomStarts ==
  \A k \in DOMAIN rooms : MayStart(World, k) => rooms[k].gameStarted

\* protocol-v1.md, unknown packets: a client in a game is sent no SC_CHAT.
NoChatInGame ==
  \A i \in DOMAIN sent :
    sent[i].type = "SC_CHAT" => players[sent[i].to].state # "InGame"

GameSeat(s) ==
  IF s \in Connected /\ IsGameRoom(players[s].room) THEN players[s].room ELSE NoRoom

Waiting == INSTANCE Match WITH
             Players  <- Sessions,
             Rooms    <- RoomNumbers,
             Capacity <- GAME_ROOM_CAPACITY,
             seat     <- [s \in Sessions |-> GameSeat(s)],
             ready    <- {s \in Connected : GameSeat(s) # NoRoom /\ players[s].ready},
             playing  <- {k \in DOMAIN rooms : rooms[k].gameStarted}

\* As long as clients keep chat and game apart, the rooms keep their promise.
ImplementsMatch == Waiting!MatchSpec

=============================================================================
