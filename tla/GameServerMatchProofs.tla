----------------------- MODULE GameServerMatchProofs -----------------------
(***************************************************************************)
(* Proofs about the waiting rooms of GameServer, for clients that keep     *)
(* chat and game apart: the rooms implement Match, and everyone in a game  *)
(* room is told whenever it changes.                                       *)
(***************************************************************************)
EXTENDS GameServerProofs, FiniteSetTheorems

-----------------------------------------------------------------------------
(* Match, read off a world.                                                *)

IsGame(w, k) == k \in DOMAIN w.rooms /\ w.rooms[k].capacity # 0

SeatOf(w, s) ==
  IF s \in DOMAIN w.players /\ IsGame(w, w.players[s].room)
    THEN w.players[s].room ELSE NoRoom

Seats(w) == [s \in Sessions |-> SeatOf(w, s)]

Voters(w) == {s \in DOMAIN w.players : SeatOf(w, s) # NoRoom /\ w.players[s].ready}

Playing(w) == {k \in DOMAIN w.rooms : w.rooms[k].gameStarted}

Sitters(w, k) == {p \in Sessions : Seats(w)[p] = k}

\* The steps of Match, from world w to world v.
SitsDown(w, v, p, k) ==
  /\ Seats(w)[p] = NoRoom
  /\ k \notin Playing(w)
  /\ Cardinality(Sitters(w, k)) < GAME_ROOM_CAPACITY
  /\ Seats(v) = [Seats(w) EXCEPT ![p] = k]
  /\ Voters(v) = Voters(w) /\ Playing(v) = Playing(w)

Votes(w, v, p) ==
  /\ Seats(w)[p] # NoRoom
  /\ Seats(w)[p] \notin Playing(w)
  /\ Voters(v) \in {Voters(w) \cup {p}, Voters(w) \ {p}}
  /\ Playing(v) =
       IF /\ Cardinality(Sitters(w, Seats(w)[p])) = GAME_ROOM_CAPACITY
          /\ Sitters(w, Seats(w)[p]) \subseteq Voters(v)
         THEN Playing(w) \cup {Seats(w)[p]}
         ELSE Playing(w)
  /\ Seats(v) = Seats(w)

Leaves(w, v, p) ==
  /\ Seats(v) = [Seats(w) EXCEPT ![p] = NoRoom]
  /\ Voters(v) = Voters(w) \ {p}
  /\ Playing(v) = Playing(w)

MatchStep(w, v) ==
  \/ \E p \in Sessions :
       Votes(w, v, p) \/ Leaves(w, v, p) \/ \E k \in RoomNumbers : SitsDown(w, v, p, k)
  \/ Seats(v) = Seats(w) /\ Voters(v) = Voters(w) /\ Playing(v) = Playing(w)

\* These are Match's variables and steps.
LEMMA MatchOfWorld ==
  /\ Seats(World) = [s \in Sessions |-> GameSeat(s)]
  /\ Voters(World) = {s \in Connected : GameSeat(s) # NoRoom /\ players[s].ready}
  /\ Playing(World) = {k \in DOMAIN rooms : rooms[k].gameStarted}
BY DEF Seats, Voters, Playing, SeatOf, IsGame, World, GameSeat, IsGameRoom, Connected

\* The same after a step.
LEMMA MatchOfNewWorld ==
  /\ Seats(NewWorld) = [s \in Sessions |-> GameSeat(s)]'
  /\ Voters(NewWorld) = {s \in Connected : GameSeat(s) # NoRoom /\ players[s].ready}'
  /\ Playing(NewWorld) = {k \in DOMAIN rooms : rooms[k].gameStarted}'
BY DEF Seats, Voters, Playing, SeatOf, IsGame, NewWorld, GameSeat, IsGameRoom, Connected

\* Those seated in a room.
LEMMA SeatedSitters ==
  \A k : Waiting!Seated(k) = Sitters(World, k)
BY MatchOfWorld DEF Waiting!Seated, Sitters

\* The instance counts as this module does.
LEMMA SameCount ==
  \A S : Waiting!Cardinality(S) = Cardinality(S)
BY DEF Waiting!Cardinality, Cardinality

\* A step of the worlds is a step of Match.
LEMMA MatchStepIsStep ==
  ASSUME MatchStep(World, NewWorld)
  PROVE  [Waiting!MatchNext]_Waiting!matchVars
<1>1. CASE /\ Seats(NewWorld) = Seats(World) /\ Voters(NewWorld) = Voters(World)
           /\ Playing(NewWorld) = Playing(World)
  BY <1>1, MatchOfWorld, MatchOfNewWorld DEF Waiting!matchVars
<1>2. ASSUME NEW p \in Sessions, Votes(World, NewWorld, p)
      PROVE  Waiting!MatchNext
  BY <1>2, SeatedSitters, SameCount, MatchOfWorld, MatchOfNewWorld
  DEF Votes, Waiting!MatchNext, Waiting!Vote
<1>3. ASSUME NEW p \in Sessions, Leaves(World, NewWorld, p)
      PROVE  Waiting!MatchNext
  BY <1>3, MatchOfWorld, MatchOfNewWorld DEF Leaves, Waiting!MatchNext, Waiting!Leave
<1>4. ASSUME NEW p \in Sessions, NEW k \in RoomNumbers, SitsDown(World, NewWorld, p, k)
      PROVE  Waiting!MatchNext
  BY <1>4, SeatedSitters, SameCount, MatchOfWorld, MatchOfNewWorld
  DEF SitsDown, Waiting!MatchNext, Waiting!Sit
<1>5. QED
  BY <1>1, <1>2, <1>3, <1>4 DEF MatchStep

\* Whoever sits in a game room is in its list, and the other way round.
LEMMA SittersAreInside ==
  ASSUME NEW w, IsWorld(w), Agrees(w), NEW k, IsGame(w, k), NEW p \in Sessions
  PROVE  SeatOf(w, p) = k <=> Inside(w, k, p)
<1>1. k \in DOMAIN w.rooms /\ k # NoRoom
  BY GameServerAssumption DEF IsGame, IsWorld
<1>2. Inside(w, k, p) <=> p \in DOMAIN w.players /\ w.players[p].room = k
  BY <1>1 DEF Agrees
<1>3. QED
  BY <1>1, <1>2 DEF SeatOf

\* The length of a game room's list counts the players in it.
LEMMA SittersCounted ==
  ASSUME NEW w, IsWorld(w), Agrees(w), NEW k, IsGame(w, k)
  PROVE  Cardinality(Sitters(w, k)) = Len(w.rooms[k].players)
<1> DEFINE list == w.rooms[k].players
           n == Len(list)
           T == Sitters(w, k)
<1>1. k \in DOMAIN w.rooms
  BY DEF IsGame
<1>2. /\ list \in Seq(Sessions) /\ Distinct(list)
      /\ n \in Nat /\ DOMAIN list = 1 .. n
      /\ \A i \in 1 .. n : list[i] \in Sessions
  BY <1>1, LenProperties, ElementOfSeq DEF IsWorld, RoomRecords, Agrees
<1>3. T = {p \in Sessions : Contains(list, p)}
  BY SittersAreInside DEF Sitters, Seats, Inside
<1> HIDE DEF T, list
<1>4. list = [i \in 1 .. n |-> list[i]] /\ \A i \in 1 .. n : list[i] \in T
  BY <1>2, <1>3 DEF Contains
<1>5. \A p \in T : \E i \in 1 .. n : list[i] = p
  BY <1>3 DEF Contains
<1>6. \A i, j \in 1 .. n : list[i] = list[j] => i = j
  BY <1>2 DEF Distinct
<1> HIDE DEF n
<1>7. list \in Bijection(1 .. n, T)
  BY <1>4, <1>5, <1>6 DEF Bijection, Injection, Surjection, IsInjective
<1>8. ExistsBijection(1 .. n, T)
  BY <1>7 DEF ExistsBijection
<1>9. QED
  BY <1>2, <1>8, FS_CountingElements DEF T, n, list

-----------------------------------------------------------------------------
(* What the players of a room see of it.                                   *)

\* What ChangesAreTold asks of a step.
Told ==
  \A k \in DOMAIN rooms' :
    rooms'[k].capacity # 0 /\ Changes(k) /\ RoomStateFits(NewWorld, k) => AllAreTold(k)

\* Nothing is new in a room with the same list, of players as ready as before.
LEMMA NothingNew ==
  ASSUME GInv, NEW k \in DOMAIN rooms, NEW v, v.rooms[k].players = rooms[k].players,
         v.rooms[k].capacity = rooms[k].capacity,
         \A q \in DOMAIN players : players[q].room = k => v.players[q].ready = players[q].ready
  PROVE  RoomState(v, k) = RoomState(World, k)
<1>1. /\ World.rooms = rooms /\ World.players = players
      /\ rooms[k].players \in Seq(Sessions)
  BY BeforeJob DEF IsWorld, RoomRecords
<1>2. ASSUME NEW i \in DOMAIN rooms[k].players
      PROVE  v.players[rooms[k].players[i]].ready = players[rooms[k].players[i]].ready
  BY <1>2, GInvEnough DEF MembershipAgrees, Connected
<1>3. QED
  BY <1>1, <1>2 DEF RoomState

\* If the state of a room fits into a packet and is broadcast, all there are told.
LEMMA BroadcastTells ==
  ASSUME NEW k, RoomStateFits(NewWorld, k),
         ToSet(BroadcastRoomState(NewWorld, k)) \subseteq ToSet(sent')
  PROVE  AllAreTold(k)
<1> DEFINE list == rooms'[k].players
           out == [i \in DOMAIN list |-> RoomStateTo(NewWorld, k, list[i])]
<1>1. NewWorld.rooms[k].players = list
  BY DEF NewWorld
<1>2. BroadcastRoomState(NewWorld, k) = out
  BY <1>1, FitsIsSent DEF BroadcastRoomState
<1>3. ASSUME NEW i \in DOMAIN list
      PROVE  RoomStateTo(NewWorld, k, list[i]) \in ToSet(sent')
  <2>1. i \in DOMAIN out /\ out[i] = RoomStateTo(NewWorld, k, list[i])
    BY <1>3
  <2>2. ToSet(out) \subseteq ToSet(sent')
    BY <1>2
  <2> HIDE DEF out, list
  <2>3. out[i] \in ToSet(out)
    BY <2>1 DEF ToSet
  <2>4. QED
    BY <2>1, <2>2, <2>3
<1>4. QED
  BY <1>3 DEF AllAreTold

\* A step after which every game room is as before, or empty, or told.
LEMMA ToldIf ==
  ASSUME GInv,
         \A k \in DOMAIN rooms' : rooms'[k].capacity # 0 =>
           \/ /\ k \in DOMAIN rooms
              /\ rooms'[k].players = rooms[k].players
              /\ rooms'[k].capacity = rooms[k].capacity
              /\ \A q \in DOMAIN players :
                   players[q].room = k => players'[q].ready = players[q].ready
           \/ rooms'[k].players = <<>>
           \/ ToSet(BroadcastRoomState(NewWorld, k)) \subseteq ToSet(sent')
  PROVE  Told
<1> SUFFICES ASSUME NEW k \in DOMAIN rooms', rooms'[k].capacity # 0, Changes(k),
                    RoomStateFits(NewWorld, k)
             PROVE  AllAreTold(k)
  BY DEF Told
<1>1. NewWorld.rooms = rooms' /\ NewWorld.players = players'
  BY DEF NewWorld
<1>2. ~(/\ k \in DOMAIN rooms
        /\ rooms'[k].players = rooms[k].players
        /\ rooms'[k].capacity = rooms[k].capacity
        /\ \A q \in DOMAIN players :
             players[q].room = k => players'[q].ready = players[q].ready)
  BY <1>1, NothingNew DEF Changes
\* Nobody has to be told about an empty room.
<1>3. rooms'[k].players = <<>> => AllAreTold(k)
  BY DEF AllAreTold
<1>4. QED
  BY <1>2, <1>3, BroadcastTells

-----------------------------------------------------------------------------
(* The jobs.                                                               *)

\* The game rooms have the numbers that Match knows.
Numbered ==
  /\ nextGameRoomId <= FirstGameRoomId + MaxGameRooms
  /\ \A k \in DOMAIN rooms : rooms[k].capacity # 0 => k \in RoomNumbers

\* What a step owes the players of the game rooms.
Promise == MatchStep(World, NewWorld) /\ Told /\ Numbered'

\* The worlds before and after a job.
LEMMA AroundJob ==
  ASSUME GInv, GInv'
  PROVE  /\ World.players = players /\ World.rooms = rooms
         /\ NewWorld.players = players' /\ NewWorld.rooms = rooms'
         /\ IsWorld(World) /\ Agrees(World) /\ IsWorld(NewWorld) /\ Agrees(NewWorld)
         /\ NoRoom \notin DOMAIN rooms /\ NoRoom \notin DOMAIN rooms'
<1>1. IsWorld(NewWorld) /\ Agrees(NewWorld)
  BY WorldPrimed DEF GInv, WorldInv, IsWorld, Agrees, Inside
<1>2. NewWorld.players = players' /\ NewWorld.rooms = rooms'
  BY DEF NewWorld
<1>3. NoRoom \notin DOMAIN rooms /\ NoRoom \notin DOMAIN rooms'
  BY <1>1, <1>2, BeforeJob, GameServerAssumption DEF IsWorld
<1>4. QED
  BY <1>1, <1>2, <1>3, BeforeJob

\* Match does not move if seats, readiness of the seated, and games stay.
LEMMA MatchRests ==
  ASSUME \A s \in Sessions : SeatOf(NewWorld, s) = SeatOf(World, s),
         \A s : SeatOf(World, s) # NoRoom =>
                  (players'[s].ready <=> players[s].ready),
         \A s : SeatOf(World, s) # NoRoom \/ SeatOf(NewWorld, s) # NoRoom => s \in Sessions,
         \A k : (k \in DOMAIN rooms' /\ rooms'[k].gameStarted)
                  <=> (k \in DOMAIN rooms /\ rooms[k].gameStarted)
  PROVE  MatchStep(World, NewWorld)
<1>1. /\ World.players = players /\ World.rooms = rooms
      /\ NewWorld.players = players' /\ NewWorld.rooms = rooms'
  BY DEF World, NewWorld
<1>2. Seats(NewWorld) = Seats(World)
  BY DEF Seats
<1>3. Voters(NewWorld) = Voters(World)
  BY <1>1 DEF Voters, SeatOf
<1>4. Playing(NewWorld) = Playing(World)
  BY <1>1 DEF Playing
<1>5. QED
  BY <1>2, <1>3, <1>4 DEF MatchStep

\* Only players have seats.
LEMMA SeatsOfPlayers ==
  ASSUME GInv, GInv', NEW s
  PROVE  /\ SeatOf(World, s) # NoRoom => s \in DOMAIN players /\ s \in Sessions
         /\ SeatOf(NewWorld, s) # NoRoom => s \in DOMAIN players' /\ s \in Sessions
BY AroundJob DEF SeatOf, IsWorld

\* A job that touches neither rooms nor who is in which or ready.
LEMMA QuietPromise ==
  ASSUME GInv, GInv', Numbered, rooms' = rooms, nextGameRoomId' = nextGameRoomId,
         DOMAIN players' = DOMAIN players,
         \A q \in DOMAIN players :
           players'[q].room = players[q].room /\ players'[q].ready = players[q].ready
  PROVE  Promise
<1>1. Told
  BY ToldIf
<1>2. \A s \in Sessions : SeatOf(NewWorld, s) = SeatOf(World, s)
  BY AroundJob DEF SeatOf, IsGame
<1>3. MatchStep(World, NewWorld)
  BY <1>2, MatchRests, SeatsOfPlayers
<1>4. Numbered'
  BY DEF Numbered, RoomNumbers
<1>5. QED
  BY <1>1, <1>3, <1>4 DEF Promise

\* Jobs after which the world is the same.
LEMMA SameWorldPromise ==
  ASSUME GInv, GInv', Numbered, NEW out, Done(World, out), nextGameRoomId' = nextGameRoomId
  PROVE  Promise
<1>1. players' = players /\ rooms' = rooms
  BY BeforeJob DEF Done
<1>2. QED
  BY <1>1, QuietPromise

\* A new player has no seat.
LEMMA ConnectedPromise ==
  ASSUME GInv, GInv', Numbered, NEW s \in Sessions, OnSessionConnected(s)
  PROVE  Promise
<1>1. /\ s \notin DOMAIN players /\ rooms' = rooms /\ nextGameRoomId' = nextGameRoomId
      /\ DOMAIN players' = DOMAIN players \cup {s}
      /\ players'[s] = NewPlayer
      /\ \A q \in DOMAIN players : players'[q] = players[q]
  BY DEF OnSessionConnected, Connected, Done, World
<1>2. Told
  BY <1>1, ToldIf
<1>3. \A q \in Sessions : SeatOf(NewWorld, q) = SeatOf(World, q)
  BY <1>1, AroundJob DEF SeatOf, IsGame, NewPlayer
<1>4. MatchStep(World, NewWorld)
  BY <1>1, <1>3, MatchRests, SeatsOfPlayers
<1>5. Numbered'
  BY <1>1 DEF Numbered, RoomNumbers
<1>6. QED
  BY <1>2, <1>4, <1>5 DEF Promise

\* Whoever disconnects leaves its seat, and those who stay are told.
LEMMA DisconnectedPromise ==
  ASSUME GInv, GInv', Numbered, NEW s \in Sessions, OnSessionDisconnected(s)
  PROVE  Promise
<1> DEFINE w == LeaveRoom(World, s)
           v == [w EXCEPT !.players = [q \in DOMAIN @ \ {s} |-> @[q]]]
           r == players[s].room
<1>1. s \in DOMAIN players /\ Done(v, ToldOfLeave(v, r)) /\ nextGameRoomId' = nextGameRoomId
  BY DEF OnSessionDisconnected, Connected
<1>2. /\ IsWorld(w) /\ SameNames(World, w)
      /\ SameButSeat(World, w, s)
      /\ \A j \in DOMAIN rooms \ {r} : w.rooms[j] = rooms[j]
  BY <1>1, BeforeJob, Leaving
<1> HIDE DEF w
<1>3. /\ v = [players |-> v.players, rooms |-> v.rooms]
      /\ DOMAIN v.players = DOMAIN players \ {s}
      /\ \A q \in DOMAIN v.players : v.players[q] = w.players[q]
      /\ v.rooms = w.rooms
  BY <1>2, BeforeJob DEF IsWorld, SameNames
<1> HIDE DEF v
<1>4. /\ players' = v.players /\ rooms' = v.rooms /\ sent' = ToldOfLeave(v, r)
      /\ NewWorld = v
  BY <1>1, <1>3 DEF Done, NewWorld
<1>5. /\ DOMAIN players' = DOMAIN players \ {s}
      /\ \A q \in DOMAIN players \ {s} : players'[q] = players[q]
      /\ DOMAIN rooms' = DOMAIN rooms
      /\ \A j \in DOMAIN rooms \ {r} : rooms'[j] = rooms[j]
      /\ \A j \in DOMAIN rooms :
           /\ rooms'[j].capacity = rooms[j].capacity
           /\ rooms'[j].gameStarted = rooms[j].gameStarted
  BY <1>2, <1>3, <1>4, BeforeJob DEF SameNames, SameButSeat
<1>6. Told
  <2>1. ASSUME NEW k \in DOMAIN rooms, k # r
        PROVE  /\ rooms'[k].players = rooms[k].players
               /\ rooms'[k].capacity = rooms[k].capacity
               /\ \A q \in DOMAIN players :
                    players[q].room = k => players'[q].ready = players[q].ready
    BY <1>5, <2>1
  <2>2. ASSUME r \in DOMAIN rooms, rooms'[r].capacity # 0
        PROVE  ToSet(BroadcastRoomState(NewWorld, r)) \subseteq ToSet(sent')
    BY <1>4, <2>2, AroundJob DEF ToldOfLeave
  <2>3. QED
    BY <1>5, <2>1, <2>2, ToldIf
<1>7. ASSUME NEW q \in Sessions
      PROVE  SeatOf(NewWorld, q) = IF q = s THEN NoRoom ELSE SeatOf(World, q)
  BY <1>5, AroundJob DEF SeatOf, IsGame
<1>8. Seats(NewWorld) = [Seats(World) EXCEPT ![s] = NoRoom]
  BY <1>7 DEF Seats
<1>9. Voters(NewWorld) = Voters(World) \ {s}
  BY <1>5, <1>7, AroundJob, SeatsOfPlayers DEF Voters, IsWorld
<1>10. Playing(NewWorld) = Playing(World)
  BY <1>5, AroundJob DEF Playing
<1>11. MatchStep(World, NewWorld)
  BY <1>8, <1>9, <1>10 DEF MatchStep, Leaves
<1>12. Numbered'
  BY <1>1, <1>5 DEF Numbered, RoomNumbers
<1>13. QED
  BY <1>6, <1>11, <1>12 DEF Promise

\* Who enters a chat room comes from no game room, and no game room changes.
LEMMA EnterRoomPromise ==
  ASSUME GInv, GInv', Numbered, ~MixesRooms, NEW s \in Sessions, NEW id \in RoomIds,
         MayEnter(s, id), EnterEffect(s, id), nextGameRoomId' = nextGameRoomId
  PROVE  Promise
<1>1. ~IsGame(World, id) /\ ~IsGame(World, players[s].room)
  BY AroundJob DEF MayEnter, IsGameRoom, IsGame
<1>2. \A k : IsGame(NewWorld, k) <=> IsGame(World, k)
  BY <1>1, AroundJob DEF IsGame, EnterEffect
<1>3. Told
  <2>1. ASSUME NEW k \in DOMAIN rooms', rooms'[k].capacity # 0
        PROVE  /\ k \in DOMAIN rooms
               /\ rooms'[k] = rooms[k]
               /\ k # players[s].room
    BY <1>1, <1>2, <2>1, AroundJob DEF IsGame, EnterEffect
  <2>2. \A k \in DOMAIN rooms' : rooms'[k].capacity # 0 =>
          /\ k \in DOMAIN rooms
          /\ rooms'[k].players = rooms[k].players
          /\ rooms'[k].capacity = rooms[k].capacity
          /\ \A q \in DOMAIN players :
               players[q].room = k => players'[q].ready = players[q].ready
    BY <2>1 DEF EnterEffect
  <2>3. QED
    BY <2>2, ToldIf
<1>4. ASSUME NEW q \in Sessions
      PROVE  SeatOf(NewWorld, q) = SeatOf(World, q)
  BY <1>1, <1>2, AroundJob DEF SeatOf, EnterEffect
<1>5. \A q : SeatOf(World, q) # NoRoom => players'[q].ready = players[q].ready
  BY <1>1, AroundJob DEF SeatOf, EnterEffect
<1>6. \A k : (k \in DOMAIN rooms' /\ rooms'[k].gameStarted)
               <=> (k \in DOMAIN rooms /\ rooms[k].gameStarted)
  BY DEF EnterEffect
<1>7. MatchStep(World, NewWorld)
  BY <1>4, <1>5, <1>6, MatchRests, SeatsOfPlayers
<1>8. Numbered'
  BY <1>2, AroundJob DEF Numbered, RoomNumbers, IsGame
<1>9. QED
  BY <1>3, <1>7, <1>8 DEF Promise

\* A player that is in a room keeps the room from being empty.
LEMMA RoomsOfPlayers ==
  ASSUME GInv, NEW q \in DOMAIN players, players[q].room # NoRoom
  PROVE  /\ players[q].room \in DOMAIN rooms
         /\ rooms[players[q].room].players # <<>>
<1>1. players[q].room \in DOMAIN rooms /\ q \in Sessions
  BY BeforeJob DEF IsWorld, PlayerRecords
<1>2. Inside(World, players[q].room, q)
  BY <1>1, BeforeJob DEF Agrees
<1>3. QED
  BY <1>1, <1>2, BeforeJob, NobodyThere DEF Inside

\* A room acquired for a join that is refused stays behind, empty; otherwise
\* the player sits down in it, and everyone there is told.
LEMMA JoinRoomPromise ==
  ASSUME GInv, GInv', Numbered, NEW s \in Sessions, NEW requested \in RoomIds,
         JoinRoom(s, requested)
  PROVE  Promise
<1>1. /\ s \in DOMAIN players /\ players[s].room = NoRoom
      /\ requested \in Int
  BY BeforeJob, GameServerAssumption
  DEF JoinRoom, Admits, Admitted, Connected, WorldInv, StateTrue
<1>2. PICK got \in AcquireGameRoom(requested) : JoinAcquired(s, got)
  BY DEF JoinRoom
<1> DEFINE w == got.world
           k == got.room
           v == Seat(w, k, s)
<1>3. /\ WorldInv(w)
      /\ w.players = players
      /\ k \in DOMAIN w.rooms \cup {NoRoom}
      /\ DOMAIN rooms \subseteq DOMAIN w.rooms
      /\ \A j \in DOMAIN rooms :
           /\ w.rooms[j].players = rooms[j].players
           /\ w.rooms[j].gameStarted = rooms[j].gameStarted
           /\ rooms[j].players # <<>> => w.rooms[j].capacity = rooms[j].capacity
      /\ \A j \in DOMAIN w.rooms \ DOMAIN rooms : w.rooms[j] = NewRoom(GAME_ROOM_CAPACITY)
      /\ \A j \in DOMAIN w.rooms \ {k} : j \in DOMAIN rooms /\ w.rooms[j] = rooms[j]
      /\ k # NoRoom =>
           /\ w.rooms[k].capacity # 0
           /\ \/ k \in DOMAIN rooms /\ rooms[k].capacity # 0
              \/ k = requested
              \/ requested = 0 /\ OpenRooms = {} /\ k = nextGameRoomId
      /\ \/ got.next = nextGameRoomId
         \/ got.next = nextGameRoomId + 1 /\ requested = 0 /\ OpenRooms = {}
  BY <1>1, Acquiring DEF JoinRoom
<1>4. nextGameRoomId' = got.next
  BY <1>2 DEF JoinAcquired
<1>5. /\ nextGameRoomId \in Nat /\ FirstGameRoomId <= nextGameRoomId
      /\ requested = 0 /\ OpenRooms = {} => nextGameRoomId < FirstGameRoomId + MaxGameRooms
      /\ FirstGameRoomId \in Nat /\ MaxGameRooms \in Nat
  BY GameServerAssumption DEF JoinRoom, GInv, NumbersInv
<1>6. k # NoRoom => k \in RoomNumbers
  BY <1>3, <1>5 DEF RoomNumbers, Numbered
<1>7. \A j \in DOMAIN w.rooms : w.rooms[j].capacity # 0 => j \in RoomNumbers
  <2>1. NoRoom \notin DOMAIN w.rooms
    BY <1>3, GameServerAssumption DEF WorldInv, IsWorld
  <2>2. QED
    BY <1>3, <1>6, <2>1 DEF Numbered
<1>8. nextGameRoomId' <= FirstGameRoomId + MaxGameRooms
  BY <1>3, <1>4, <1>5 DEF Numbered
<1>9. \A j : (j \in DOMAIN w.rooms /\ w.rooms[j].gameStarted)
               <=> (j \in DOMAIN rooms /\ rooms[j].gameStarted)
  BY <1>3 DEF NewRoom
\* For everyone who is seated, its room is the game room it was.
<1>10. ASSUME NEW q \in DOMAIN players, players[q].room # NoRoom
       PROVE  IsGame(w, players[q].room) <=> IsGame(World, players[q].room)
  BY <1>3, <1>10, RoomsOfPlayers, AroundJob DEF IsGame
<1> HIDE DEF v
\* The join is refused.
<1>11. ASSUME NEW code, Done(w, SendError(s, code))
       PROVE  Promise
  <2>1. players' = players /\ rooms' = w.rooms
    BY <1>3, <1>11 DEF Done
  <2>2. Told
    <3>1. ASSUME NEW j \in DOMAIN rooms'
          PROVE  \/ /\ j \in DOMAIN rooms
                    /\ rooms'[j].players = rooms[j].players
                    /\ rooms'[j].capacity = rooms[j].capacity
                 \/ rooms'[j].players = <<>>
      BY <1>3, <2>1 DEF NewRoom
    <3>2. QED
      BY <2>1, <3>1, ToldIf
  <2>3. ASSUME NEW q \in Sessions
        PROVE  SeatOf(NewWorld, q) = SeatOf(World, q)
    <3>1. \A j : IsGame(NewWorld, j) <=> IsGame(w, j)
      BY <2>1, AroundJob DEF IsGame
    <3>2. QED
      BY <1>10, <2>1, <3>1, AroundJob DEF SeatOf, IsGame
  <2>4. MatchStep(World, NewWorld)
    BY <1>9, <2>1, <2>3, MatchRests, SeatsOfPlayers
  <2>5. Numbered'
    BY <1>7, <1>8, <2>1 DEF Numbered, RoomNumbers
  <2>6. QED
    BY <2>2, <2>4, <2>5 DEF Promise
\* The player sits down.
<1>12. ASSUME k # NoRoom, ~w.rooms[k].gameStarted, ~IsFull(w.rooms[k]),
              Done(v, BroadcastRoomState(v, k))
       PROVE  Promise
  <2>1. s \in DOMAIN w.players /\ k \in DOMAIN w.rooms /\ w.players[s].room = NoRoom
    BY <1>1, <1>3, <1>12
  <2>2. /\ WorldInv(v) /\ SameNames(w, v)
        /\ v.players[s].room = k
        /\ ~v.players[s].ready
        /\ \A q \in DOMAIN players \ {s} : v.players[q] = players[q]
        /\ \A j \in DOMAIN w.rooms :
             /\ v.rooms[j].capacity = w.rooms[j].capacity
             /\ v.rooms[j].gameStarted = w.rooms[j].gameStarted
        /\ \A j \in DOMAIN w.rooms \ {k} : v.rooms[j] = w.rooms[j]
    BY <1>3, <2>1, Seating DEF v
  <2>3. /\ players' = v.players /\ rooms' = v.rooms /\ NewWorld = v
        /\ sent' = BroadcastRoomState(v, k)
    BY <1>12, <2>2 DEF Done, NewWorld, WorldInv, IsWorld
  <2>4. Told
    <3>1. ASSUME NEW j \in DOMAIN rooms', j # k
          PROVE  /\ j \in DOMAIN rooms
                 /\ rooms'[j] = rooms[j]
                 /\ \A q \in DOMAIN players :
                      players[q].room = j => players'[q].ready = players[q].ready
      <4>1. j \in DOMAIN w.rooms
        BY <2>2, <2>3, <3>1 DEF SameNames
      <4>2. j \in DOMAIN rooms /\ rooms'[j] = rooms[j]
        BY <1>3, <2>2, <2>3, <3>1, <4>1
      <4>3. QED
        BY <1>1, <2>2, <2>3, <4>2, AroundJob
    <3>2. ToSet(BroadcastRoomState(NewWorld, k)) \subseteq ToSet(sent')
      BY <2>3
    <3>3. QED
      BY <3>1, <3>2, ToldIf
  <2>5. IsGame(v, k)
    BY <1>3, <1>12, <2>1, <2>2 DEF IsGame, SameNames
  <2>6. SeatOf(World, s) = NoRoom /\ SeatOf(v, s) = k
    BY <1>1, <2>1, <2>2, <2>5, AroundJob DEF SeatOf, SameNames
  <2>7. ASSUME NEW q \in Sessions, q # s
        PROVE  SeatOf(v, q) = SeatOf(World, q)
    <3>1. \A j : IsGame(v, j) <=> IsGame(w, j)
      BY <2>2 DEF IsGame, SameNames
    <3>2. q \in DOMAIN v.players <=> q \in DOMAIN players
      BY <1>3, <2>2 DEF SameNames
    <3>3. q \in DOMAIN players => v.players[q] = players[q]
      BY <2>2, <2>7
    <3>4. ~IsGame(w, NoRoom)
      BY <1>3, GameServerAssumption DEF IsGame, WorldInv, IsWorld
    <3>5. QED
      BY <1>10, <3>1, <3>2, <3>3, <3>4, AroundJob DEF SeatOf, IsGame
  <2>8. Seats(v) = [Seats(World) EXCEPT ![s] = k]
    BY <2>6, <2>7 DEF Seats
  <2>9. Voters(v) = Voters(World)
    <3>1. s \notin Voters(v) /\ s \notin Voters(World)
      BY <2>2, <2>6 DEF Voters
    <3>2. ASSUME NEW q, q # s
          PROVE  q \in Voters(v) <=> q \in Voters(World)
      <4>1. q \in DOMAIN v.players <=> q \in DOMAIN players
        BY <1>3, <2>2 DEF SameNames
      <4>2. q \in DOMAIN players => q \in Sessions /\ v.players[q] = players[q]
        BY <2>2, <3>2, AroundJob DEF IsWorld
      <4>3. QED
        BY <2>7, <3>2, <4>1, <4>2, AroundJob DEF Voters
    <3>3. QED
      BY <3>1, <3>2
  <2>10. Playing(v) = Playing(World) /\ k \notin Playing(World)
    <3>1. \A j : (j \in DOMAIN v.rooms /\ v.rooms[j].gameStarted)
                   <=> (j \in DOMAIN w.rooms /\ w.rooms[j].gameStarted)
      BY <2>2 DEF SameNames
    <3>2. QED
      BY <1>9, <1>12, <3>1, AroundJob DEF Playing
  <2>11. Cardinality(Sitters(World, k)) < GAME_ROOM_CAPACITY
    <3>1. w.rooms[k] \in RoomRecords
      BY <1>3, <2>1 DEF WorldInv, IsWorld
    <3>2. CASE IsGame(World, k)
      <4>1. Cardinality(Sitters(World, k)) = Len(rooms[k].players)
        BY <3>2, SittersCounted, AroundJob
      <4>2. w.rooms[k].players = rooms[k].players
        BY <1>3, <3>2, AroundJob DEF IsGame
      <4>3. w.rooms[k].capacity = GAME_ROOM_CAPACITY
        BY <1>3, <1>12, <3>1 DEF RoomRecords
      <4>4. Len(w.rooms[k].players) \in Nat
        BY <3>1 DEF RoomRecords
      <4>5. QED
        BY <1>12, <4>1, <4>2, <4>3, <4>4, GameServerAssumption DEF IsFull
    <3>3. CASE ~IsGame(World, k)
      <4>1. Sitters(World, k) = {}
        BY <1>12, <3>3 DEF Sitters, Seats, SeatOf
      <4>2. QED
        BY <4>1, FS_EmptySet, GameServerAssumption
    <3>4. QED
      BY <3>2, <3>3
  <2>12. MatchStep(World, NewWorld)
    <3>1. Seats(World)[s] = NoRoom
      BY <2>6 DEF Seats
    <3>2. SitsDown(World, v, s, k)
      BY <2>8, <2>9, <2>10, <2>11, <3>1 DEF SitsDown
    <3>3. QED
      BY <1>6, <1>12, <2>3, <3>2 DEF MatchStep
  <2>13. Numbered'
    BY <1>7, <1>8, <2>2, <2>3 DEF Numbered, RoomNumbers, SameNames
  <2>14. QED
    BY <2>4, <2>12, <2>13 DEF Promise
<1>13. QED
  BY <1>2, <1>11, <1>12 DEF JoinAcquired, v

\* What a player sees of a room does not depend on whether the game started.
LEMMA StartLooksTheSame ==
  ASSUME NEW w, NEW v, NEW k \in DOMAIN w.rooms, IsWorld(w), Agrees(w),
         v.rooms[k].players = w.rooms[k].players,
         v.rooms[k].capacity = w.rooms[k].capacity,
         \A q \in DOMAIN w.players :
           /\ v.players[q].ready = w.players[q].ready
           /\ v.players[q].name = w.players[q].name
  PROVE  BroadcastRoomState(v, k) = BroadcastRoomState(w, k)
<1> DEFINE list == w.rooms[k].players
<1>1. \A i \in DOMAIN list : list[i] \in DOMAIN w.players
  BY RoomStateMail, LenProperties
<1>2. \A i \in DOMAIN list : v.players[list[i]].ready = w.players[list[i]].ready
  BY <1>1
<1>3. RoomState(v, k) = RoomState(w, k)
  BY <1>2 DEF RoomState
<1>4. Names(v, k) = Names(w, k)
  BY <1>1 DEF Names
<1>5. \A q : RoomStateTo(v, k, q) = RoomStateTo(w, k, q)
  BY <1>3 DEF RoomStateTo
<1>6. QED
  BY <1>4, <1>5 DEF BroadcastRoomState

\* The letters of the first round are among those of both.
LEMMA FirstRound ==
  ASSUME NEW w, NEW k \in DOMAIN w.rooms, IsWorld(w), Agrees(w)
  PROVE  ToSet(BroadcastRoomState(w, k))
           \subseteq ToSet(BroadcastRoomState(w, k) \o BroadcastGameStart(w, k))
<1> DEFINE list == w.rooms[k].players
           n == Len(list)
           a == BroadcastRoomState(w, k)
           b == BroadcastGameStart(w, k)
<1>1. list \in Seq(Sessions) /\ DOMAIN list = 1 .. n /\ n \in Nat
  BY RoomStateMail, LenProperties
\* There may be no such letters.
<1>0. CASE SendRoomState(Names(w, k)) = <<>>
  <2>1. DOMAIN a = {}
    BY <1>0 DEF BroadcastRoomState
  <2> HIDE DEF a, b, n
  <2>2. ToSet(a) \subseteq ToSet(a \o b)
    BY <2>1 DEF ToSet
  <2>3. QED
    BY <2>2 DEF a, b
<1> SUFFICES ASSUME SendRoomState(Names(w, k)) # <<>>
             PROVE  ToSet(a) \subseteq ToSet(a \o b)
  BY <1>0
<1>2. DOMAIN a = 1 .. n /\ DOMAIN b = 1 .. n
  BY RoomStateMail, GameStartMail
<1>3. a = [i \in 1 .. n |-> a[i]] /\ b = [i \in 1 .. n |-> b[i]]
  BY <1>1 DEF BroadcastRoomState, BroadcastGameStart
<1> HIDE DEF a, b, n
<1>4. /\ DOMAIN (a \o b) = 1 .. n + n
      /\ \A i \in 1 .. n : (a \o b)[i] = a[i]
  BY <1>1, <1>3, TwoRounds
<1>5. \A i \in 1 .. n : i \in 1 .. n + n
  BY <1>1
<1>6. QED
  BY <1>2, <1>4, <1>5 DEF ToSet

\* A vote in a game room, and the start of the game if it was the last one
\* missing; in a chat room it means nothing.
LEMMA ReadyPromise ==
  ASSUME GInv, GInv', Numbered, NEW s \in Sessions, NEW flag \in BOOLEAN, Ready(s, flag)
  PROVE  Promise
<1> DEFINE w == [World EXCEPT !.players[s].ready = flag]
           p == [players[s] EXCEPT !.ready = flag]
           k == players[s].room
           start == MayStart(w, k)
           v == IF start THEN StartGame(w, k) ELSE w
<1>1. /\ s \in DOMAIN players /\ k # NoRoom
      /\ ~rooms[k].gameStarted
      /\ AnswerReady(w, k)
      /\ nextGameRoomId' = nextGameRoomId
  BY DEF Ready, Admits, Connected
<1>2. players[s] \in PlayerRecords(DOMAIN rooms)
  BY <1>1, BeforeJob DEF IsWorld
<1>3. /\ p \in PlayerRecords(DOMAIN rooms)
      /\ p.room = k /\ p.state = players[s].state /\ p.ready = flag
  BY <1>2 DEF PlayerRecords
<1>4. k \in DOMAIN rooms
  BY <1>1, <1>2 DEF PlayerRecords
<1>5. w = [World EXCEPT !.players[s] = p]
  BY BeforeJob
<1> HIDE DEF p, w, k
<1>6. /\ IsWorld(w) /\ Agrees(w) /\ SameNames(World, w)
      /\ w.rooms = rooms
      /\ w.players[s] = p
      /\ \A q \in DOMAIN players \ {s} : w.players[q] = players[q]
  BY <1>1, <1>3, <1>5, BeforeJob, Marking DEF k
<1>7. /\ DOMAIN w.players = DOMAIN players
      /\ \A q \in DOMAIN players : w.players[q].room = players[q].room
      /\ \A q \in DOMAIN players \ {s} : w.players[q].ready = players[q].ready
      /\ w.players[s].ready = flag
  BY <1>3, <1>6, BeforeJob DEF k, SameNames
<1>8. WorldInv(w)
  <2>1. ASSUME NEW q \in DOMAIN w.players
        PROVE  StateTrue(w, q)
    <3>1. w.players[q].state = players[q].state /\ w.players[q].room = players[q].room
      BY <1>3, <1>6, <1>7, <2>1
    <3>2. QED
      BY <1>6, <1>7, <3>1, BeforeJob, StateStays DEF WorldInv
  <2>2. QED
    BY <1>6, <2>1 DEF WorldInv
\* Either way the worlds agree but for the game.
<1>9. /\ IsWorld(v) /\ SameNames(w, v)
      /\ \A j \in DOMAIN rooms :
           /\ v.rooms[j].players = rooms[j].players
           /\ v.rooms[j].capacity = rooms[j].capacity
           /\ v.rooms[j].gameStarted <=> ((start /\ j = k) \/ rooms[j].gameStarted)
      /\ \A q \in DOMAIN players :
           /\ v.players[q].room = players[q].room
           /\ v.players[q].ready = w.players[q].ready
           /\ v.players[q].name = w.players[q].name
  <2>1. CASE start
    <3>1. v = StartGame(w, k)
      BY <2>1
    <3> HIDE DEF v, start
    <3>2. QED
      BY <1>4, <1>6, <1>7, <1>8, <2>1, <3>1, Starting DEF WorldInv
  <2>2. CASE ~start
    <3>1. v = w
      BY <2>2
    <3> HIDE DEF v, start
    <3>2. QED
      BY <1>6, <1>7, <2>2, <3>1 DEF SameNames
  <2>3. QED
    BY <2>1, <2>2
<1>10. /\ Done(v, sent')
       /\ ToSet(BroadcastRoomState(w, k)) \subseteq ToSet(sent')
  <2>1. CASE start
    <3>1. Done(StartGame(w, k), BroadcastRoomState(w, k) \o BroadcastGameStart(w, k))
      BY <1>1, <2>1 DEF AnswerReady
    <3>2. QED
      BY <1>4, <1>6, <2>1, <3>1, FirstRound DEF Done
  <2>2. CASE ~start
    <3>1. Done(w, BroadcastRoomState(w, k))
      BY <1>1, <2>2 DEF AnswerReady
    <3>2. QED
      BY <2>2, <3>1 DEF Done
  <2>3. QED
    BY <2>1, <2>2
<1> HIDE DEF v, start
<1>11. players' = v.players /\ rooms' = v.rooms /\ NewWorld = v
  BY <1>9, <1>10 DEF Done, NewWorld, IsWorld
<1>12. DOMAIN v.players = DOMAIN players /\ DOMAIN v.rooms = DOMAIN rooms
  BY <1>6, <1>7, <1>9 DEF SameNames
<1>13. Told
  <2>1. BroadcastRoomState(v, k) = BroadcastRoomState(w, k)
    BY <1>4, <1>6, <1>7, <1>9, StartLooksTheSame
  <2>2. ASSUME NEW j \in DOMAIN rooms', j # k
        PROVE  /\ j \in DOMAIN rooms
               /\ rooms'[j].players = rooms[j].players
               /\ rooms'[j].capacity = rooms[j].capacity
               /\ \A q \in DOMAIN players :
                    players[q].room = j => players'[q].ready = players[q].ready
    BY <1>7, <1>9, <1>11, <1>12, <2>2 DEF k
  <2>3. QED
    BY <1>10, <1>11, <2>1, <2>2, ToldIf
<1>14. \A j : IsGame(v, j) <=> IsGame(World, j)
  BY <1>9, <1>12, AroundJob DEF IsGame
<1>15. \A q : SeatOf(v, q) = SeatOf(World, q)
  BY <1>9, <1>12, <1>14, AroundJob DEF SeatOf
<1>16. Seats(v) = Seats(World)
  BY <1>15 DEF Seats
<1>17. Numbered'
  BY <1>1, <1>9, <1>11, <1>12 DEF Numbered, RoomNumbers
<1>18. CASE IsGame(World, k)
  <2>1. SeatOf(World, s) = k
    BY <1>1, <1>18, AroundJob DEF SeatOf, k
  <2>2. Voters(v) = IF flag THEN Voters(World) \cup {s} ELSE Voters(World) \ {s}
    BY <1>1, <1>7, <1>9, <1>12, <1>15, <2>1, AroundJob DEF Voters
  <2>3. Playing(v) = IF start THEN Playing(World) \cup {k} ELSE Playing(World)
    BY <1>4, <1>9, <1>12, AroundJob DEF Playing
  <2>4. start <=> /\ Cardinality(Sitters(World, k)) = GAME_ROOM_CAPACITY
                  /\ Sitters(World, k) \subseteq Voters(v)
    <3> DEFINE list == rooms[k].players
    <3>1. Cardinality(Sitters(World, k)) = Len(list)
      BY <1>18, SittersCounted, AroundJob
    <3>2. rooms[k].capacity = GAME_ROOM_CAPACITY /\ rooms[k].capacity # 0
      BY <1>4, <1>18, AroundJob DEF IsGame, IsWorld, RoomRecords
    <3>3. list \in Seq(Sessions) /\ DOMAIN list = 1 .. Len(list)
      BY <1>4, AroundJob, LenProperties DEF IsWorld, RoomRecords
    <3>4. \A q \in Sessions : q \in Sitters(World, k) <=> Contains(list, q)
      BY <1>18, SittersAreInside, AroundJob DEF Sitters, Seats, Inside
    <3>5. ASSUME NEW q \in Sitters(World, k)
          PROVE  q \in Voters(v) <=> w.players[q].ready
      <4>1. q \in Sessions /\ SeatOf(World, q) = k
        BY DEF Sitters, Seats
      <4>2. q \in DOMAIN players
        BY <1>1, <4>1, SeatsOfPlayers
      <4>3. QED
        BY <1>1, <1>9, <1>12, <1>15, <4>1, <4>2 DEF Voters
    <3>6. (\A i \in DOMAIN list : w.players[list[i]].ready)
             <=> (\A q \in Sitters(World, k) : w.players[q].ready)
      <4>1. \A i \in DOMAIN list : list[i] \in Sitters(World, k)
        BY <3>3, <3>4, ElementOfSeq DEF Contains
      <4>2. \A q \in Sitters(World, k) : \E i \in DOMAIN list : list[i] = q
        BY <3>3, <3>4 DEF Contains, Sitters
      <4>3. QED
        BY <4>1, <4>2
    <3>7. start <=> /\ Len(list) = GAME_ROOM_CAPACITY
                    /\ \A i \in DOMAIN list : w.players[list[i]].ready
      BY <1>6, <3>2 DEF start, MayStart
    <3> HIDE DEF list
    <3>8. QED
      BY <3>1, <3>5, <3>6, <3>7
  <2>5. Seats(World)[s] = k
    BY <2>1 DEF Seats
  <2>6. k \notin Playing(World)
    BY <1>1, AroundJob DEF Playing
  <2>7. Votes(World, v, s)
    BY <1>1, <1>16, <2>2, <2>3, <2>4, <2>5, <2>6 DEF Votes
  <2>8. QED
    BY <1>11, <1>13, <1>17, <2>7 DEF Promise, MatchStep
<1>19. CASE ~IsGame(World, k)
  <2>1. rooms[k].capacity = 0
    BY <1>4, <1>19, AroundJob DEF IsGame
  <2>2. ~start
    BY <1>6, <2>1 DEF start, MayStart
  <2>3. SeatOf(World, s) = NoRoom
    BY <1>1, <1>19, AroundJob DEF SeatOf, k
  <2>4. Voters(v) = Voters(World)
    BY <1>7, <1>9, <1>12, <1>15, <2>3, AroundJob DEF Voters
  <2>5. Playing(v) = Playing(World)
    BY <1>9, <1>12, <2>2, AroundJob DEF Playing
  <2>6. QED
    BY <1>11, <1>13, <1>16, <1>17, <2>4, <2>5 DEF Promise, MatchStep
<1>20. QED
  BY <1>18, <1>19

\* Every job keeps the promise.
LEMMA NextPromise ==
  ASSUME GInv, Numbered, ~MixesRooms, Next
  PROVE  Promise
<1>1. GInv'
  BY NextKeeps
<1> PICK s \in Sessions :
      OnSessionConnected(s) \/ OnSessionDisconnected(s) \/ RoomPacket(s) \/ OtherPacket(s)
  BY DEF Next
<1>2. CASE OnSessionConnected(s)
  BY <1>1, <1>2, ConnectedPromise
<1>3. CASE OnSessionDisconnected(s)
  BY <1>1, <1>3, DisconnectedPromise
<1>4. CASE RoomPacket(s)
  <2> PICK id \in RoomIds : (MayEnter(s, id) /\ EnterRoom(s, id)) \/ JoinRoom(s, id)
    BY <1>4 DEF RoomPacket
  <2>1. CASE MayEnter(s, id) /\ EnterRoom(s, id)
    <3>1. EnterEffect(s, id) /\ nextGameRoomId' = nextGameRoomId
      BY <2>1, EnterRoomKeeps DEF EnterRoom
    <3>2. QED
      BY <1>1, <2>1, <3>1, EnterRoomPromise
  <2>2. CASE JoinRoom(s, id)
    BY <1>1, <2>2, JoinRoomPromise
  <2>3. QED
    BY <2>1, <2>2
<1>5. ASSUME NEW body \in NameLengths \cup {0}, Login(s, body)
      PROVE  Promise
  <2> DEFINE n == IF body = 0 THEN players[s].name ELSE body
             v == SetState(SetName(World, s, n), s, "LoggedIn")
  <2>1. s \in DOMAIN players /\ players[s].state = "None"
    BY <1>5 DEF Login, Admits, Admitted, Connected
  <2>2. Done(v, <<>>) /\ nextGameRoomId' = nextGameRoomId
    BY <1>5 DEF Login
  <2>3. n \in NameLengths \cup {0}
    BY <2>1, BeforeJob DEF IsWorld, PlayerRecords
  <2> HIDE DEF n, v
  <2>4. /\ SameNames(World, v) /\ v.rooms = rooms
        /\ v.players[s].room = NoRoom
        /\ v.players[s].ready = players[s].ready
        /\ \A q \in DOMAIN players \ {s} : v.players[q] = players[q]
    BY <2>1, <2>3, LoggingIn DEF v
  <2>5. players[s].room = NoRoom
    BY <2>1, BeforeJob DEF WorldInv, StateTrue
  <2>6. QED
    BY <1>1, <2>2, <2>4, <2>5, BeforeJob, QuietPromise DEF Done, SameNames
<1>6. ASSUME NEW name \in GivenNames, Hello(s, name)
      PROVE  Promise
  <2> DEFINE v == SetState(SetName(World, s, name), s, "LoggedIn")
             out == <<[to |-> s, type |-> "SC_WELCOME"]>>
  <2>1. s \in DOMAIN players /\ players[s].state = "None"
    BY <1>6 DEF Hello, Admits, Admitted, Connected
  <2>2. Done(v, out) /\ nextGameRoomId' = nextGameRoomId
    BY <1>6 DEF Hello
  <2> HIDE DEF v
  <2>3. /\ SameNames(World, v) /\ v.rooms = rooms
        /\ v.players[s].room = NoRoom
        /\ v.players[s].ready = players[s].ready
        /\ \A q \in DOMAIN players \ {s} : v.players[q] = players[q]
    BY <2>1, LoggingIn DEF v, GivenNames
  <2>4. players[s].room = NoRoom
    BY <2>1, BeforeJob DEF WorldInv, StateTrue
  <2>5. QED
    BY <1>1, <2>2, <2>3, <2>4, BeforeJob, QuietPromise DEF Done, SameNames
<1>7. CASE \E flag \in BOOLEAN : Ready(s, flag)
  BY <1>1, <1>7, ReadyPromise
<1>8. CASE Chat(s)
  BY <1>1, <1>8, SameWorldPromise DEF Chat
<1>9. CASE \/ \E packet \in Packets : Blocked(s, packet)
           \/ \E code \in {"BAD_FORMAT", "VERSION_MISMATCH"} : RefuseHello(s, code)
           \/ \E wellFormed \in BOOLEAN : EnterRoomIgnored(s, wellFormed)
           \/ \E hasText \in BOOLEAN : ChatIgnored(s, hasText)
           \/ JoinRefused(s)
           \/ ReadyRefused(s)
  <2>1. Ignore \/ \E code : Refuse(s, code)
    BY <1>9 DEF Blocked, RefuseHello, EnterRoomIgnored, ChatIgnored, JoinRefused, ReadyRefused
  <2>2. QED
    BY <1>1, <2>1, SameWorldPromise DEF Ignore, Refuse
<1>10. QED
  BY <1>2, <1>3, <1>4, <1>5, <1>6, <1>7, <1>8, <1>9 DEF OtherPacket

-----------------------------------------------------------------------------
(* The theorems.                                                           *)

\* The Lobby is a chat room, so there is no game room at first.
LEMMA InitNumbered == Init => Numbered
<1> SUFFICES ASSUME Init PROVE Numbered
  OBVIOUS
<1>1. DOMAIN rooms = {1} /\ rooms[1].capacity = 0
  BY DEF Init, NewRoom
<1>2. nextGameRoomId <= FirstGameRoomId + MaxGameRooms
  BY GameServerAssumption DEF Init
<1>3. QED
  BY <1>1, <1>2 DEF Numbered

\* Every game room has a number of its own kind, if clients keep chat and game
\* apart.
THEOREM NumberedInvariant == ASSUME ~MixesRooms PROVE Spec => []Numbered
<1>1. Numbered /\ UNCHANGED vars => Numbered'
  BY DEF Numbered, vars, RoomNumbers
<1>2. GInv /\ Numbered /\ [Next]_vars => Numbered'
  BY <1>1, NextPromise DEF Promise
<1>3. QED
  BY <1>2, InitNumbered, GInvInvariant, PTL DEF Spec

\* Whenever a game room changes, everyone who is then in it is sent its state, if
\* their names leave that state room in a packet.
THEOREM EveryoneIsTold == ASSUME ~MixesRooms PROVE Spec => ChangesAreTold
<1>1. GInv /\ Numbered /\ [Next]_vars =>
        [\A k \in DOMAIN rooms' :
           rooms'[k].capacity # 0 /\ Changes(k) /\ RoomStateFits(NewWorld, k)
             => AllAreTold(k)]_vars
  BY NextPromise DEF Promise, Told
<1>2. QED
  BY <1>1, GInvInvariant, NumberedInvariant, PTL DEF Spec, ChangesAreTold

\* The server's rooms, players and ready flags implement Match: no game room
\* seats too many, a game starts with the vote that completes it, and nobody
\* sits down afterwards.
THEOREM RoomsImplementMatch == ASSUME ~MixesRooms PROVE Spec => ImplementsMatch
<1>1. Init => Waiting!MatchInit
  <2> SUFFICES ASSUME Init PROVE Waiting!MatchInit
    OBVIOUS
  <2>1. DOMAIN players = {} /\ DOMAIN rooms = {1} /\ rooms[1].gameStarted = FALSE
    BY DEF Init, NewRoom
  <2>2. \A s \in Sessions : GameSeat(s) = NoRoom
    BY <2>1 DEF GameSeat, Connected
  <2>3. QED
    BY <2>1, <2>2 DEF Waiting!MatchInit, Connected
<1>2. GInv /\ Numbered /\ [Next]_vars => [Waiting!MatchNext]_Waiting!matchVars
  <2>1. ASSUME GInv, Numbered, Next
        PROVE  [Waiting!MatchNext]_Waiting!matchVars
    BY <2>1, NextPromise, MatchStepIsStep DEF Promise
  <2>2. ASSUME UNCHANGED vars
        PROVE  UNCHANGED Waiting!matchVars
    <3>1. players' = players /\ rooms' = rooms
      BY <2>2 DEF vars
    <3>2. QED
      BY <3>1 DEF Waiting!matchVars, GameSeat, IsGameRoom, Connected
  <2>3. QED
    BY <2>1, <2>2
<1>3. QED
  BY <1>1, <1>2, GInvInvariant, NumberedInvariant, PTL
  DEF Spec, ImplementsMatch, Waiting!MatchSpec

=============================================================================
