-------------------------- MODULE GameServerProofs --------------------------
(***************************************************************************)
(* Proofs about GameServer, for any number of clients, rooms and jobs and  *)
(* every capacity: players and rooms list each other, the FSM's states are *)
(* true, games start as announced, automatic assignment is not refused and *)
(* chat rooms are left alone.  For the code's capacity, 2: the players of  *)
(* a game start apart, on tiles that are free and connected.               *)
(*                                                                         *)
(* A handler is a composition of functions from worlds to worlds, as the   *)
(* code's is of calls.  For each function a lemma says what it does to a   *)
(* world and that it keeps WorldInv, or what of WorldInv it leaves to the  *)
(* function called after it; a step is then the sum of its calls.          *)
(***************************************************************************)
EXTENDS GameServer, SequenceTheorems, WellFoundedInduction, TLAPS

-----------------------------------------------------------------------------
(* The sequences of players that rooms hold.                               *)

\* No player is in the sequence twice.
Distinct(q) == \A i, j \in 1 .. Len(q) : q[i] = q[j] => i = j

\* A set of natural numbers that is not empty has a least element.
LEMMA LeastElement ==
  ASSUME NEW I, I \subseteq Nat, I # {}
  PROVE  \E n \in I : \A k \in I : n <= k
<1> DEFINE R == {p \in Nat \X Nat : p[1] < p[2]}
<1>1. IsWellFoundedOn(R, Nat)
  BY NatLessThanWellFounded DEF OpToRel
<1>2. PICK n \in I : \A k \in I : <<k, n>> \notin R
  BY <1>1, WFMin
<1>3. ASSUME NEW k \in I
      PROVE  n <= k
  <2>1. k \in Nat /\ n \in Nat
    OBVIOUS
  <2>2. <<k, n>> \in Nat \X Nat /\ <<k, n>> \notin R
    BY <1>2, <2>1
  <2>3. ~(k < n)
    BY <2>2
  <2>4. QED
    BY <2>1, <2>3
<1>4. QED
  BY <1>3

\* Counting from 0, one reaches every number.
LEMMA OneByOne ==
  ASSUME NEW I, 0 \in I, \A n \in Nat : n \in I => n + 1 \in I
  PROVE  \A n \in Nat : n \in I
<1> SUFFICES ASSUME NEW m \in Nat, m \notin I
             PROVE  FALSE
  OBVIOUS
<1> DEFINE J == {n \in Nat : n \notin I}
<1>1. J \subseteq Nat /\ J # {}
  OBVIOUS
<1>2. PICK n \in J : \A k \in J : n <= k
  <2> HIDE DEF J
  <2>1. QED
    BY <1>1, LeastElement
<1>3. n \in Nat /\ n # 0 /\ n \notin I
  OBVIOUS
<1>4. n - 1 \in Nat /\ ~(n <= n - 1) /\ n - 1 + 1 = n
  BY <1>3
<1>5. n - 1 \in I
  BY <1>2, <1>4
<1>6. QED
  BY <1>3, <1>4, <1>5

\* r is q without its i-th element: the ones behind it move up.
ClosesUp(q, r, i) ==
  \A j \in 1 .. Len(q) - 1 : r[j] = q[IF j < i THEN j ELSE j + 1]

\* RemoveFirst takes one element out, and the ones behind it move up.
LEMMA RemoveFirstMoves ==
  ASSUME NEW S, NEW q \in Seq(S), NEW e, Contains(q, e)
  PROVE  /\ RemoveFirst(q, e) \in Seq(S)
         /\ Len(RemoveFirst(q, e)) = Len(q) - 1
         /\ \E i \in 1 .. Len(q) : q[i] = e /\ ClosesUp(q, RemoveFirst(q, e), i)
<1> DEFINE I == {i \in 1 .. Len(q) : q[i] = e}
           m == SelectInSeq(q, LAMBDA v : v = e)
<1>1. Len(q) \in Nat /\ \A i \in 1 .. Len(q) : q[i] \in S
  BY ElementOfSeq
<1>2. I # {} /\ I \subseteq Nat
  BY <1>1 DEF Contains
<1>3. \E n \in I : \A k \in I : n <= k
  BY <1>2, LeastElement
<1>4. m = Min(I)
  BY <1>2 DEF SelectInSeq
<1>5. m \in I
  BY <1>3, <1>4 DEF Min
<1>6. m \in 1 .. Len(q) /\ q[m] = e
  BY <1>5
<1>7. RemoveFirst(q, e) = SubSeq(q, 1, m - 1) \o SubSeq(q, m + 1, Len(q))
  BY DEF RemoveFirst, RemoveAt, Contains
<1> DEFINE a == SubSeq(q, 1, m - 1)
           b == SubSeq(q, m + 1, Len(q))
<1> HIDE DEF m, I
<1>8. /\ a \in Seq(S) /\ Len(a) = m - 1
      /\ \A j \in 1 .. m - 1 : a[j] = q[j]
  BY <1>1, <1>6, SubSeqProperties
<1>9. /\ b \in Seq(S) /\ Len(b) = Len(q) - m
      /\ \A j \in 1 .. Len(q) - m : b[j] = q[m + j]
  BY <1>1, <1>6, SubSeqProperties
<1> HIDE DEF a, b
<1>10. /\ a \o b \in Seq(S) /\ Len(a \o b) = Len(q) - 1
       /\ \A j \in 1 .. Len(q) - 1 : (a \o b)[j] = IF j <= m - 1 THEN a[j] ELSE b[j - (m - 1)]
  <2>1. /\ a \o b \in Seq(S) /\ Len(a \o b) = Len(a) + Len(b)
        /\ \A j \in 1 .. Len(a) + Len(b) :
             (a \o b)[j] = IF j <= Len(a) THEN a[j] ELSE b[j - Len(a)]
    BY <1>8, <1>9, ConcatProperties
  <2>2. Len(a) + Len(b) = Len(q) - 1
    BY <1>1, <1>6, <1>8, <1>9
  <2>3. QED
    BY <1>8, <2>1, <2>2
<1>11. ASSUME NEW j \in 1 .. Len(q) - 1
       PROVE  (a \o b)[j] = IF j < m THEN q[j] ELSE q[j + 1]
  <2>1. CASE j < m
    <3>1. j \in 1 .. m - 1
      BY <1>1, <1>6, <2>1
    <3>2. QED
      BY <1>1, <1>6, <1>8, <1>10, <2>1, <3>1
  <2>2. CASE ~(j < m)
    <3>1. j - (m - 1) \in 1 .. Len(q) - m /\ m + (j - (m - 1)) = j + 1
      BY <1>1, <1>6, <2>2
    <3>2. (a \o b)[j] = b[j - (m - 1)]
      BY <1>1, <1>6, <1>10, <2>2
    <3>3. b[j - (m - 1)] = q[j + 1]
      BY <1>9, <3>1
    <3>4. QED
      BY <2>2, <3>2, <3>3
  <2>3. QED
    BY <2>1, <2>2
<1>12. RemoveFirst(q, e) = a \o b
  BY <1>7 DEF a, b
<1>13. ClosesUp(q, RemoveFirst(q, e), m)
  BY <1>11, <1>12 DEF ClosesUp
<1>14. QED
  BY <1>6, <1>10, <1>12, <1>13

\* One more element, that was not there.
LEMMA AppendNew ==
  ASSUME NEW S, NEW q \in Seq(S), NEW e \in S, Distinct(q), ~Contains(q, e)
  PROVE  /\ Append(q, e) \in Seq(S)
         /\ Distinct(Append(q, e))
         /\ \A x : Contains(Append(q, e), x) <=> Contains(q, x) \/ x = e
<1>1. /\ Append(q, e) \in Seq(S)
      /\ Len(q) \in Nat
      /\ Len(Append(q, e)) = Len(q) + 1
      /\ \A i \in 1 .. Len(q) : Append(q, e)[i] = q[i]
      /\ Append(q, e)[Len(q) + 1] = e
  BY AppendProperties
<1> DEFINE a == Append(q, e)
<1> HIDE DEF a
<1>2. Distinct(a)
  BY <1>1 DEF Distinct, Contains, a
<1>3. ASSUME NEW x
      PROVE  Contains(a, x) <=> Contains(q, x) \/ x = e
  BY <1>1 DEF Contains, a
<1>4. QED
  BY <1>1, <1>2, <1>3 DEF a

\* One element less.
LEMMA RemoveOne ==
  ASSUME NEW S, NEW q \in Seq(S), NEW e, Distinct(q), Contains(q, e)
  PROVE  /\ RemoveFirst(q, e) \in Seq(S)
         /\ Distinct(RemoveFirst(q, e))
         /\ \A x : Contains(RemoveFirst(q, e), x) <=> Contains(q, x) /\ x # e
<1> DEFINE r == RemoveFirst(q, e)
<1>1. Len(q) \in Nat
  OBVIOUS
<1>2. r \in Seq(S) /\ Len(r) = Len(q) - 1
  BY RemoveFirstMoves
<1>3. PICK i \in 1 .. Len(q) : q[i] = e /\ ClosesUp(q, r, i)
  BY RemoveFirstMoves
<1> HIDE DEF r
<1> DEFINE at(j) == IF j < i THEN j ELSE j + 1
<1>4. ASSUME NEW j \in 1 .. Len(r)
      PROVE  at(j) \in 1 .. Len(q) /\ at(j) # i /\ r[j] = q[at(j)]
  <2>1. j \in 1 .. Len(q) - 1
    BY <1>2
  <2>2. r[j] = q[at(j)]
    BY <1>3, <2>1 DEF ClosesUp
  <2>3. QED
    BY <1>1, <2>1, <2>2
<1>5. ASSUME NEW j \in 1 .. Len(q), j # i
      PROVE  \E k \in 1 .. Len(r) : at(k) = j
  <2>1. CASE j < i
    <3>1. j \in 1 .. Len(r) /\ at(j) = j
      BY <1>1, <1>2, <2>1
    <3>2. QED
      BY <3>1
  <2>2. CASE ~(j < i)
    <3>1. j - 1 \in 1 .. Len(r) /\ at(j - 1) = j
      BY <1>1, <1>2, <1>5, <2>2
    <3>2. QED
      BY <3>1
  <2>3. QED
    BY <2>1, <2>2
<1>6. \A j, k \in 1 .. Len(r) : at(j) = at(k) => j = k
  BY <1>1, <1>2
<1> HIDE DEF at
<1>7. Distinct(r)
  BY <1>4, <1>6 DEF Distinct
<1>8. ASSUME NEW x, Contains(r, x)
      PROVE  Contains(q, x) /\ x # e
  <2>1. PICK j \in 1 .. Len(r) : r[j] = x
    BY <1>8 DEF Contains
  <2>2. QED
    BY <1>3, <1>4, <2>1 DEF Contains, Distinct
<1>9. ASSUME NEW x, Contains(q, x), x # e
      PROVE  Contains(r, x)
  <2>1. PICK j \in 1 .. Len(q) : q[j] = x
    BY <1>9 DEF Contains
  <2>2. PICK k \in 1 .. Len(r) : at(k) = j
    BY <1>3, <1>9, <1>5, <2>1
  <2>3. QED
    BY <1>4, <2>1, <2>2 DEF Contains
<1>10. QED
  BY <1>2, <1>7, <1>8, <1>9 DEF r

\* Nobody is in an empty room.
LEMMA NobodyThere ==
  Distinct(<<>>) /\ \A x : ~Contains(<<>>, x)
BY DEF Distinct, Contains

-----------------------------------------------------------------------------
(* The worlds that handlers pass from call to call.                        *)

PlayerRecords(R) ==
  [state : PlayerStates, name : NameLengths \cup {0}, ready : BOOLEAN, room : R \cup {NoRoom}]

RoomRecords ==
  [capacity : {0, GAME_ROOM_CAPACITY}, gameStarted : BOOLEAN, players : Seq(Sessions)]

\* The type of a world.
IsWorld(w) ==
  /\ w = [players |-> w.players, rooms |-> w.rooms]
  /\ DOMAIN w.players \subseteq Sessions
  /\ DOMAIN w.rooms \subseteq Int
  /\ \A s \in DOMAIN w.players : w.players[s] \in PlayerRecords(DOMAIN w.rooms)
  /\ \A k \in DOMAIN w.rooms : w.rooms[k] \in RoomRecords

Inside(w, k, s) == Contains(w.rooms[k].players, s)

\* A room lists exactly the players that say they are in it, each of them once.
Agrees(w) ==
  /\ \A k \in DOMAIN w.rooms : Distinct(w.rooms[k].players)
  /\ \A k \in DOMAIN w.rooms : \A s \in Sessions :
       Inside(w, k, s) <=> s \in DOMAIN w.players /\ w.players[s].room = k

\* In world v the same players are connected and the same rooms exist as in w.
SameNames(w, v) ==
  /\ DOMAIN v.players = DOMAIN w.players
  /\ DOMAIN v.rooms = DOMAIN w.rooms

\* No player other than s, and no property of a room but its list, differs.
SameButSeat(w, v, s) ==
  /\ \A q \in DOMAIN w.players \ {s} : v.players[q] = w.players[q]
  /\ v.players[s].state = w.players[s].state
  /\ v.players[s].name = w.players[s].name
  /\ v.players[s].ready = w.players[s].ready
  /\ \A k \in DOMAIN w.rooms :
       /\ v.rooms[k].capacity = w.rooms[k].capacity
       /\ v.rooms[k].gameStarted = w.rooms[k].gameStarted

\* Whatever changes neither who is in which room nor who says so, keeps them
\* in agreement.
LEMMA SameSeats ==
  ASSUME NEW w, NEW v, Agrees(w), SameNames(w, v),
         \A s \in DOMAIN w.players : v.players[s].room = w.players[s].room,
         \A k \in DOMAIN w.rooms : v.rooms[k].players = w.rooms[k].players
  PROVE  Agrees(v)
BY DEF Agrees, SameNames, Inside

\* GameServer::LeaveRoom: afterwards the player is in no room, and nothing
\* else has changed.
LEMMA Leaving ==
  ASSUME NEW w, NEW s \in DOMAIN w.players, IsWorld(w), Agrees(w)
  PROVE  LET v == LeaveRoom(w, s) IN
           /\ IsWorld(v) /\ Agrees(v) /\ SameNames(w, v)
           /\ v.players[s].room = NoRoom
           /\ SameButSeat(w, v, s)
           /\ \A j \in DOMAIN w.rooms \ {w.players[s].room} : v.rooms[j] = w.rooms[j]
<1> DEFINE v == LeaveRoom(w, s)
           k == w.players[s].room
<1>1. w.players[s] \in PlayerRecords(DOMAIN w.rooms) /\ s \in Sessions
  BY DEF IsWorld
<1>2. CASE k = NoRoom
  <2>1. v = w
    BY <1>2 DEF LeaveRoom
  <2>2. QED
    BY <1>2, <2>1 DEF SameNames, SameButSeat
<1>3. CASE k # NoRoom
  <2>1. k \in DOMAIN w.rooms /\ Inside(w, k, s)
    BY <1>1, <1>3 DEF PlayerRecords, Agrees
  <2>2. v = [w EXCEPT !.rooms[k].players = RemoveFirst(@, s), !.players[s].room = NoRoom]
    BY <1>3, <2>1 DEF LeaveRoom, Inside
  <2> DEFINE list == w.rooms[k].players
  <2>3. list \in Seq(Sessions) /\ w.rooms[k] \in RoomRecords /\ Distinct(list)
    BY <2>1 DEF IsWorld, RoomRecords, Agrees
  <2>4. /\ RemoveFirst(list, s) \in Seq(Sessions)
        /\ Distinct(RemoveFirst(list, s))
        /\ \A x : Contains(RemoveFirst(list, s), x) <=> Contains(list, x) /\ x # s
    <3>1. list \in Seq(Sessions) /\ Distinct(list) /\ Contains(list, s)
      BY <2>1, <2>3 DEF Inside
    <3> HIDE DEF list
    <3>2. QED
      BY <3>1, RemoveOne
  <2>5. /\ v = [players |-> v.players, rooms |-> v.rooms]
        /\ v.players = [w.players EXCEPT ![s].room = NoRoom]
        /\ v.rooms = [w.rooms EXCEPT ![k].players = RemoveFirst(list, s)]
    BY <2>2 DEF IsWorld
  <2> HIDE DEF v, k, list
  <2>6. /\ SameNames(w, v)
        /\ v.players[s] = [w.players[s] EXCEPT !.room = NoRoom]
        /\ \A q \in DOMAIN w.players \ {s} : v.players[q] = w.players[q]
        /\ v.rooms[k] = [w.rooms[k] EXCEPT !.players = RemoveFirst(list, s)]
        /\ \A j \in DOMAIN w.rooms \ {k} : v.rooms[j] = w.rooms[j]
    BY <2>1, <2>5 DEF SameNames
  <2>7. /\ v.players[s] \in PlayerRecords(DOMAIN v.rooms)
        /\ v.players[s].room = NoRoom
        /\ v.players[s].state = w.players[s].state
        /\ v.players[s].name = w.players[s].name
        /\ v.players[s].ready = w.players[s].ready
    BY <1>1, <2>6 DEF PlayerRecords, SameNames
  <2>8. /\ v.rooms[k] \in RoomRecords
        /\ v.rooms[k].players = RemoveFirst(list, s)
        /\ v.rooms[k].capacity = w.rooms[k].capacity
        /\ v.rooms[k].gameStarted = w.rooms[k].gameStarted
    BY <2>3, <2>4, <2>6 DEF RoomRecords
  <2>9. IsWorld(v)
    BY <2>5, <2>6, <2>7, <2>8 DEF IsWorld, SameNames
  <2>10. \A j \in DOMAIN v.rooms : Distinct(v.rooms[j].players)
    BY <2>4, <2>6, <2>8 DEF Agrees, SameNames
  <2>11. ASSUME NEW j \in DOMAIN v.rooms, NEW q \in Sessions
         PROVE  Inside(v, j, q) <=> q \in DOMAIN v.players /\ v.players[q].room = j
    <3>1. j \in Int /\ j # NoRoom /\ j \in DOMAIN w.rooms
      BY <2>6, GameServerAssumption DEF IsWorld, SameNames
    <3>2. Inside(w, j, q) <=> q \in DOMAIN w.players /\ w.players[q].room = j
      BY <3>1 DEF Agrees
    <3>3. Inside(v, j, q) <=> Inside(w, j, q) /\ ~(j = k /\ q = s)
      BY <2>4, <2>6, <2>8, <3>1, <3>2 DEF Inside, list
    <3>4. CASE q = s
      BY <1>1, <2>6, <2>7, <3>1, <3>2, <3>3, <3>4 DEF SameNames, k
    <3>5. CASE q # s
      BY <2>6, <3>2, <3>3, <3>5 DEF SameNames
    <3>6. QED
      BY <3>4, <3>5
  <2>12. QED
    BY <2>6, <2>7, <2>8, <2>9, <2>10, <2>11 DEF Agrees, SameButSeat, v, k
<1>4. QED
  BY <1>2, <1>3

\* Room::Join of a player that is in no room.
LEMMA Joining ==
  ASSUME NEW w, NEW s \in DOMAIN w.players, NEW k \in DOMAIN w.rooms,
         IsWorld(w), Agrees(w), w.players[s].room = NoRoom
  PROVE  LET v == Join(w, k, s) IN
           /\ IsWorld(v) /\ Agrees(v) /\ SameNames(w, v)
           /\ v.players[s].room = k
           /\ SameButSeat(w, v, s)
           /\ v.rooms[k].players = Append(w.rooms[k].players, s)
           /\ \A j \in DOMAIN w.rooms \ {k} : v.rooms[j] = w.rooms[j]
<1> DEFINE v == Join(w, k, s)
           list == w.rooms[k].players
<1>1. w.players[s] \in PlayerRecords(DOMAIN w.rooms) /\ s \in Sessions
  BY DEF IsWorld
<1>2. k \in Int /\ k # NoRoom
  BY GameServerAssumption DEF IsWorld
<1>3. ~Inside(w, k, s)
  BY <1>1, <1>2 DEF Agrees
<1>4. v = [w EXCEPT !.rooms[k].players = Append(@, s), !.players[s].room = k]
  BY <1>3 DEF Join, Inside
<1>5. list \in Seq(Sessions) /\ w.rooms[k] \in RoomRecords /\ Distinct(list)
  BY DEF IsWorld, RoomRecords, Agrees
<1>6. /\ Append(list, s) \in Seq(Sessions)
      /\ Distinct(Append(list, s))
      /\ \A x : Contains(Append(list, s), x) <=> Contains(list, x) \/ x = s
  BY <1>1, <1>3, <1>5, AppendNew DEF Inside
<1>7. /\ v = [players |-> v.players, rooms |-> v.rooms]
      /\ v.players = [w.players EXCEPT ![s].room = k]
      /\ v.rooms = [w.rooms EXCEPT ![k].players = Append(list, s)]
  BY <1>4 DEF IsWorld
<1> HIDE DEF v, list
<1>8. /\ SameNames(w, v)
      /\ v.players[s] = [w.players[s] EXCEPT !.room = k]
      /\ \A q \in DOMAIN w.players \ {s} : v.players[q] = w.players[q]
      /\ v.rooms[k] = [w.rooms[k] EXCEPT !.players = Append(list, s)]
      /\ \A j \in DOMAIN w.rooms \ {k} : v.rooms[j] = w.rooms[j]
  BY <1>7 DEF SameNames
<1>9. /\ v.players[s] \in PlayerRecords(DOMAIN v.rooms)
      /\ v.players[s].room = k
      /\ v.players[s].state = w.players[s].state
      /\ v.players[s].name = w.players[s].name
      /\ v.players[s].ready = w.players[s].ready
  BY <1>1, <1>8 DEF PlayerRecords, SameNames
<1>10. /\ v.rooms[k] \in RoomRecords
       /\ v.rooms[k].players = Append(list, s)
       /\ v.rooms[k].capacity = w.rooms[k].capacity
       /\ v.rooms[k].gameStarted = w.rooms[k].gameStarted
  BY <1>5, <1>6, <1>8 DEF RoomRecords
<1>11. IsWorld(v)
  BY <1>7, <1>8, <1>9, <1>10 DEF IsWorld, SameNames
<1>12. \A j \in DOMAIN v.rooms : Distinct(v.rooms[j].players)
  BY <1>6, <1>8, <1>10 DEF Agrees, SameNames
<1>13. ASSUME NEW j \in DOMAIN v.rooms, NEW q \in Sessions
       PROVE  Inside(v, j, q) <=> q \in DOMAIN v.players /\ v.players[q].room = j
  <2>1. j \in Int /\ j # NoRoom /\ j \in DOMAIN w.rooms
    BY <1>8, GameServerAssumption DEF IsWorld, SameNames
  <2>2. Inside(w, j, q) <=> q \in DOMAIN w.players /\ w.players[q].room = j
    BY <2>1 DEF Agrees
  <2>3. Inside(v, j, q) <=> Inside(w, j, q) \/ (j = k /\ q = s)
    BY <1>6, <1>8, <1>10, <2>1, <2>2 DEF Inside, list
  <2>4. CASE q = s
    BY <1>1, <1>8, <1>9, <2>1, <2>2, <2>3, <2>4 DEF SameNames
  <2>5. CASE q # s
    BY <1>8, <2>2, <2>3, <2>5 DEF SameNames
  <2>6. QED
    BY <2>4, <2>5
<1>14. QED
  BY <1>8, <1>9, <1>10, <1>11, <1>12, <1>13 DEF Agrees, SameButSeat, v, list

\* A new room, under a number that is free: it is empty, and the others stay
\* as they are.
LEMMA Adding ==
  ASSUME NEW w, NEW id \in Int, id \notin DOMAIN w.rooms, IsWorld(w), Agrees(w),
         NEW capacity \in {0, GAME_ROOM_CAPACITY}
  PROVE  LET v == AddRoom(w, id, capacity) IN
           /\ IsWorld(v) /\ Agrees(v)
           /\ v.players = w.players
           /\ DOMAIN v.rooms = DOMAIN w.rooms \cup {id}
           /\ v.rooms[id] = NewRoom(capacity)
           /\ \A k \in DOMAIN w.rooms : v.rooms[k] = w.rooms[k]
<1> DEFINE v == AddRoom(w, id, capacity)
<1>1. /\ v = [players |-> v.players, rooms |-> v.rooms]
      /\ v.players = w.players
      /\ v.rooms = [k \in DOMAIN w.rooms \cup {id} |->
                      IF k = id THEN NewRoom(capacity) ELSE w.rooms[k]]
  BY DEF AddRoom, IsWorld
<1> HIDE DEF v
<1>2. /\ DOMAIN v.rooms = DOMAIN w.rooms \cup {id}
      /\ v.rooms[id] = NewRoom(capacity)
      /\ \A k \in DOMAIN w.rooms : v.rooms[k] = w.rooms[k]
  BY <1>1
<1>3. NewRoom(capacity) \in RoomRecords /\ NewRoom(capacity).players = <<>>
  BY EmptySeq DEF NewRoom, RoomRecords
<1>4. \A s \in DOMAIN w.players : w.players[s] \in PlayerRecords(DOMAIN v.rooms)
  BY <1>2 DEF IsWorld, PlayerRecords
<1>5. IsWorld(v)
  BY <1>1, <1>2, <1>3, <1>4 DEF IsWorld
<1>6. \A s \in DOMAIN w.players : w.players[s].room # id
  BY GameServerAssumption DEF IsWorld, PlayerRecords
<1>7. Agrees(v)
  BY <1>1, <1>2, <1>3, <1>6, NobodyThere DEF Agrees, Inside
<1>8. QED
  BY <1>1, <1>2, <1>5, <1>7 DEF v

\* A change of a player's state, name or readiness.
LEMMA Marking ==
  ASSUME NEW w, NEW s \in DOMAIN w.players, IsWorld(w), Agrees(w),
         NEW p \in PlayerRecords(DOMAIN w.rooms), p.room = w.players[s].room,
         NEW v, v = [w EXCEPT !.players[s] = p]
  PROVE  /\ IsWorld(v) /\ Agrees(v) /\ SameNames(w, v)
         /\ v.rooms = w.rooms
         /\ v.players[s] = p
         /\ \A q \in DOMAIN w.players \ {s} : v.players[q] = w.players[q]
<1>1. /\ v = [players |-> v.players, rooms |-> v.rooms]
      /\ v.players = [w.players EXCEPT ![s] = p]
      /\ v.rooms = w.rooms
  BY DEF IsWorld
<1>2. /\ SameNames(w, v)
      /\ v.players[s] = p
      /\ \A q \in DOMAIN w.players \ {s} : v.players[q] = w.players[q]
  BY <1>1 DEF SameNames
<1>3. IsWorld(v)
  <2>1. \A q \in DOMAIN v.players : v.players[q] \in PlayerRecords(DOMAIN v.rooms)
    <3>1. SUFFICES ASSUME NEW q \in DOMAIN w.players
                   PROVE  v.players[q] \in PlayerRecords(DOMAIN w.rooms)
      BY <1>1
    <3>2. CASE q = s
      BY <1>2, <3>2
    <3>3. CASE q # s
      <4>1. v.players[q] = w.players[q]
        BY <1>2, <3>3
      <4>2. QED
        BY <4>1 DEF IsWorld
    <3>4. QED
      BY <3>2, <3>3
  <2>2. /\ DOMAIN v.players \subseteq Sessions
        /\ DOMAIN v.rooms \subseteq Int
        /\ \A k \in DOMAIN v.rooms : v.rooms[k] \in RoomRecords
    BY <1>1, <1>2 DEF IsWorld, SameNames
  <2>3. QED
    BY <1>1, <2>1, <2>2 DEF IsWorld
<1>4. Agrees(v)
  <2>1. \A q \in DOMAIN w.players : v.players[q].room = w.players[q].room
    BY <1>2
  <2>2. \A k \in DOMAIN w.rooms : v.rooms[k].players = w.rooms[k].players
    BY <1>1
  <2>3. QED
    BY <1>2, <2>1, <2>2, SameSeats
<1>5. QED
  BY <1>1, <1>2, <1>3, <1>4

-----------------------------------------------------------------------------
(* The invariant.                                                          *)

\* What the FSM's state says of player s is so.
StateTrue(w, s) ==
  /\ w.players[s].state \in {"InRoom", "InGame"} <=> w.players[s].room # NoRoom
  /\ w.players[s].state = "InGame" => w.rooms[w.players[s].room].gameStarted

WorldInv(w) == IsWorld(w) /\ Agrees(w) /\ \A s \in DOMAIN w.players : StateTrue(w, s)

NumbersInv == nextGameRoomId \in Nat /\ FirstGameRoomId <= nextGameRoomId

MailInv == \A i \in DOMAIN sent : sent[i].to \in Connected

GInv == WorldInv(World) /\ NumbersInv /\ MailInv

\* World, next, with its values after a step.
LEMMA WorldPrimed == World' = NewWorld
BY DEF World, NewWorld

\* The invariant says all that the runs check of types and of membership.
LEMMA GInvEnough ==
  GInv => TypeOK /\ MembershipAgrees /\ StateAgrees
<1> SUFFICES ASSUME GInv PROVE TypeOK /\ MembershipAgrees /\ StateAgrees
  OBVIOUS
<1>1. World.players = players /\ World.rooms = rooms
  BY DEF World
<1>2. /\ DOMAIN players \subseteq Sessions
      /\ DOMAIN rooms \subseteq Int
      /\ \A s \in DOMAIN players : players[s] \in PlayerRecords(DOMAIN rooms)
      /\ \A k \in DOMAIN rooms : rooms[k] \in RoomRecords
      /\ \A k \in DOMAIN rooms : Distinct(rooms[k].players)
      /\ \A k \in DOMAIN rooms : \A s \in Sessions :
           Contains(rooms[k].players, s) <=> s \in DOMAIN players /\ players[s].room = k
  BY <1>1 DEF GInv, WorldInv, IsWorld, Agrees, Inside
<1>3. TypeOK
  BY <1>2 DEF GInv, NumbersInv, MailInv, TypeOK, Connected, PlayerRecords, RoomRecords
<1>4. ASSUME NEW k \in DOMAIN rooms, NEW i \in DOMAIN rooms[k].players
      PROVE  /\ rooms[k].players[i] \in Connected
             /\ players[rooms[k].players[i]].room = k
             /\ \A j \in DOMAIN rooms[k].players :
                  rooms[k].players[j] = rooms[k].players[i] => j = i
  <2> DEFINE list == rooms[k].players
  <2>1. list \in Seq(Sessions) /\ Distinct(list)
    BY <1>2 DEF RoomRecords
  <2>2. DOMAIN list = 1 .. Len(list) /\ list[i] \in Sessions
    BY <2>1, LenProperties, ElementOfSeq
  <2>3. Contains(list, list[i])
    BY <2>2 DEF Contains
  <2>4. QED
    BY <1>2, <2>1, <2>2, <2>3 DEF Connected, Distinct
<1>5. ASSUME NEW s \in Connected, players[s].room # NoRoom
      PROVE  Contains(rooms[players[s].room].players, s)
  BY <1>2, <1>5 DEF Connected, PlayerRecords
<1>6. MembershipAgrees
  BY <1>4, <1>5 DEF MembershipAgrees
<1>7. StateAgrees
  BY <1>1 DEF GInv, WorldInv, StateTrue, StateAgrees, Connected
<1>8. QED
  BY <1>3, <1>6, <1>7

\* At first there is the Lobby, and nobody.
LEMMA InitInv == Init => GInv
<1> SUFFICES ASSUME Init PROVE GInv
  OBVIOUS
<1>1. /\ World = [players |-> World.players, rooms |-> World.rooms]
      /\ World.players = players /\ World.rooms = rooms
  BY DEF World
<1>2. DOMAIN players = {} /\ DOMAIN sent = {}
  BY DEF Init
<1>3. DOMAIN rooms = {1} /\ rooms[1] = NewRoom(0)
  BY DEF Init
<1>4. NewRoom(0) \in RoomRecords /\ NewRoom(0).players = <<>>
  BY EmptySeq DEF NewRoom, RoomRecords
<1>5. WorldInv(World)
  BY <1>1, <1>2, <1>3, <1>4, NobodyThere DEF WorldInv, IsWorld, Agrees, Inside
<1>6. NumbersInv
  BY <1>3, GameServerAssumption DEF NumbersInv, Init
<1>7. MailInv
  BY <1>2 DEF MailInv
<1>8. QED
  BY <1>5, <1>6, <1>7 DEF GInv

-----------------------------------------------------------------------------
(* What the handlers do.                                                   *)

\* What StartFollowsRoomState asks of the messages of one job, which leaves the
\* world w behind.
Announced(w, out) ==
  \A i \in DOMAIN out :
   out[i].type = "SC_GAME_START" /\ RoomStateFits(w, w.players[out[i].to].room) =>
    \E j \in 1 .. i - 1 :
      /\ IsRoomState(out[j], out[i].to)
      /\ \A n \in DOMAIN out[j].room.list : out[j].room.list[n].isReady
      /\ [n \in DOMAIN out[j].room.list |-> out[j].room.list[n].player]
           = [n \in DOMAIN out[i].spawns |-> out[i].spawns[n].player]

\* The players of a game are no more than the room holds, and start at the
\* slots of their places in its list.
SlotsInTurn(out) ==
  \A i \in DOMAIN out : out[i].type = "SC_GAME_START" =>
    \A n \in DOMAIN out[i].spawns :
      n \in 1 .. GAME_ROOM_CAPACITY /\ out[i].spawns[n].at = SpawnOf(n)

\* What any step does for the properties other than the invariant.
StepEffect ==
  /\ Announced(NewWorld, sent') /\ SlotsInTurn(sent')
  /\ \A k \in DOMAIN rooms : rooms[k].players # <<>> => rooms'[k].capacity = rooms[k].capacity

\* A job that starts no game and changes no room's capacity.
LEMMA QuietJob ==
  ASSUME NEW w, NEW out, Done(w, out),
         \A i \in DOMAIN out : out[i].type # "SC_GAME_START",
         \A k \in DOMAIN rooms : w.rooms[k].capacity = rooms[k].capacity
  PROVE  StepEffect
BY DEF Done, StepEffect, Announced, SlotsInTurn

\* A job that leaves a good world behind, and writes to connected sessions
\* only, keeps the invariant.
LEMMA DoneKeeps ==
  ASSUME GInv, NEW w, NEW out, Done(w, out), WorldInv(w),
         \A i \in DOMAIN out : out[i].to \in DOMAIN w.players,
         nextGameRoomId' \in Nat, nextGameRoomId <= nextGameRoomId'
  PROVE  GInv' /\ NewWorld = w
<1>1. players' = w.players /\ rooms' = w.rooms /\ sent' = out
  BY DEF Done
<1>2. NewWorld = w
  BY <1>1 DEF NewWorld, WorldInv, IsWorld
<1>3. WorldInv(World)'
  BY <1>2, WorldPrimed DEF WorldInv, StateTrue, IsWorld, Agrees, Inside
<1>4. NumbersInv'
  BY <1>1, GameServerAssumption DEF GInv, NumbersInv
<1>5. MailInv'
  BY <1>1 DEF MailInv, Connected
<1>6. QED
  BY <1>2, <1>3, <1>4, <1>5 DEF GInv

\* What is true of a player stays true while its record does, and the games
\* that have started.
LEMMA StateStays ==
  ASSUME NEW w, NEW v, NEW s \in DOMAIN w.players, IsWorld(w), StateTrue(w, s),
         v.players[s].state = w.players[s].state,
         v.players[s].room = w.players[s].room,
         \A k \in DOMAIN w.rooms : w.rooms[k].gameStarted => v.rooms[k].gameStarted
  PROVE  StateTrue(v, s)
<1>1. w.players[s].state = "InGame" => w.players[s].room \in DOMAIN w.rooms
  BY DEF StateTrue, IsWorld, PlayerRecords
<1>2. QED
  BY <1>1 DEF StateTrue

\* The parts of the invariant, for the world before a job.
LEMMA BeforeJob ==
  ASSUME GInv
  PROVE  /\ WorldInv(World) /\ IsWorld(World) /\ Agrees(World)
         /\ World.players = players /\ World.rooms = rooms
         /\ nextGameRoomId \in Nat
BY DEF GInv, WorldInv, World, NumbersInv

\* A refusal, or no answer at all, changes nothing.
LEMMA RefuseKeeps ==
  ASSUME GInv, NEW s \in Connected, NEW code, Refuse(s, code)
  PROVE  GInv' /\ StepEffect
<1>1. \A i \in DOMAIN SendError(s, code) :
        /\ SendError(s, code)[i].to \in DOMAIN World.players
        /\ SendError(s, code)[i].type # "SC_GAME_START"
  BY BeforeJob DEF SendError, Connected
<1>2. QED
  BY <1>1, BeforeJob, DoneKeeps, QuietJob DEF Refuse

\* The same without an answer.
LEMMA IgnoreKeeps ==
  ASSUME GInv, Ignore
  PROVE  GInv' /\ StepEffect
<1>1. DOMAIN <<>> = {}
  OBVIOUS
<1>2. QED
  BY <1>1, BeforeJob, DoneKeeps, QuietJob DEF Ignore

\* SetState.
LEMMA SettingState ==
  ASSUME NEW w, NEW s \in DOMAIN w.players, IsWorld(w), Agrees(w), NEW st \in PlayerStates
  PROVE  LET v == SetState(w, s, st) IN
           /\ IsWorld(v) /\ Agrees(v) /\ SameNames(w, v)
           /\ v.rooms = w.rooms
           /\ v.players[s] = [w.players[s] EXCEPT !.state = st]
           /\ \A q \in DOMAIN w.players \ {s} : v.players[q] = w.players[q]
<1> DEFINE p == [w.players[s] EXCEPT !.state = st]
<1>1. p \in PlayerRecords(DOMAIN w.rooms) /\ p.room = w.players[s].room
  BY DEF IsWorld, PlayerRecords
<1> DEFINE v == SetState(w, s, st)
<1>2. v = [w EXCEPT !.players[s] = p]
  BY DEF SetState
<1> HIDE DEF p, v
<1>3. /\ IsWorld(v) /\ Agrees(v) /\ SameNames(w, v)
      /\ v.rooms = w.rooms
      /\ v.players[s] = p
      /\ \A q \in DOMAIN w.players \ {s} : v.players[q] = w.players[q]
  BY <1>1, <1>2, Marking
<1>4. QED
  BY <1>3 DEF p, v

\* A room state that fits into a packet is not dropped.
LEMMA FitsIsSent ==
  ASSUME NEW w, NEW k, RoomStateFits(w, k)
  PROVE  SendRoomState(Names(w, k)) # <<>>
<1> DEFINE n == RoomStateSize(Names(w, k))
<1>1. n \in 0 .. MAX_PACKET_SIZE - HEADER_SIZE
  BY DEF RoomStateFits
<1>2. SendRoomState(Names(w, k)) = SendPacket("SC_ROOM_STATE", U16(n), <<>>)
  BY DEF SendRoomState
<1> HIDE DEF n
<1>3. n \in Int /\ 0 <= n /\ n <= 4092
  BY <1>1 DEF MAX_PACKET_SIZE, HEADER_SIZE
<1>4. U16(n) = n
  BY <1>3 DEF U16
<1>5. ValidSize(HEADER_SIZE + n)
  BY <1>3 DEF ValidSize, HEADER_SIZE, MAX_PACKET_SIZE
<1>6. QED
  BY <1>2, <1>4, <1>5 DEF SendPacket

\* The list of everyone in a room, and the letters to them, if there are any.
LEMMA RoomStateMail ==
  ASSUME NEW w, NEW k \in DOMAIN w.rooms, IsWorld(w), Agrees(w)
  PROVE  LET out == BroadcastRoomState(w, k)
             list == w.rooms[k].players
         IN  /\ list \in Seq(Sessions)
             /\ \A i \in 1 .. Len(list) :
                  list[i] \in DOMAIN w.players /\ w.players[list[i]].room = k
             /\ SendRoomState(Names(w, k)) = <<>> => out = <<>>
             /\ SendRoomState(Names(w, k)) # <<>> =>
                  /\ out = [i \in 1 .. Len(list) |-> RoomStateTo(w, k, list[i])]
                  /\ \A i \in 1 .. Len(list) :
                       /\ out[i].to = list[i]
                       /\ out[i].type = "SC_ROOM_STATE"
                       /\ out[i].room = RoomState(w, k)
             /\ \A i \in DOMAIN out :
                  out[i].to \in DOMAIN w.players /\ out[i].type = "SC_ROOM_STATE"
<1> DEFINE list == w.rooms[k].players
           out == BroadcastRoomState(w, k)
<1>1. list \in Seq(Sessions) /\ DOMAIN list = 1 .. Len(list)
  BY LenProperties DEF IsWorld, RoomRecords
<1>2. ASSUME NEW i \in 1 .. Len(list)
      PROVE  list[i] \in DOMAIN w.players /\ w.players[list[i]].room = k
  <2>1. list[i] \in Sessions /\ Inside(w, k, list[i])
    BY <1>1, ElementOfSeq DEF Inside, Contains
  <2>2. QED
    BY <2>1 DEF Agrees
<1>3. SendRoomState(Names(w, k)) = <<>> => out = <<>> /\ DOMAIN out = {}
  BY DEF BroadcastRoomState
<1>4. SendRoomState(Names(w, k)) # <<>> =>
        /\ out = [i \in 1 .. Len(list) |-> RoomStateTo(w, k, list[i])]
        /\ DOMAIN out = 1 .. Len(list)
        /\ \A i \in 1 .. Len(list) : out[i] = RoomStateTo(w, k, list[i])
  BY <1>1 DEF BroadcastRoomState
<1>5. \A i : RoomStateTo(w, k, list[i]).to = list[i]
             /\ RoomStateTo(w, k, list[i]).type = "SC_ROOM_STATE"
             /\ RoomStateTo(w, k, list[i]).room = RoomState(w, k)
  BY DEF RoomStateTo
<1> HIDE DEF out, list
<1>6. QED
  BY <1>1, <1>2, <1>3, <1>4, <1>5 DEF out, list

\* GameServer::OnSessionConnected.
LEMMA ConnectedKeeps ==
  ASSUME GInv, NEW s \in Sessions, OnSessionConnected(s)
  PROVE  GInv' /\ StepEffect
<1> DEFINE v == [World EXCEPT !.players =
                   [q \in DOMAIN @ \cup {s} |-> IF q = s THEN NewPlayer ELSE @[q]]]
<1>1. s \notin DOMAIN players /\ Done(v, <<>>) /\ nextGameRoomId' = nextGameRoomId
  BY DEF OnSessionConnected, Connected
<1>2. /\ v = [players |-> v.players, rooms |-> v.rooms]
      /\ DOMAIN v.players = DOMAIN players \cup {s}
      /\ v.players[s] = NewPlayer
      /\ \A q \in DOMAIN players : v.players[q] = players[q]
      /\ v.rooms = rooms
  BY <1>1 DEF World
<1> HIDE DEF v
<1>3. NewPlayer \in PlayerRecords(DOMAIN rooms)
  BY DEF NewPlayer, PlayerRecords, PlayerStates
<1>4. IsWorld(v)
  BY <1>2, <1>3, BeforeJob DEF IsWorld
<1>5. Agrees(v)
  <2>1. \A k \in DOMAIN rooms : k # NoRoom
    BY BeforeJob, GameServerAssumption DEF IsWorld
  <2>2. QED
    BY <1>1, <1>2, <2>1, BeforeJob DEF Agrees, Inside, NewPlayer
<1>6. \A q \in DOMAIN v.players : StateTrue(v, q)
  <2>1. StateTrue(v, s)
    BY <1>2 DEF StateTrue, NewPlayer
  <2>2. ASSUME NEW q \in DOMAIN players
        PROVE  StateTrue(v, q)
    BY <1>2, BeforeJob, StateStays DEF WorldInv
  <2>3. QED
    BY <1>2, <2>1, <2>2
<1>7. DOMAIN <<>> = {}
  OBVIOUS
<1>8. StepEffect
  BY <1>1, <1>2, <1>7, QuietJob
<1>9. QED
  BY <1>1, <1>2, <1>4, <1>5, <1>6, <1>7, <1>8, BeforeJob, DoneKeeps DEF WorldInv

\* GameServer::OnSessionDisconnected.
LEMMA DisconnectedKeeps ==
  ASSUME GInv, NEW s \in Sessions, OnSessionDisconnected(s)
  PROVE  GInv' /\ StepEffect
<1> DEFINE w == LeaveRoom(World, s)
           v == [w EXCEPT !.players = [q \in DOMAIN @ \ {s} |-> @[q]]]
           out == ToldOfLeave(v, players[s].room)
<1>1. s \in DOMAIN players /\ Done(v, out) /\ nextGameRoomId' = nextGameRoomId
  BY DEF OnSessionDisconnected, Connected
<1>2. /\ IsWorld(w) /\ Agrees(w) /\ SameNames(World, w)
      /\ w.players[s].room = NoRoom
      /\ SameButSeat(World, w, s)
  BY <1>1, BeforeJob, Leaving
<1> HIDE DEF w
<1>3. /\ v = [players |-> v.players, rooms |-> v.rooms]
      /\ DOMAIN v.players = DOMAIN players \ {s}
      /\ \A q \in DOMAIN v.players : v.players[q] = w.players[q]
      /\ v.rooms = w.rooms
  BY <1>2, BeforeJob DEF IsWorld, SameNames
<1> HIDE DEF v
<1>4. IsWorld(v)
  BY <1>2, <1>3, BeforeJob DEF IsWorld, SameNames
<1>5. Agrees(v)
  <2>1. \A k \in DOMAIN v.rooms : k # NoRoom
    BY <1>4, GameServerAssumption DEF IsWorld
  <2>2. QED
    BY <1>2, <1>3, <2>1, BeforeJob DEF Agrees, Inside, SameNames
<1>6. ASSUME NEW q \in DOMAIN v.players
      PROVE  StateTrue(v, q)
  BY <1>2, <1>3, BeforeJob, StateStays DEF WorldInv, SameNames, SameButSeat
<1>7. \A i \in DOMAIN out : out[i].to \in DOMAIN v.players /\ out[i].type # "SC_GAME_START"
  <2>1. players[s].room # NoRoom => players[s].room \in DOMAIN v.rooms
    BY <1>1, <1>2, <1>3, BeforeJob DEF IsWorld, PlayerRecords, SameNames
  <2>2. QED
    BY <1>4, <1>5, <2>1, RoomStateMail DEF ToldOfLeave
<1>8. \A k \in DOMAIN rooms : v.rooms[k].capacity = rooms[k].capacity
  BY <1>2, <1>3, BeforeJob DEF SameButSeat
<1> HIDE DEF out
<1>9. StepEffect
  BY <1>1, <1>7, <1>8, QuietJob
<1>10. QED
  BY <1>1, <1>2, <1>3, <1>4, <1>5, <1>6, <1>7, <1>9, BeforeJob, DoneKeeps DEF WorldInv, SameNames

\* FSM_Login and FSM_Hello: the player is logged in, and in no room yet.
LEMMA LoggingIn ==
  ASSUME GInv, NEW s \in DOMAIN players, players[s].state = "None",
         NEW name \in NameLengths \cup {0}, NEW v,
         v = SetState(SetName(World, s, name), s, "LoggedIn")
  PROVE  /\ WorldInv(v) /\ SameNames(World, v)
         /\ v.rooms = rooms
         /\ v.players[s].room = NoRoom
         /\ v.players[s].ready = players[s].ready
         /\ \A q \in DOMAIN players \ {s} : v.players[q] = players[q]
<1> DEFINE w == SetName(World, s, name)
           p == [players[s] EXCEPT !.name = name]
<1>1. players[s] \in PlayerRecords(DOMAIN rooms) /\ players[s].room = NoRoom
  BY BeforeJob DEF WorldInv, IsWorld, StateTrue
<1>2. p \in PlayerRecords(DOMAIN rooms) /\ p.room = players[s].room /\ p.ready = players[s].ready
  BY <1>1 DEF PlayerRecords
<1>3. w = [World EXCEPT !.players[s] = p]
  BY BeforeJob DEF SetName
<1> HIDE DEF p, w
<1>4. /\ IsWorld(w) /\ Agrees(w) /\ SameNames(World, w)
      /\ w.rooms = rooms
      /\ w.players[s] = p
      /\ \A q \in DOMAIN players \ {s} : w.players[q] = players[q]
  BY <1>2, <1>3, BeforeJob, Marking
<1>5. v = SetState(w, s, "LoggedIn") /\ "LoggedIn" \in PlayerStates
  BY DEF w, PlayerStates
<1>6. /\ IsWorld(v) /\ Agrees(v) /\ SameNames(World, v)
      /\ v.rooms = rooms
      /\ v.players[s] = [p EXCEPT !.state = "LoggedIn"]
      /\ \A q \in DOMAIN players \ {s} : v.players[q] = players[q]
  BY <1>4, <1>5, BeforeJob, SettingState DEF SameNames
<1>7. /\ v.players[s].state = "LoggedIn"
      /\ v.players[s].room = NoRoom
      /\ v.players[s].ready = players[s].ready
  BY <1>1, <1>2, <1>6 DEF PlayerRecords
<1>8. ASSUME NEW q \in DOMAIN v.players
      PROVE  StateTrue(v, q)
  <2>1. CASE q = s
    BY <1>7, <2>1 DEF StateTrue
  <2>2. CASE q # s
    BY <1>6, <2>2, BeforeJob, StateStays DEF SameNames, WorldInv
  <2>3. QED
    BY <2>1, <2>2
<1>9. QED
  BY <1>6, <1>7, <1>8 DEF WorldInv

\* FSM_Login.
LEMMA LoginKeeps ==
  ASSUME GInv, NEW s \in Sessions, NEW body \in NameLengths \cup {0}, Login(s, body)
  PROVE  GInv' /\ StepEffect
<1> DEFINE n == IF body = 0 THEN players[s].name ELSE body
           v == SetState(SetName(World, s, n), s, "LoggedIn")
<1>1. s \in DOMAIN players /\ players[s].state = "None"
  BY DEF Login, Admits, Admitted, Connected
<1>2. Done(v, <<>>) /\ nextGameRoomId' = nextGameRoomId
  BY DEF Login
<1>3. n \in NameLengths \cup {0}
  BY <1>1, BeforeJob DEF IsWorld, PlayerRecords
<1> HIDE DEF n, v
<1>4. WorldInv(v) /\ v.rooms = rooms
  BY <1>1, <1>3, LoggingIn DEF v
<1>5. DOMAIN <<>> = {}
  OBVIOUS
<1>6. QED
  BY <1>2, <1>4, <1>5, BeforeJob, DoneKeeps, QuietJob

\* FSM_Hello.
LEMMA HelloKeeps ==
  ASSUME GInv, NEW s \in Sessions, NEW name \in GivenNames, Hello(s, name)
  PROVE  GInv' /\ StepEffect
<1> DEFINE v == SetState(SetName(World, s, name), s, "LoggedIn")
           out == <<[to |-> s, type |-> "SC_WELCOME"]>>
<1>1. s \in DOMAIN players /\ players[s].state = "None"
  BY DEF Hello, Admits, Admitted, Connected
<1>2. Done(v, out) /\ nextGameRoomId' = nextGameRoomId
  BY DEF Hello
<1> HIDE DEF v
<1>3. WorldInv(v) /\ v.rooms = rooms /\ SameNames(World, v)
  BY <1>1, LoggingIn DEF v, GivenNames
<1>4. \A i \in DOMAIN out : out[i].to \in DOMAIN v.players /\ out[i].type # "SC_GAME_START"
  BY <1>1, <1>3, BeforeJob DEF SameNames
<1>5. QED
  BY <1>2, <1>3, <1>4, BeforeJob, DoneKeeps, QuietJob

\* A player is seated in a room: it leaves the one it was in, is not ready, and
\* nobody else notices.
LEMMA Seating ==
  ASSUME NEW w, NEW s \in DOMAIN w.players, NEW k \in DOMAIN w.rooms, WorldInv(w)
  PROVE  LET v == Seat(w, k, s) IN
           /\ WorldInv(v) /\ SameNames(w, v)
           /\ v.players[s].room = k
           /\ ~v.players[s].ready
           /\ \A q \in DOMAIN w.players \ {s} : v.players[q] = w.players[q]
           /\ \A j \in DOMAIN w.rooms :
                /\ v.rooms[j].capacity = w.rooms[j].capacity
                /\ v.rooms[j].gameStarted = w.rooms[j].gameStarted
           /\ w.players[s].room = NoRoom => \A j \in DOMAIN w.rooms \ {k} : v.rooms[j] = w.rooms[j]
<1> DEFINE left == LeaveRoom(w, s)
           p == [left.players[s] EXCEPT !.ready = FALSE]
           quiet == [left EXCEPT !.players[s].ready = FALSE]
           joined == Join(quiet, k, s)
           v == SetState(joined, s, "InRoom")
<1>1. Seat(w, k, s) = v
  BY DEF Seat
<1>2. /\ IsWorld(left) /\ Agrees(left) /\ SameNames(w, left)
      /\ left.players[s].room = NoRoom
      /\ SameButSeat(w, left, s)
  BY Leaving DEF WorldInv
<1>3. w.players[s].room = NoRoom => left = w
  BY DEF LeaveRoom
<1> HIDE DEF left
<1>4. quiet = [left EXCEPT !.players[s] = p]
  BY <1>2 DEF IsWorld
<1>5. /\ p \in PlayerRecords(DOMAIN left.rooms)
      /\ p.room = NoRoom /\ p.ready = FALSE
  BY <1>2 DEF PlayerRecords, IsWorld, SameNames
<1> HIDE DEF p, quiet
<1>6. /\ IsWorld(quiet) /\ Agrees(quiet) /\ SameNames(w, quiet)
      /\ quiet.rooms = left.rooms
      /\ quiet.players[s] = p
      /\ \A q \in DOMAIN w.players \ {s} : quiet.players[q] = left.players[q]
  BY <1>2, <1>4, <1>5, Marking DEF SameNames
<1>7. /\ IsWorld(joined) /\ Agrees(joined) /\ SameNames(quiet, joined)
      /\ joined.players[s].room = k
      /\ SameButSeat(quiet, joined, s)
      /\ \A j \in DOMAIN quiet.rooms \ {k} : joined.rooms[j] = quiet.rooms[j]
  BY <1>5, <1>6, Joining DEF SameNames
<1> HIDE DEF joined
<1>8. /\ IsWorld(v) /\ Agrees(v) /\ SameNames(joined, v)
      /\ v.rooms = joined.rooms
      /\ v.players[s] = [joined.players[s] EXCEPT !.state = "InRoom"]
      /\ \A q \in DOMAIN joined.players \ {s} : v.players[q] = joined.players[q]
  <2>1. s \in DOMAIN joined.players /\ "InRoom" \in PlayerStates
    BY <1>6, <1>7 DEF SameNames, PlayerStates
  <2>2. QED
    BY <1>7, <2>1, SettingState
<1>9. joined.players[s] \in PlayerRecords(DOMAIN joined.rooms)
  BY <1>6, <1>7 DEF IsWorld, SameNames
<1>10. /\ v.players[s].state = "InRoom"
       /\ v.players[s].room = k
       /\ v.players[s].ready = joined.players[s].ready
  BY <1>7, <1>8, <1>9 DEF PlayerRecords
<1> HIDE DEF v
<1>11. SameNames(w, v)
  BY <1>6, <1>7, <1>8 DEF SameNames
<1>12. ~v.players[s].ready
  BY <1>5, <1>6, <1>7, <1>10 DEF SameButSeat
<1>13. \A q \in DOMAIN w.players \ {s} : v.players[q] = w.players[q]
  BY <1>2, <1>6, <1>7, <1>8 DEF SameButSeat, SameNames
<1>14. \A j \in DOMAIN w.rooms :
         /\ v.rooms[j].capacity = w.rooms[j].capacity
         /\ v.rooms[j].gameStarted = w.rooms[j].gameStarted
  BY <1>2, <1>6, <1>7, <1>8 DEF SameButSeat, SameNames
<1>15. w.players[s].room = NoRoom => \A j \in DOMAIN w.rooms \ {k} : v.rooms[j] = w.rooms[j]
  BY <1>3, <1>6, <1>7, <1>8 DEF SameNames
<1>16. ASSUME NEW q \in DOMAIN w.players
       PROVE  StateTrue(v, q)
  <2>1. CASE q = s
    <3>1. k # NoRoom
      BY GameServerAssumption DEF WorldInv, IsWorld
    <3>2. QED
      BY <1>10, <2>1, <3>1 DEF StateTrue
  <2>2. CASE q # s
    BY <1>13, <1>14, <2>2, StateStays DEF WorldInv
  <2>3. QED
    BY <2>1, <2>2
<1>17. WorldInv(v)
  BY <1>8, <1>11, <1>16 DEF WorldInv, SameNames
<1>18. QED
  BY <1>1, <1>10, <1>11, <1>12, <1>13, <1>14, <1>15, <1>17

\* What a CS_ENTER_ROOM does: only the player and the two rooms change, and a
\* room that is made is a chat room.
EnterEffect(s, id) ==
  /\ s \in DOMAIN players
  /\ DOMAIN players' = DOMAIN players
  /\ \A q \in DOMAIN players \ {s} : players'[q] = players[q]
  /\ players'[s].room = id
  /\ DOMAIN rooms' = DOMAIN rooms \cup {id}
  /\ \A k \in DOMAIN rooms :
       /\ rooms'[k].capacity = rooms[k].capacity
       /\ rooms'[k].gameStarted = rooms[k].gameStarted
  /\ \A k \in DOMAIN rooms \ {id, players[s].room} : rooms'[k] = rooms[k]
  /\ id \notin DOMAIN rooms => rooms'[id].capacity = 0 /\ rooms'[id].gameStarted = FALSE

\* FSM_EnterRoom: the player ends up in the room it asked for, by way of none.
LEMMA EnterRoomKeeps ==
  ASSUME GInv, NEW s \in Sessions, NEW id \in RoomIds, EnterRoom(s, id)
  PROVE  GInv' /\ StepEffect /\ EnterEffect(s, id)
<1> DEFINE old == LeaveRoom(World, s)
           made == GetOrCreateRoom(old, id)
           new == Join(made, id, s)
           v == SetState(new, s, "InRoom")
<1>1. s \in DOMAIN players /\ nextGameRoomId' = nextGameRoomId
  BY DEF EnterRoom, Admits, Connected
<1>2. Done(IF new.players[s].room # NoRoom THEN v ELSE new, <<>>)
  BY DEF EnterRoom
<1>3. /\ IsWorld(old) /\ Agrees(old) /\ SameNames(World, old)
      /\ old.players[s].room = NoRoom
      /\ SameButSeat(World, old, s)
      /\ \A k \in DOMAIN rooms \ {players[s].room} : old.rooms[k] = rooms[k]
  BY <1>1, BeforeJob, Leaving
<1>4. id \in Int /\ id # NoRoom
  BY GameServerAssumption
<1> HIDE DEF old
<1>5. /\ IsWorld(made) /\ Agrees(made)
      /\ made.players = old.players
      /\ DOMAIN made.rooms = DOMAIN rooms \cup {id}
      /\ \A k \in DOMAIN rooms : made.rooms[k] = old.rooms[k]
      /\ id \notin DOMAIN rooms => made.rooms[id] = NewRoom(0)
  <2>1. CASE id \in DOMAIN old.rooms
    BY <1>3, <2>1, BeforeJob DEF GetOrCreateRoom, SameNames
  <2>2. CASE id \notin DOMAIN old.rooms
    <3>1. made = AddRoom(old, id, 0)
      BY <2>2 DEF GetOrCreateRoom
    <3>2. QED
      BY <1>3, <1>4, <2>2, <3>1, BeforeJob, Adding DEF SameNames
  <2>3. QED
    BY <2>1, <2>2
<1> HIDE DEF made
<1>6. s \in DOMAIN made.players /\ id \in DOMAIN made.rooms /\ made.players[s].room = NoRoom
  BY <1>1, <1>3, <1>5, BeforeJob DEF SameNames
<1>7. /\ IsWorld(new) /\ Agrees(new) /\ SameNames(made, new)
      /\ new.players[s].room = id
      /\ SameButSeat(made, new, s)
      /\ \A k \in DOMAIN made.rooms \ {id} : new.rooms[k] = made.rooms[k]
  BY <1>5, <1>6, Joining
<1> HIDE DEF new
<1>8. Done(v, <<>>)
  BY <1>2, <1>4, <1>7
<1>9. s \in DOMAIN new.players /\ "InRoom" \in PlayerStates
  BY <1>6, <1>7 DEF SameNames, PlayerStates
<1>10. /\ IsWorld(v) /\ Agrees(v) /\ SameNames(new, v)
       /\ v.rooms = new.rooms
       /\ v.players[s] = [new.players[s] EXCEPT !.state = "InRoom"]
       /\ \A q \in DOMAIN new.players \ {s} : v.players[q] = new.players[q]
  BY <1>7, <1>9, SettingState
<1>11. new.players[s] \in PlayerRecords(DOMAIN new.rooms)
  BY <1>7, <1>9 DEF IsWorld
<1>12. v.players[s].state = "InRoom" /\ v.players[s].room = id
  BY <1>7, <1>10, <1>11 DEF PlayerRecords
<1> HIDE DEF v
<1>13. ASSUME NEW q \in DOMAIN v.players
       PROVE  StateTrue(v, q)
  <2>1. CASE q = s
    BY <1>4, <1>12, <2>1 DEF StateTrue
  <2>2. CASE q # s
    <3>1. q \in DOMAIN players /\ v.players[q] = players[q]
      BY <1>3, <1>5, <1>7, <1>10, <2>2, BeforeJob DEF SameNames, SameButSeat
    <3>2. \A k \in DOMAIN rooms : v.rooms[k].gameStarted = rooms[k].gameStarted
      BY <1>3, <1>5, <1>7, <1>10, BeforeJob DEF SameNames, SameButSeat
    <3>3. QED
      BY <3>1, <3>2, BeforeJob, StateStays DEF WorldInv
  <2>3. QED
    BY <2>1, <2>2
<1>14. DOMAIN v.rooms = DOMAIN rooms \cup {id}
  BY <1>5, <1>7, <1>10 DEF SameNames
<1>15. DOMAIN <<>> = {}
  OBVIOUS
<1>16. \A k \in DOMAIN rooms : v.rooms[k].capacity = rooms[k].capacity
  BY <1>3, <1>5, <1>7, <1>10, BeforeJob DEF SameButSeat
<1>17. StepEffect
  BY <1>8, <1>15, <1>16, QuietJob
<1>18. GInv' /\ NewWorld = v
  BY <1>1, <1>4, <1>8, <1>10, <1>13, <1>14, <1>15, BeforeJob, DoneKeeps DEF WorldInv
<1>19. players' = v.players /\ rooms' = v.rooms
  BY <1>18 DEF NewWorld
<1>20. id \notin DOMAIN rooms => rooms'[id].capacity = 0 /\ rooms'[id].gameStarted = FALSE
  BY <1>5, <1>7, <1>10, <1>19 DEF SameButSeat, NewRoom
<1>21. /\ DOMAIN players' = DOMAIN players
       /\ \A q \in DOMAIN players \ {s} : players'[q] = players[q]
  BY <1>3, <1>5, <1>7, <1>10, <1>19, BeforeJob DEF SameNames, SameButSeat
<1>22. /\ \A k \in DOMAIN rooms : rooms'[k].gameStarted = rooms[k].gameStarted
       /\ \A k \in DOMAIN rooms \ {id, players[s].room} : rooms'[k] = rooms[k]
  BY <1>3, <1>5, <1>7, <1>10, <1>19, BeforeJob DEF SameButSeat
<1>23. QED
  BY <1>1, <1>12, <1>14, <1>16, <1>17, <1>18, <1>19, <1>20, <1>21, <1>22 DEF EnterEffect

\* AcquireGameRoom: what it returns is a good world, in which nobody has moved.
LEMMA Acquiring ==
  ASSUME GInv, NEW requested \in Int,
         requested = 0 /\ OpenRooms = {}
           => /\ nextGameRoomId < FirstGameRoomId + MaxGameRooms
              /\ nextGameRoomId \notin DOMAIN rooms,
         NEW got \in AcquireGameRoom(requested)
  PROVE  /\ WorldInv(got.world)
         /\ got.world.players = players
         /\ got.next \in Nat /\ nextGameRoomId <= got.next
         /\ got.room \in DOMAIN got.world.rooms \cup {NoRoom}
         /\ DOMAIN rooms \subseteq DOMAIN got.world.rooms
         /\ \A k \in DOMAIN rooms :
              /\ got.world.rooms[k].players = rooms[k].players
              /\ got.world.rooms[k].gameStarted = rooms[k].gameStarted
              /\ rooms[k].players # <<>> => got.world.rooms[k].capacity = rooms[k].capacity
         /\ \A k \in DOMAIN got.world.rooms \ DOMAIN rooms :
              got.world.rooms[k] = NewRoom(GAME_ROOM_CAPACITY)
         /\ \A k \in DOMAIN got.world.rooms \ {got.room} :
              k \in DOMAIN rooms /\ got.world.rooms[k] = rooms[k]
         /\ got.room # NoRoom =>
              /\ got.world.rooms[got.room].capacity # 0
              /\ \/ got.room \in DOMAIN rooms /\ rooms[got.room].capacity # 0
                 \/ got.room = requested
                 \/ requested = 0 /\ OpenRooms = {} /\ got.room = nextGameRoomId
         /\ \/ got.next = nextGameRoomId
            \/ got.next = nextGameRoomId + 1 /\ requested = 0 /\ OpenRooms = {}
         /\ requested = 0 => got.room # NoRoom /\ IsOpen(got.world.rooms[got.room])
<1>1. /\ IsWorld(World) /\ Agrees(World)
      /\ World.players = players /\ World.rooms = rooms
      /\ nextGameRoomId \in Nat
      /\ \A k \in DOMAIN rooms : rooms[k] \in RoomRecords
      /\ \A k \in DOMAIN rooms : k \in Int
  BY BeforeJob DEF IsWorld
\* A room is made, under a free number.
<1>3. ASSUME NEW id \in Int, id \notin DOMAIN rooms, NEW next \in Nat,
             nextGameRoomId <= next,
             got = Acquired(id, AddRoom(World, id, GAME_ROOM_CAPACITY), next)
      PROVE  /\ WorldInv(got.world)
             /\ got.world.players = players
             /\ got.next \in Nat /\ nextGameRoomId <= got.next
             /\ got.room \in DOMAIN got.world.rooms \cup {NoRoom}
             /\ DOMAIN rooms \subseteq DOMAIN got.world.rooms
             /\ \A k \in DOMAIN rooms : got.world.rooms[k] = rooms[k]
             /\ \A k \in DOMAIN got.world.rooms \ DOMAIN rooms :
                  got.world.rooms[k] = NewRoom(GAME_ROOM_CAPACITY)
             /\ \A k \in DOMAIN got.world.rooms \ {got.room} :
                  k \in DOMAIN rooms /\ got.world.rooms[k] = rooms[k]
             /\ got.room = id /\ got.next = next
             /\ got.world.rooms[got.room].capacity # 0
             /\ got.room # NoRoom /\ IsOpen(got.world.rooms[got.room])
  <2> DEFINE w == AddRoom(World, id, GAME_ROOM_CAPACITY)
  <2>1. got.room = id /\ got.world = w /\ got.next = next
    BY <1>3 DEF Acquired
  <2>2. /\ IsWorld(w) /\ Agrees(w)
        /\ w.players = players
        /\ DOMAIN w.rooms = DOMAIN rooms \cup {id}
        /\ w.rooms[id] = NewRoom(GAME_ROOM_CAPACITY)
        /\ \A k \in DOMAIN rooms : w.rooms[k] = rooms[k]
    BY <1>1, <1>3, Adding
  <2> HIDE DEF w
  <2>3. \A s \in DOMAIN w.players : StateTrue(w, s)
    BY <1>1, <2>2, BeforeJob, StateStays DEF WorldInv
  <2>5. IsOpen(NewRoom(GAME_ROOM_CAPACITY))
    BY GameServerAssumption, EmptySeq DEF IsOpen, IsFull, NewRoom
  <2>6. id # NoRoom
    BY <1>3, GameServerAssumption
  <2>7. NewRoom(GAME_ROOM_CAPACITY).capacity # 0
    BY GameServerAssumption DEF NewRoom
  <2>8. QED
    BY <1>3, <2>1, <2>2, <2>3, <2>5, <2>6, <2>7 DEF WorldInv
\* The world is as it was.
<1>4. ASSUME NEW k \in DOMAIN rooms \cup {NoRoom}, got = Acquired(k, World, nextGameRoomId)
      PROVE  got.room = k /\ got.world = World /\ got.next = nextGameRoomId
  BY <1>4 DEF Acquired
\* Request 0.
<1>5. CASE requested = 0 /\ OpenRooms # {}
  <2>1. PICK k \in OpenRooms : got = Acquired(k, World, nextGameRoomId)
    BY <1>5 DEF AcquireGameRoom, AutoRoom
  <2>2. k \in DOMAIN rooms /\ IsOpen(rooms[k]) /\ k # NoRoom
    BY <1>1, GameServerAssumption DEF OpenRooms
  <2>3. QED
    BY <1>1, <1>4, <2>1, <2>2, BeforeJob DEF IsOpen
<1>6. CASE requested = 0 /\ OpenRooms = {}
  <2>1. got = Acquired(nextGameRoomId, AddRoom(World, nextGameRoomId, GAME_ROOM_CAPACITY),
                       nextGameRoomId + 1)
    BY <1>6 DEF AcquireGameRoom, AutoRoom
  <2> DEFINE id == nextGameRoomId
             next == nextGameRoomId + 1
  <2>2. /\ id \in Int /\ id \notin DOMAIN rooms
        /\ next \in Nat /\ nextGameRoomId <= next
    BY <1>1, <1>6
  <2>3. got = Acquired(id, AddRoom(World, id, GAME_ROOM_CAPACITY), next)
    BY <2>1
  <2>4. id = nextGameRoomId /\ next = nextGameRoomId + 1
    OBVIOUS
  <2> HIDE DEF id, next
  <2>5. QED
    BY <1>3, <1>6, <2>2, <2>3, <2>4
\* A room by its number.
<1>7. CASE requested # 0 /\ requested \notin DOMAIN rooms
  <2>1. got = Acquired(requested, AddRoom(World, requested, GAME_ROOM_CAPACITY), nextGameRoomId)
    BY <1>7 DEF AcquireGameRoom, NamedRoom
  <2>2. QED
    BY <1>1, <1>3, <1>7, <2>1
<1>8. CASE requested # 0 /\ requested \in DOMAIN rooms /\ MayConvert(rooms[requested])
  <2> DEFINE w == [World EXCEPT !.rooms[requested].capacity = GAME_ROOM_CAPACITY]
  <2>1. got = Acquired(requested, w, nextGameRoomId)
    BY <1>8 DEF AcquireGameRoom, NamedRoom, MayConvert
  <2>2. got.room = requested /\ got.world = w /\ got.next = nextGameRoomId
    BY <2>1 DEF Acquired
  <2>3. /\ w = [players |-> w.players, rooms |-> w.rooms]
        /\ w.players = players
        /\ w.rooms = [rooms EXCEPT ![requested].capacity = GAME_ROOM_CAPACITY]
    BY <1>1 DEF World
  <2> HIDE DEF w
  <2>4. /\ SameNames(World, w)
        /\ w.rooms[requested] = [rooms[requested] EXCEPT !.capacity = GAME_ROOM_CAPACITY]
        /\ \A k \in DOMAIN rooms \ {requested} : w.rooms[k] = rooms[k]
    BY <1>1, <1>8, <2>3 DEF SameNames
  <2>5. /\ w.rooms[requested] \in RoomRecords
        /\ w.rooms[requested].capacity # 0
        /\ w.rooms[requested].players = rooms[requested].players
        /\ w.rooms[requested].gameStarted = rooms[requested].gameStarted
    BY <1>1, <1>8, <2>4, GameServerAssumption DEF RoomRecords
  <2>6. \A k \in DOMAIN rooms :
          w.rooms[k].players = rooms[k].players /\ w.rooms[k].gameStarted = rooms[k].gameStarted
    BY <2>4, <2>5
  <2>7. rooms[requested].players = <<>>
    BY <1>1, <1>8, EmptySeq DEF MayConvert, RoomRecords
  <2>8. IsWorld(w)
    BY <1>1, <2>3, <2>4, <2>5 DEF IsWorld, SameNames
  <2>9. Agrees(w)
    BY <1>1, <2>3, <2>4, <2>6, SameSeats
  <2>10. \A s \in DOMAIN w.players : StateTrue(w, s)
    BY <1>1, <2>3, <2>6, BeforeJob, StateStays DEF WorldInv
  <2>11. QED
    BY <1>1, <1>8, <2>2, <2>3, <2>4, <2>5, <2>6, <2>7, <2>8, <2>9, <2>10 DEF WorldInv, SameNames
<1>9. CASE /\ requested # 0 /\ requested \in DOMAIN rooms
           /\ ~MayConvert(rooms[requested])
  <2>1. \E k \in DOMAIN rooms \cup {NoRoom} :
          got = Acquired(k, World, nextGameRoomId) /\ (k # NoRoom => rooms[k].capacity # 0)
    BY <1>9 DEF AcquireGameRoom, NamedRoom
  <2>2. QED
    BY <1>1, <1>4, <1>9, <2>1, BeforeJob
<1>10. QED
  BY <1>5, <1>6, <1>7, <1>8, <1>9

\* What a CS_JOIN_ROOM does for properties other than the invariant.
JoinEffect(s, requested) ==
  StepEffect /\ (requested = 0 => players'[s].room # NoRoom)

\* FSM_JoinRoom and HandleJoinRoom.
LEMMA JoinRoomKeeps ==
  ASSUME GInv, NEW s \in Sessions, NEW requested \in Int,
         JoinRoom(s, requested)
  PROVE  GInv' /\ JoinEffect(s, requested)
<1>1. s \in DOMAIN players
  BY DEF JoinRoom, Admits, Connected
<1>2. PICK got \in AcquireGameRoom(requested) : JoinAcquired(s, got)
  BY DEF JoinRoom
<1> DEFINE w == got.world
           k == got.room
           v == Seat(w, k, s)
           old == \A j \in DOMAIN rooms :
                    rooms[j].players # <<>> => w.rooms[j].capacity = rooms[j].capacity
<1>3. /\ WorldInv(w)
      /\ w.players = players
      /\ got.next \in Nat /\ nextGameRoomId <= got.next
      /\ k \in DOMAIN w.rooms \cup {NoRoom}
      /\ DOMAIN rooms \subseteq DOMAIN w.rooms
      /\ old
      /\ requested = 0 => k # NoRoom /\ IsOpen(w.rooms[k])
  BY Acquiring DEF JoinRoom
<1>4. nextGameRoomId' = got.next
  BY <1>2 DEF JoinAcquired
<1>5. ASSUME NEW code, Done(w, SendError(s, code)), requested # 0
      PROVE  GInv' /\ JoinEffect(s, requested)
  <2>1. \A i \in DOMAIN SendError(s, code) :
          /\ SendError(s, code)[i].to \in DOMAIN w.players
          /\ SendError(s, code)[i].type = "SC_ERROR"
    BY <1>1, <1>3 DEF SendError
  <2>2. GInv'
    BY <1>3, <1>4, <1>5, <2>1, DoneKeeps
  <2>3. JoinEffect(s, requested)
    BY <1>3, <1>5, <2>1 DEF JoinEffect, StepEffect, Announced, SlotsInTurn, Done
  <2>4. QED
    BY <2>2, <2>3
<1>6. ASSUME k # NoRoom, Done(v, BroadcastRoomState(v, k))
      PROVE  GInv' /\ JoinEffect(s, requested)
  <2>1. s \in DOMAIN w.players /\ k \in DOMAIN w.rooms
    BY <1>1, <1>3, <1>6
  <2>2. /\ WorldInv(v) /\ SameNames(w, v)
        /\ v.players[s].room = k
        /\ \A j \in DOMAIN w.rooms : v.rooms[j].capacity = w.rooms[j].capacity
    BY <1>3, <2>1, Seating
  <2> HIDE DEF v
  <2>3. \A i \in DOMAIN BroadcastRoomState(v, k) :
          /\ BroadcastRoomState(v, k)[i].to \in DOMAIN v.players
          /\ BroadcastRoomState(v, k)[i].type = "SC_ROOM_STATE"
    BY <2>1, <2>2, RoomStateMail DEF SameNames, WorldInv
  <2>4. GInv'
    BY <1>3, <1>4, <1>6, <2>2, <2>3, DoneKeeps DEF SameNames
  <2>5. players'[s].room # NoRoom
    BY <1>6, <2>2 DEF Done
  <2>6. ASSUME NEW j \in DOMAIN rooms, rooms[j].players # <<>>
        PROVE  rooms'[j].capacity = rooms[j].capacity
    BY <1>3, <1>6, <2>2, <2>6 DEF Done
  <2>7. \A i \in DOMAIN sent' : sent'[i].type # "SC_GAME_START"
    BY <1>6, <2>3 DEF Done
  <2>8. QED
    BY <2>4, <2>5, <2>6, <2>7 DEF JoinEffect, StepEffect, Announced, SlotsInTurn
<1> HIDE DEF v, old
<1>7. CASE k = NoRoom
  BY <1>2, <1>3, <1>5, <1>7 DEF JoinAcquired
<1>8. CASE k # NoRoom /\ w.rooms[k].gameStarted
  BY <1>2, <1>3, <1>5, <1>8 DEF JoinAcquired, IsOpen
<1>9. CASE k # NoRoom /\ ~w.rooms[k].gameStarted /\ IsFull(w.rooms[k])
  BY <1>2, <1>3, <1>5, <1>9 DEF JoinAcquired, IsOpen
<1>10. CASE k # NoRoom /\ ~w.rooms[k].gameStarted /\ ~IsFull(w.rooms[k])
  BY <1>2, <1>6, <1>10 DEF JoinAcquired, v
<1>11. QED
  BY <1>7, <1>8, <1>9, <1>10

-----------------------------------------------------------------------------
(* Ready and the start of a game.                                          *)

\* TryStartGame: everyone in the room is in the game, and nothing else changes.
LEMMA Starting ==
  ASSUME NEW w, NEW k \in DOMAIN w.rooms, WorldInv(w)
  PROVE  LET v == StartGame(w, k) IN
           /\ WorldInv(v) /\ SameNames(w, v)
           /\ \A j \in DOMAIN w.rooms :
                /\ v.rooms[j].players = w.rooms[j].players
                /\ v.rooms[j].capacity = w.rooms[j].capacity
                /\ v.rooms[j].gameStarted <=> (j = k \/ w.rooms[j].gameStarted)
           /\ \A q \in DOMAIN w.players :
                /\ v.players[q].room = w.players[q].room
                /\ v.players[q].ready = w.players[q].ready
                /\ v.players[q].name = w.players[q].name
<1> DEFINE v == StartGame(w, k)
<1>1. /\ v = [players |-> v.players, rooms |-> v.rooms]
      /\ DOMAIN v.players = DOMAIN w.players
      /\ v.rooms = [w.rooms EXCEPT ![k].gameStarted = TRUE]
      /\ \A q \in DOMAIN w.players :
           v.players[q] = IF Inside(w, k, q) THEN [w.players[q] EXCEPT !.state = "InGame"]
                                             ELSE w.players[q]
  BY DEF StartGame, Inside
<1> HIDE DEF v
<1>2. IsWorld(w) /\ Agrees(w) /\ \A q \in DOMAIN w.players : StateTrue(w, q)
  BY DEF WorldInv
<1>3. /\ SameNames(w, v)
      /\ v.rooms[k] = [w.rooms[k] EXCEPT !.gameStarted = TRUE]
      /\ \A j \in DOMAIN w.rooms \ {k} : v.rooms[j] = w.rooms[j]
  BY <1>1 DEF SameNames
<1>4. /\ v.rooms[k] \in RoomRecords
      /\ v.rooms[k].players = w.rooms[k].players
      /\ v.rooms[k].capacity = w.rooms[k].capacity
      /\ v.rooms[k].gameStarted = TRUE
  BY <1>2, <1>3 DEF IsWorld, RoomRecords
<1>5. \A j \in DOMAIN w.rooms :
        /\ v.rooms[j].players = w.rooms[j].players
        /\ v.rooms[j].capacity = w.rooms[j].capacity
        /\ v.rooms[j].gameStarted <=> (j = k \/ w.rooms[j].gameStarted)
  BY <1>3, <1>4
<1>6. ASSUME NEW q \in DOMAIN w.players
      PROVE  /\ v.players[q] \in PlayerRecords(DOMAIN w.rooms)
             /\ v.players[q].room = w.players[q].room
             /\ v.players[q].ready = w.players[q].ready
             /\ v.players[q].name = w.players[q].name
             /\ v.players[q].state = IF Inside(w, k, q) THEN "InGame" ELSE w.players[q].state
  <2>1. w.players[q] \in PlayerRecords(DOMAIN w.rooms)
    BY <1>2 DEF IsWorld
  <2>2. CASE Inside(w, k, q)
    BY <1>1, <2>1, <2>2 DEF PlayerRecords, PlayerStates
  <2>3. CASE ~Inside(w, k, q)
    BY <1>1, <2>1, <2>3
  <2>4. QED
    BY <2>2, <2>3
<1>7. IsWorld(v)
  BY <1>1, <1>2, <1>3, <1>4, <1>6 DEF IsWorld, SameNames
<1>8. Agrees(v)
  BY <1>2, <1>3, <1>5, <1>6, SameSeats
<1>9. ASSUME NEW q \in DOMAIN w.players
      PROVE  StateTrue(v, q)
  <2>1. CASE Inside(w, k, q)
    <3>1. w.players[q].room = k /\ k # NoRoom
      BY <1>2, <2>1, GameServerAssumption DEF Agrees, IsWorld
    <3>2. QED
      BY <1>4, <1>6, <2>1, <3>1 DEF StateTrue
  <2>2. CASE ~Inside(w, k, q)
    BY <1>2, <1>5, <1>6, <2>2, StateStays
  <2>3. QED
    BY <2>1, <2>2
<1>10. WorldInv(v)
  BY <1>3, <1>7, <1>8, <1>9 DEF WorldInv, SameNames
<1>11. QED
  BY <1>3, <1>5, <1>6, <1>10 DEF v

\* SC_GAME_START goes to everyone in the room, with everyone in it.
LEMMA GameStartMail ==
  ASSUME NEW w, NEW k \in DOMAIN w.rooms, IsWorld(w), Agrees(w)
  PROVE  LET out == BroadcastGameStart(w, k)
             list == w.rooms[k].players
         IN  /\ DOMAIN out = 1 .. Len(list)
             /\ \A i \in 1 .. Len(list) :
                  /\ out[i].to = list[i]
                  /\ out[i].type = "SC_GAME_START"
                  /\ out[i].spawns = [n \in DOMAIN list |-> [player |-> list[n], at |-> SpawnOf(n)]]
<1> DEFINE list == w.rooms[k].players
<1>1. list \in Seq(Sessions) /\ DOMAIN list = 1 .. Len(list)
  BY LenProperties DEF IsWorld, RoomRecords
<1>2. QED
  BY <1>1 DEF BroadcastGameStart

\* Two lists of letters, one after the other.
LEMMA TwoRounds ==
  ASSUME NEW n \in Nat, NEW a, NEW b,
         a = [i \in 1 .. n |-> a[i]], b = [i \in 1 .. n |-> b[i]]
  PROVE  /\ DOMAIN (a \o b) = 1 .. n + n
         /\ \A i \in 1 .. n : (a \o b)[i] = a[i] /\ (a \o b)[n + i] = b[i]
         /\ \A i \in 1 .. n + n : i \in 1 .. n \/ (i - n \in 1 .. n /\ i = n + (i - n))
<1> DEFINE S == {a[i] : i \in 1 .. n} \cup {b[i] : i \in 1 .. n}
<1>1. a \in [1 .. n -> S] /\ b \in [1 .. n -> S]
  OBVIOUS
<1> HIDE DEF S
<1>2. a \in Seq(S) /\ b \in Seq(S) /\ Len(a) = n /\ Len(b) = n
  <2>1. a \in Seq(S) /\ b \in Seq(S)
    BY <1>1, SeqDef
  <2>2. DOMAIN a = 1 .. n /\ DOMAIN b = 1 .. n
    BY <1>1
  <2>3. QED
    BY <2>1, <2>2, LenProperties
<1>3. /\ a \o b \in Seq(S) /\ Len(a \o b) = n + n
      /\ \A i \in 1 .. n + n : (a \o b)[i] = IF i <= n THEN a[i] ELSE b[i - n]
  BY <1>2, ConcatProperties
<1>4. DOMAIN (a \o b) = 1 .. n + n
  BY <1>3, LenProperties
<1>5. ASSUME NEW i \in 1 .. n
      PROVE  (a \o b)[i] = a[i] /\ (a \o b)[n + i] = b[i]
  <2>1. i \in 1 .. n + n /\ i <= n
    OBVIOUS
  <2>2. n + i \in 1 .. n + n /\ ~(n + i <= n) /\ (n + i) - n = i
    OBVIOUS
  <2>3. QED
    BY <1>3, <2>1, <2>2
<1>6. \A i \in 1 .. n + n : i \in 1 .. n \/ (i - n \in 1 .. n /\ i = n + (i - n))
  OBVIOUS
<1>7. QED
  BY <1>4, <1>5, <1>6

\* The names of a room are still those, and fit, after the start.
LEMMA StartKeepsNames ==
  ASSUME NEW w, NEW k \in DOMAIN w.rooms, WorldInv(w),
         RoomStateFits(StartGame(w, k), k)
  PROVE  RoomStateFits(w, k)
<1> DEFINE v == StartGame(w, k)
           list == w.rooms[k].players
<1>1. /\ v.rooms[k].players = list
      /\ \A q \in DOMAIN w.players : v.players[q].name = w.players[q].name
  BY Starting
<1>2. DOMAIN list = 1 .. Len(list) /\ \A i \in 1 .. Len(list) : list[i] \in DOMAIN w.players
  BY RoomStateMail, LenProperties DEF WorldInv
<1> HIDE DEF v, list
<1>3. \A i \in DOMAIN list : v.players[list[i]].name = w.players[list[i]].name
  BY <1>1, <1>2
<1>4. Names(v, k) = Names(w, k)
  BY <1>1, <1>3 DEF Names, list
<1>5. QED
  BY <1>4 DEF RoomStateFits, v

\* The start, when the news that all are ready was dropped.
LEMMA StartAlone ==
  ASSUME NEW w, NEW k \in DOMAIN w.rooms, WorldInv(w), MayStart(w, k),
         SendRoomState(Names(w, k)) = <<>>
  PROVE  LET out == BroadcastRoomState(w, k) \o BroadcastGameStart(w, k) IN
           /\ Announced(StartGame(w, k), out) /\ SlotsInTurn(out)
           /\ \A i \in DOMAIN out : out[i].to \in DOMAIN w.players
<1> DEFINE list == w.rooms[k].players
           n == Len(list)
           b == BroadcastGameStart(w, k)
           v == StartGame(w, k)
<1>1. /\ list \in Seq(Sessions) /\ DOMAIN list = 1 .. n /\ n \in Nat
      /\ \A i \in 1 .. n : list[i] \in DOMAIN w.players /\ w.players[list[i]].room = k
      /\ BroadcastRoomState(w, k) = <<>>
  BY RoomStateMail, LenProperties DEF WorldInv
<1>2. /\ DOMAIN b = 1 .. n
      /\ \A i \in 1 .. n :
           /\ b[i].to = list[i]
           /\ b[i].spawns = [m \in DOMAIN list |-> [player |-> list[m], at |-> SpawnOf(m)]]
  BY GameStartMail DEF WorldInv
<1>3. b = [i \in 1 .. n |-> b[i]]
  BY <1>1 DEF BroadcastGameStart
<1>4. n = GAME_ROOM_CAPACITY
  <2>1. w.rooms[k].capacity \in {0, GAME_ROOM_CAPACITY}
    BY DEF WorldInv, IsWorld, RoomRecords
  <2>2. QED
    BY <2>1 DEF MayStart
<1>5. \A q \in DOMAIN w.players : v.players[q].room = w.players[q].room
  BY Starting
<1>6. ~RoomStateFits(v, k)
  BY StartKeepsNames, FitsIsSent
<1> HIDE DEF list, n, b, v
<1>7. <<>> \o b = b
  <2> DEFINE S == {b[i] : i \in 1 .. n}
  <2>1. b \in [1 .. n -> S]
    BY <1>3
  <2> HIDE DEF S
  <2>2. b \in Seq(S)
    BY <1>1, <2>1, SeqDef
  <2>3. QED
    BY <2>2, ConcatEmptySeq
<1>8. \A i \in DOMAIN b : b[i].to \in DOMAIN w.players /\ v.players[b[i].to].room = k
  <2>1. ASSUME NEW i \in DOMAIN b
        PROVE  b[i].to \in DOMAIN w.players /\ v.players[b[i].to].room = k
    <3>1. i \in 1 .. n /\ b[i].to = list[i]
      BY <1>2, <2>1
    <3>2. list[i] \in DOMAIN w.players /\ w.players[list[i]].room = k
      BY <1>1, <3>1
    <3>3. QED
      BY <1>5, <3>1, <3>2
  <2>2. QED
    BY <2>1
<1>9. Announced(v, b)
  BY <1>6, <1>8 DEF Announced
<1>10. SlotsInTurn(b)
  <2>1. ASSUME NEW i \in DOMAIN b, NEW m \in DOMAIN b[i].spawns
        PROVE  m \in 1 .. GAME_ROOM_CAPACITY /\ b[i].spawns[m].at = SpawnOf(m)
    <3>1. b[i].spawns = [j \in DOMAIN list |-> [player |-> list[j], at |-> SpawnOf(j)]]
      BY <1>2, <2>1
    <3>2. m \in 1 .. n
      BY <1>1, <2>1, <3>1
    <3>3. QED
      BY <1>1, <1>4, <3>1, <3>2
  <2>2. QED
    BY <2>1 DEF SlotsInTurn
<1>11. QED
  BY <1>1, <1>7, <1>8, <1>9, <1>10 DEF b, v

\* The news that all are ready, if it fits into a packet, and the start.
LEMMA StartMail ==
  ASSUME NEW w, NEW k \in DOMAIN w.rooms, WorldInv(w), MayStart(w, k)
  PROVE  LET out == BroadcastRoomState(w, k) \o BroadcastGameStart(w, k) IN
           /\ Announced(StartGame(w, k), out) /\ SlotsInTurn(out)
           /\ \A i \in DOMAIN out : out[i].to \in DOMAIN w.players
<1> DEFINE list == w.rooms[k].players
           n == Len(list)
           a == BroadcastRoomState(w, k)
           b == BroadcastGameStart(w, k)
           out == a \o b
<1> SUFFICES ASSUME SendRoomState(Names(w, k)) # <<>>
             PROVE  /\ Announced(StartGame(w, k), out) /\ SlotsInTurn(out)
                    /\ \A i \in DOMAIN out : out[i].to \in DOMAIN w.players
  BY StartAlone
<1>1. /\ list \in Seq(Sessions) /\ DOMAIN list = 1 .. n /\ n \in Nat
      /\ a = [i \in 1 .. n |-> RoomStateTo(w, k, list[i])]
      /\ \A i \in 1 .. n :
           /\ list[i] \in DOMAIN w.players
           /\ a[i].to = list[i]
           /\ a[i].type = "SC_ROOM_STATE"
           /\ a[i].room = RoomState(w, k)
  BY RoomStateMail, LenProperties DEF WorldInv
<1>2. /\ DOMAIN b = 1 .. n
      /\ \A i \in 1 .. n :
           /\ b[i].to = list[i]
           /\ b[i].type = "SC_GAME_START"
           /\ b[i].spawns = [m \in DOMAIN list |-> [player |-> list[m], at |-> SpawnOf(m)]]
  BY GameStartMail DEF WorldInv
<1>3. /\ a = [i \in 1 .. n |-> a[i]] /\ DOMAIN a = 1 .. n
      /\ b = [i \in 1 .. n |-> b[i]]
  BY <1>1, <1>2 DEF BroadcastGameStart
<1>4. RoomState(w, k).list = [i \in DOMAIN list |->
                                [player |-> list[i], isReady |-> w.players[list[i]].ready]]
  BY DEF RoomState
<1>5. \A i \in DOMAIN list : w.players[list[i]].ready
  BY DEF MayStart
<1>6. n = GAME_ROOM_CAPACITY
  <2>1. w.rooms[k].capacity \in {0, GAME_ROOM_CAPACITY}
    BY DEF WorldInv, IsWorld, RoomRecords
  <2>2. QED
    BY <2>1 DEF MayStart
<1> HIDE DEF list, n, a, b
<1>7. /\ DOMAIN out = 1 .. n + n
      /\ \A i \in 1 .. n : out[i] = a[i] /\ out[n + i] = b[i]
      /\ \A i \in 1 .. n + n : i \in 1 .. n \/ (i - n \in 1 .. n /\ i = n + (i - n))
  BY <1>1, <1>3, TwoRounds
<1> HIDE DEF out
<1>8. ASSUME NEW i \in DOMAIN out
      PROVE  out[i].to \in DOMAIN w.players
  <2>1. CASE i \in 1 .. n
    BY <1>1, <1>7, <2>1
  <2>2. CASE i - n \in 1 .. n /\ i = n + (i - n)
    <3> DEFINE j == i - n
    <3>1. j \in 1 .. n /\ out[i] = b[j]
      BY <1>7, <2>2
    <3> HIDE DEF j
    <3>2. QED
      BY <1>1, <1>2, <3>1
  <2>3. QED
    BY <1>7, <2>1, <2>2
<1>9. ASSUME NEW i \in DOMAIN out, out[i].type = "SC_GAME_START"
      PROVE  \E j \in 1 .. i - 1 :
               /\ IsRoomState(out[j], out[i].to)
               /\ \A m \in DOMAIN out[j].room.list : out[j].room.list[m].isReady
               /\ [m \in DOMAIN out[j].room.list |-> out[j].room.list[m].player]
                    = [m \in DOMAIN out[i].spawns |-> out[i].spawns[m].player]
  <2>1. i \notin 1 .. n
    BY <1>1, <1>7, <1>9
  <2> DEFINE j == i - n
  <2>2. j \in 1 .. n /\ i = n + j
    BY <1>7, <2>1
  <2>3. j \in 1 .. i - 1
    BY <1>1, <2>2
  <2> HIDE DEF j
  <2>4. /\ out[j] = a[j] /\ out[i] = b[j]
        /\ out[j].room = RoomState(w, k)
        /\ out[i].spawns = [m \in DOMAIN list |-> [player |-> list[m], at |-> SpawnOf(m)]]
    BY <1>1, <1>2, <1>7, <2>2
  <2>5. IsRoomState(out[j], out[i].to)
    BY <1>1, <1>2, <2>2, <2>4 DEF IsRoomState
  <2>6. DOMAIN out[j].room.list = DOMAIN list /\ DOMAIN out[i].spawns = DOMAIN list
    BY <1>4, <2>4
  <2>7. \A m \in DOMAIN list :
          /\ out[j].room.list[m].isReady
          /\ out[j].room.list[m].player = list[m]
          /\ out[i].spawns[m].player = list[m]
    BY <1>4, <1>5, <2>4
  <2>8. QED
    BY <2>3, <2>5, <2>6, <2>7
<1>10. Announced(StartGame(w, k), out)
  BY <1>9 DEF Announced
<1>11. SlotsInTurn(out)
  <2> SUFFICES ASSUME NEW i \in DOMAIN out, out[i].type = "SC_GAME_START",
                      NEW m \in DOMAIN out[i].spawns
               PROVE  m \in 1 .. GAME_ROOM_CAPACITY /\ out[i].spawns[m].at = SpawnOf(m)
    BY DEF SlotsInTurn
  <2>1. i \notin 1 .. n
    BY <1>1, <1>7
  <2>2. PICK j \in 1 .. n : i = n + j
    BY <1>7, <2>1
  <2>3. out[i].spawns = [q \in DOMAIN list |-> [player |-> list[q], at |-> SpawnOf(q)]]
    BY <1>2, <1>7, <2>2
  <2>4. QED
    BY <1>1, <1>6, <2>3
<1>12. QED
  BY <1>8, <1>10, <1>11 DEF out, a, b

\* FSM_Ready, HandleReady and TryStartGame.
LEMMA ReadyKeeps ==
  ASSUME GInv, NEW s \in Sessions, NEW flag \in BOOLEAN, Ready(s, flag)
  PROVE  GInv' /\ StepEffect
<1> DEFINE w == [World EXCEPT !.players[s].ready = flag]
           p == [players[s] EXCEPT !.ready = flag]
           k == players[s].room
<1>1. /\ s \in DOMAIN players /\ k # NoRoom
      /\ AnswerReady(w, k)
      /\ nextGameRoomId' = nextGameRoomId
  BY DEF Ready, Admits, Connected
<1>2. players[s] \in PlayerRecords(DOMAIN rooms)
  BY <1>1, BeforeJob DEF IsWorld
<1>3. p \in PlayerRecords(DOMAIN rooms) /\ p.room = k /\ p.state = players[s].state
  BY <1>2 DEF PlayerRecords
<1>4. k \in DOMAIN rooms
  BY <1>1, <1>2 DEF PlayerRecords
<1>5. w = [World EXCEPT !.players[s] = p]
  BY BeforeJob
<1> HIDE DEF p, w
<1>6. /\ IsWorld(w) /\ Agrees(w) /\ SameNames(World, w)
      /\ w.rooms = rooms
      /\ w.players[s] = p
      /\ \A q \in DOMAIN players \ {s} : w.players[q] = players[q]
  BY <1>1, <1>3, <1>5, BeforeJob, Marking
<1> HIDE DEF k
<1>7. ASSUME NEW q \in DOMAIN w.players
      PROVE  StateTrue(w, q)
  <2>1. q \in DOMAIN players /\ StateTrue(World, q)
    BY <1>6, BeforeJob DEF SameNames, WorldInv
  <2>2. w.players[q].state = players[q].state /\ w.players[q].room = players[q].room
    BY <1>3, <1>6, <2>1 DEF k
  <2>3. QED
    BY <1>6, <2>1, <2>2, BeforeJob, StateStays
<1>8. WorldInv(w)
  BY <1>6, <1>7 DEF WorldInv
<1>9. CASE MayStart(w, k)
  <2> DEFINE v == StartGame(w, k)
             out == BroadcastRoomState(w, k) \o BroadcastGameStart(w, k)
  <2>1. Done(v, out)
    BY <1>1, <1>9 DEF AnswerReady
  <2>2. /\ WorldInv(v) /\ SameNames(w, v)
        /\ \A j \in DOMAIN rooms : v.rooms[j].capacity = rooms[j].capacity
    BY <1>4, <1>6, <1>8, Starting
  <2>3. /\ Announced(v, out) /\ SlotsInTurn(out)
        /\ \A i \in DOMAIN out : out[i].to \in DOMAIN w.players
    BY <1>4, <1>6, <1>8, <1>9, StartMail
  <2> HIDE DEF v, out
  <2>4. GInv' /\ NewWorld = v
    BY <1>1, <1>6, <2>1, <2>2, <2>3, BeforeJob, DoneKeeps DEF SameNames
  <2>5. QED
    BY <2>1, <2>2, <2>3, <2>4 DEF Done, StepEffect
<1>10. CASE ~MayStart(w, k)
  <2> DEFINE out == BroadcastRoomState(w, k)
  <2>1. Done(w, out)
    BY <1>1, <1>10 DEF AnswerReady
  <2>2. \A i \in DOMAIN out : out[i].to \in DOMAIN w.players /\ out[i].type = "SC_ROOM_STATE"
    BY <1>4, <1>6, RoomStateMail
  <2> HIDE DEF out
  <2>3. GInv'
    BY <1>1, <1>6, <1>8, <2>1, <2>2, BeforeJob, DoneKeeps
  <2>4. QED
    BY <1>6, <2>1, <2>2, <2>3 DEF Done, StepEffect, Announced, SlotsInTurn
<1>11. QED
  BY <1>9, <1>10

-----------------------------------------------------------------------------
(* The rest of the packets, and any step.                                  *)

\* FSM_Chat: it goes to players who are connected.
LEMMA ChatKeeps ==
  ASSUME GInv, NEW s \in Sessions, Chat(s)
  PROVE  GInv' /\ StepEffect
<1> DEFINE k == players[s].room
           list == rooms[k].players
           others == RemoveFirst(list, s)
           out == IF BroadcastChat(players[s].name, 1) = <<>>
                    THEN <<>>
                    ELSE [i \in DOMAIN others |->
                            [to |-> others[i], type |-> "SC_CHAT", sender |-> s]]
<1>1. /\ s \in DOMAIN players /\ k # NoRoom
      /\ Done(World, out)
      /\ nextGameRoomId' = nextGameRoomId
  BY DEF Chat, Admits, Connected
<1>2. /\ k \in DOMAIN rooms
      /\ list \in Seq(Sessions) /\ Distinct(list)
      /\ \A q \in Sessions : Contains(list, q) <=> q \in DOMAIN players /\ players[q].room = k
  BY <1>1, BeforeJob DEF IsWorld, PlayerRecords, RoomRecords, Agrees, Inside
<1>3. /\ others \in Seq(Sessions)
      /\ \A x : Contains(others, x) <=> Contains(list, x) /\ x # s
  BY <1>1, <1>2, RemoveOne
<1> HIDE DEF others, k, list
<1>4. ASSUME NEW i \in DOMAIN others
      PROVE  others[i] \in DOMAIN players
  <2>1. others[i] \in Sessions /\ Contains(others, others[i])
    BY <1>3, LenProperties, ElementOfSeq DEF Contains
  <2>2. QED
    BY <1>2, <1>3, <2>1
<1>5. \A i \in DOMAIN out : out[i].to \in DOMAIN players /\ out[i].type # "SC_GAME_START"
  BY <1>4
<1> HIDE DEF out
<1>6. QED
  BY <1>1, <1>5, BeforeJob, DoneKeeps, QuietJob

\* The packets that a handler, or the FSM, refuses or drops.
LEMMA RefusalsKeep ==
  ASSUME GInv, NEW s \in Sessions,
         \/ \E packet \in Packets : Blocked(s, packet)
         \/ \E code \in {"BAD_FORMAT", "VERSION_MISMATCH"} : RefuseHello(s, code)
         \/ \E wellFormed \in BOOLEAN : EnterRoomIgnored(s, wellFormed)
         \/ \E hasText \in BOOLEAN : ChatIgnored(s, hasText)
         \/ JoinRefused(s)
         \/ ReadyRefused(s)
  PROVE  GInv' /\ StepEffect
<1>1. s \in Connected /\ (Ignore \/ \E code : Refuse(s, code))
  BY DEF Blocked, RefuseHello, EnterRoomIgnored, ChatIgnored, JoinRefused, ReadyRefused, Admits
<1>2. QED
  BY <1>1, IgnoreKeeps, RefuseKeeps

\* Every job keeps the invariant.
LEMMA NextKeeps ==
  ASSUME GInv, Next
  PROVE  GInv' /\ StepEffect
<1> PICK s \in Sessions :
      OnSessionConnected(s) \/ OnSessionDisconnected(s) \/ RoomPacket(s) \/ OtherPacket(s)
  BY DEF Next
<1>1. CASE OnSessionConnected(s)
  BY <1>1, ConnectedKeeps
<1>2. CASE OnSessionDisconnected(s)
  BY <1>2, DisconnectedKeeps
<1>3. CASE RoomPacket(s)
  <2> PICK id \in RoomIds : EnterRoom(s, id) \/ JoinRoom(s, id)
    BY <1>3 DEF RoomPacket
  <2>1. CASE EnterRoom(s, id)
    BY <2>1, EnterRoomKeeps
  <2>2. CASE JoinRoom(s, id)
    BY <2>2, JoinRoomKeeps, GameServerAssumption DEF JoinEffect
  <2>3. QED
    BY <2>1, <2>2
<1>4. CASE \E body \in NameLengths \cup {0} : Login(s, body)
  BY <1>4, LoginKeeps
<1>5. CASE \E name \in GivenNames : Hello(s, name)
  BY <1>5, HelloKeeps
<1>6. CASE Chat(s)
  BY <1>6, ChatKeeps
<1>7. CASE \E flag \in BOOLEAN : Ready(s, flag)
  BY <1>7, ReadyKeeps
<1>8. QED
  BY <1>1, <1>2, <1>3, <1>4, <1>5, <1>6, <1>7, RefusalsKeep DEF OtherPacket

\* Nothing of it is lost when nothing happens.
LEMMA StutterKeeps ==
  ASSUME GInv, UNCHANGED vars
  PROVE  GInv'
<1>1. /\ players' = players /\ rooms' = rooms
      /\ nextGameRoomId' = nextGameRoomId /\ sent' = sent
  BY DEF vars
<1>2. World' = World
  BY <1>1 DEF World
<1>3. WorldInv(World)'
  BY <1>2 DEF GInv, WorldInv, IsWorld, Agrees, Inside, StateTrue
<1>4. NumbersInv' /\ MailInv'
  BY <1>1 DEF GInv, NumbersInv, MailInv, Connected
<1>5. QED
  BY <1>3, <1>4 DEF GInv

-----------------------------------------------------------------------------
(* The arena.                                                              *)

\* The tiles one step further.
OneStep(near) == near \cup UNION {Beside(t) : t \in near}

\* g[k] are the tiles at most k steps away, for k up to n.
Walks(g, n) ==
  g = [k \in 0 .. n |-> IF k = 0 THEN {spawnTile[1]} ELSE OneStep(g[k - 1])]

\* There is such a function, for any number of steps.
LEMMA WalksExist ==
  ASSUME NEW n \in Nat
  PROVE  \E g : Walks(g, n)
<1> DEFINE I == {k \in Nat : \E g : Walks(g, k)}
<1>1. 0 \in I
  <2> DEFINE g == [k \in 0 .. 0 |-> {spawnTile[1]}]
  <2>1. Walks(g, 0)
    BY DEF Walks
  <2>2. QED
    BY <2>1
<1>2. ASSUME NEW k \in Nat, k \in I
      PROVE  k + 1 \in I
  <2>1. PICK f : Walks(f, k)
    BY <1>2
  <2> DEFINE g == [i \in 0 .. k + 1 |-> IF i = k + 1 THEN OneStep(f[k]) ELSE f[i]]
  <2>2. \A i \in 0 .. k : f[i] = IF i = 0 THEN {spawnTile[1]} ELSE OneStep(f[i - 1])
    BY <2>1 DEF Walks
  <2>3. ASSUME NEW i \in 0 .. k + 1
        PROVE  g[i] = IF i = 0 THEN {spawnTile[1]} ELSE OneStep(g[i - 1])
    <3>1. CASE i = k + 1
      <4>1. i # 0 /\ i - 1 \in 0 .. k + 1 /\ i - 1 # k + 1 /\ i - 1 = k
        BY <3>1
      <4>2. g[i] = OneStep(f[k]) /\ g[i - 1] = f[k]
        BY <3>1, <4>1
      <4>3. QED
        BY <4>1, <4>2
    <3>2. CASE i # k + 1
      <4>1. i \in 0 .. k /\ g[i] = f[i]
        BY <3>2
      <4>2. i # 0 => i - 1 \in 0 .. k + 1 /\ i - 1 # k + 1
        BY <4>1
      <4>3. i # 0 => g[i - 1] = f[i - 1]
        BY <4>2
      <4> HIDE DEF g
      <4>4. QED
        BY <2>2, <4>1, <4>3
    <3>3. QED
      BY <3>1, <3>2
  <2>4. g = [i \in 0 .. k + 1 |-> g[i]]
    OBVIOUS
  <2> HIDE DEF g
  <2>5. Walks(g, k + 1)
    BY <2>3, <2>4 DEF Walks
  <2>6. QED
    BY <2>5
<1> HIDE DEF I
<1>3. n \in I
  BY <1>1, <1>2, OneByOne
<1>4. QED
  BY <1>3 DEF I

\* Within is that function.
LEMMA WithinWalks ==
  /\ Within[0] = {spawnTile[1]}
  /\ \A k \in 0 .. 27 : Within[k + 1] = OneStep(Within[k])
<1>1. MAP_WIDTH + MAP_HEIGHT = 28
  BY DEF MAP_WIDTH, MAP_HEIGHT
<1>2. \E g : Walks(g, MAP_WIDTH + MAP_HEIGHT)
  BY <1>1, WalksExist
<1>3. Walks(Within, MAP_WIDTH + MAP_HEIGHT)
  <2>1. Within = CHOOSE g : Walks(g, MAP_WIDTH + MAP_HEIGHT)
    BY DEF Within, Walks, OneStep
  <2>2. QED
    BY <1>2, <2>1
<1>4. Walks(Within, 28)
  BY <1>1, <1>3
<1> DEFINE f == Within
<1> HIDE DEF f
<1>5. \A k \in 0 .. 28 : f[k] = IF k = 0 THEN {spawnTile[1]} ELSE OneStep(f[k - 1])
  BY <1>4 DEF Walks, f
<1>6. f[0] = {spawnTile[1]}
  BY <1>5
<1>7. ASSUME NEW k \in 0 .. 27
      PROVE  f[k + 1] = OneStep(f[k])
  <2>1. PICK i \in 0 .. 28 : i = k + 1
    OBVIOUS
  <2>2. i # 0 /\ i - 1 = k
    BY <2>1
  <2>3. f[i] = OneStep(f[k])
    BY <1>5, <2>2
  <2>4. QED
    BY <2>1, <2>3
<1>8. QED
  BY <1>6, <1>7 DEF f

\* A tile stays in reach, and those beside it come into reach.
LEMMA Further ==
  ASSUME NEW k \in 0 .. 27, NEW t \in Within[k]
  PROVE  t \in Within[k + 1] /\ \A u \in Beside(t) : u \in Within[k + 1]
BY WithinWalks DEF OneStep

\* The first row and the last column are free.
LEMMA FreeTiles ==
  /\ \A x \in 1 .. 13 : <<x, 1>> \in Empty
  /\ \A y \in 1 .. 11 : <<13, y>> \in Empty
  /\ <<1, 2>> \in Empty
<1>1. ASSUME NEW x \in 1 .. 13
      PROVE  <<x, 1>> \in Empty
  BY DEF Empty, Tiles, IsWallTile, MAP_WIDTH, MAP_HEIGHT
<1>2. ASSUME NEW y \in 1 .. 11
      PROVE  <<13, y>> \in Empty
  BY DEF Empty, Tiles, IsWallTile, MAP_WIDTH, MAP_HEIGHT
<1>3. <<1, 2>> \in Empty
  BY DEF Empty, Tiles, IsWallTile, MAP_WIDTH, MAP_HEIGHT
<1>4. QED
  BY <1>1, <1>2, <1>3

\* One can walk from the first spawn to the second, along the first row and
\* down the last column.
LEMMA SpawnsConnected ==
  <<1, 1>> \in Walkable /\ <<13, 11>> \in Walkable
<1>1. Walkable = Within[28] /\ spawnTile[1] = <<1, 1>>
  BY DEF Walkable, MAP_WIDTH, MAP_HEIGHT, spawnTile
<1>2. Within[0] = {<<1, 1>>}
  BY <1>1, WithinWalks
<1> DEFINE R == {n \in Nat : n <= 12 => <<1 + n, 1>> \in Within[n]}
           C == {n \in Nat : n <= 10 => <<13, 1 + n>> \in Within[12 + n]}
           E == {n \in Nat : n <= 28 => <<1, 1>> \in Within[n]}
           D == {n \in Nat : n <= 6 => <<13, 11>> \in Within[22 + n]}
<1>3. 12 \in R
  <2>1. 0 \in R
    BY <1>2
  <2>2. ASSUME NEW n \in Nat, n \in R
        PROVE  n + 1 \in R
    <3>1. CASE n + 1 <= 12
      <4>1. n \in 0 .. 27 /\ <<1 + n, 1>> \in Within[n]
        BY <2>2, <3>1
      <4>2. <<1 + (n + 1), 1>> \in Beside(<<1 + n, 1>>)
        <5>1. PICK x \in 1 .. 13 : x = 1 + n + 1
          BY <3>1
        <5>2. <<x, 1>> \in Empty /\ x = 1 + n + 1
          BY <5>1, FreeTiles
        <5>3. QED
          BY <5>2 DEF Beside
      <4>3. QED
        BY <4>1, <4>2, Further
    <3>2. CASE ~(n + 1 <= 12)
      BY <3>2
    <3>3. QED
      BY <3>1, <3>2
  <2> HIDE DEF R
  <2>3. QED
    BY <2>1, <2>2, OneByOne
<1>4. 10 \in C
  <2>1. 0 \in C
    BY <1>3
  <2>2. ASSUME NEW n \in Nat, n \in C
        PROVE  n + 1 \in C
    <3>1. CASE n + 1 <= 10
      <4>1. PICK k \in 0 .. 27 : k = 12 + n
        BY <3>1
      <4>2. <<13, 1 + n>> \in Within[k] /\ 12 + (n + 1) = k + 1
        BY <2>2, <3>1, <4>1
      <4>3. <<13, 1 + (n + 1)>> \in Beside(<<13, 1 + n>>)
        <5>1. PICK y \in 1 .. 11 : y = 1 + n + 1
          BY <3>1
        <5>2. <<13, y>> \in Empty /\ y = 1 + n + 1
          BY <5>1, FreeTiles
        <5>3. QED
          BY <5>2 DEF Beside
      <4>4. QED
        BY <4>2, <4>3, Further
    <3>2. CASE ~(n + 1 <= 10)
      BY <3>2
    <3>3. QED
      BY <3>1, <3>2
  <2> HIDE DEF C
  <2>3. QED
    BY <2>1, <2>2, OneByOne
<1>5. 28 \in E
  <2>1. 0 \in E
    BY <1>2
  <2>2. ASSUME NEW n \in Nat, n \in E
        PROVE  n + 1 \in E
    BY <2>2, Further
  <2> HIDE DEF E
  <2>3. QED
    BY <2>1, <2>2, OneByOne
<1>6. 6 \in D
  <2>1. 0 \in D
    BY <1>4
  <2>2. ASSUME NEW n \in Nat, n \in D
        PROVE  n + 1 \in D
    <3>1. CASE n + 1 <= 6
      <4>1. PICK k \in 0 .. 27 : k = 22 + n
        BY <3>1
      <4>2. <<13, 11>> \in Within[k] /\ 22 + (n + 1) = k + 1
        BY <2>2, <3>1, <4>1
      <4>3. QED
        BY <4>2, Further
    <3>2. CASE ~(n + 1 <= 6)
      BY <3>2
    <3>3. QED
      BY <3>1, <3>2
  <2> HIDE DEF D
  <2>3. QED
    BY <2>1, <2>2, OneByOne
<1>7. QED
  BY <1>1, <1>5, <1>6

\* What a spawn must offer.
FairStart(t) == t \in Walkable /\ \E u, v \in Beside(t) : u # v

\* The two slots.
LEMMA SpawnsAreFair ==
  /\ TileOf(SpawnOf(1)) = <<1, 1>> /\ FairStart(<<1, 1>>)
  /\ TileOf(SpawnOf(2)) = <<13, 11>> /\ FairStart(<<13, 11>>)
<1>1. spawnTile[1] = <<1, 1>> /\ spawnTile[2] = <<13, 11>>
  BY DEF spawnTile
<1>2. /\ TileCenter(1) \div TILE_UNIT = 1
      /\ TileCenter(13) \div TILE_UNIT = 13
      /\ TileCenter(11) \div TILE_UNIT = 11
  BY DEF TileCenter, TILE_UNIT
<1>3. SpawnOf(1) = [x |-> TileCenter(1), y |-> TileCenter(1)]
  <2>1. ((1 - 1) % 2) + 1 = 1
    OBVIOUS
  <2>2. QED
    BY <1>1, <2>1 DEF SpawnOf
<1>4. SpawnOf(2) = [x |-> TileCenter(13), y |-> TileCenter(11)]
  <2>1. ((2 - 1) % 2) + 1 = 2
    OBVIOUS
  <2>2. QED
    BY <1>1, <2>1 DEF SpawnOf
<1>5. TileOf(SpawnOf(1)) = <<1, 1>> /\ TileOf(SpawnOf(2)) = <<13, 11>>
  BY <1>2, <1>3, <1>4 DEF TileOf
<1>6. FairStart(<<1, 1>>)
  <2>1. <<2, 1>> \in Empty /\ <<1, 2>> \in Empty
    BY FreeTiles
  <2>2. <<2, 1>> \in Beside(<<1, 1>>) /\ <<1, 2>> \in Beside(<<1, 1>>) /\ <<2, 1>> # <<1, 2>>
    BY <2>1 DEF Beside
  <2>3. QED
    BY <2>2, SpawnsConnected DEF FairStart
<1>7. FairStart(<<13, 11>>)
  <2>1. <<13, 10>> \in Empty /\ <<12, 11>> \in Empty
    BY FreeTiles DEF Empty, Tiles, IsWallTile, MAP_WIDTH, MAP_HEIGHT
  <2>2. <<13, 10>> \in Beside(<<13, 11>>) /\ <<12, 11>> \in Beside(<<13, 11>>)
        /\ <<13, 10>> # <<12, 11>>
    BY <2>1 DEF Beside
  <2>3. QED
    BY <2>2, SpawnsConnected DEF FairStart
<1>8. QED
  BY <1>5, <1>6, <1>7

-----------------------------------------------------------------------------
(* The theorems.                                                           *)

\* The world stays well-formed, and rooms, players and their states agree.
THEOREM GInvInvariant == Spec => []GInv
<1>1. Init => GInv
  BY InitInv
<1>2. GInv /\ [Next]_vars => GInv'
  BY NextKeeps, StutterKeeps
<1>3. QED
  BY <1>1, <1>2, PTL DEF Spec

\* Every variable keeps its type, and messages go to sessions with a Player.
THEOREM GameTypeCorrect == Spec => []TypeOK
<1>1. GInv => TypeOK
  BY GInvEnough
<1>2. QED
  BY <1>1, GInvInvariant, PTL

\* A room's list and its players' room pointers always agree, without
\* duplicates and without players that are gone.
THEOREM RoomsAndPlayersAgree == Spec => []MembershipAgrees
<1>1. GInv => MembershipAgrees
  BY GInvEnough
<1>2. QED
  BY <1>1, GInvInvariant, PTL

\* The FSM's state of a player says where the player is.
THEOREM StatesAreTrue == Spec => []StateAgrees
<1>1. GInv => StateAgrees
  BY GInvEnough
<1>2. QED
  BY <1>1, GInvInvariant, PTL

\* A game starts with exactly the players of the room state sent before it, all
\* of them ready, if their names leave that state room in a packet.
THEOREM StartIsAnnounced == Spec => []StartFollowsRoomState
<1>2. Init => StartFollowsRoomState
  <2>1. Init => DOMAIN sent = {}
    BY DEF Init
  <2>2. QED
    BY <2>1 DEF StartFollowsRoomState
<1>3. ASSUME Announced(NewWorld, sent')
      PROVE  StartFollowsRoomState'
  <2>1. (World.players)' = NewWorld.players /\ NewWorld.players = players'
    BY DEF World, NewWorld
  <2>2. ASSUME NEW k, RoomStateFits(World, k)'
        PROVE  RoomStateFits(NewWorld, k)
    BY <2>2, WorldPrimed DEF RoomStateFits, Names
  <2>3. QED
    BY <1>3, <2>1, <2>2 DEF Announced, StartFollowsRoomState, IsRoomState, Tellable
<1>4. GInv /\ StartFollowsRoomState /\ [Next]_vars => StartFollowsRoomState'
  <2>1. ASSUME GInv, Next
        PROVE  Announced(NewWorld, sent')
    BY <2>1, NextKeeps DEF StepEffect
  <2>2. ASSUME StartFollowsRoomState, UNCHANGED vars
        PROVE  Announced(NewWorld, sent')
    <3>1. Announced(World, sent)
      BY <2>2 DEF StartFollowsRoomState, Announced, Tellable, World
    <3>2. sent' = sent /\ NewWorld = World
      BY <2>2 DEF vars, World, NewWorld
    <3>3. QED
      BY <3>1, <3>2
  <2>3. QED
    BY <1>3, <2>1, <2>2
<1>5. QED
  BY <1>2, <1>4, GInvInvariant, PTL DEF Spec

\* Slots in turn are tiles apart, and fair, while no room holds more players
\* than there are slots.
LEMMA SlotsAreFair ==
  ASSUME GAME_ROOM_CAPACITY <= 2, SlotsInTurn(sent)
  PROVE  SpawnsApart
<1>1. ASSUME NEW i \in DOMAIN sent, sent[i].type = "SC_GAME_START",
             NEW n \in DOMAIN sent[i].spawns
      PROVE  /\ n \in {1, 2}
             /\ TileOf(sent[i].spawns[n].at) = IF n = 1 THEN <<1, 1>> ELSE <<13, 11>>
  <2>1. n \in 1 .. GAME_ROOM_CAPACITY /\ sent[i].spawns[n].at = SpawnOf(n)
    BY <1>1 DEF SlotsInTurn
  <2>2. n \in {1, 2}
    BY <2>1, GameServerAssumption
  <2>3. QED
    BY <2>1, <2>2, SpawnsAreFair
<1>2. ASSUME NEW i \in DOMAIN sent, sent[i].type = "SC_GAME_START",
             NEW n \in DOMAIN sent[i].spawns
      PROVE  FairStart(TileOf(sent[i].spawns[n].at))
  BY <1>1, <1>2, SpawnsAreFair
<1>3. ASSUME NEW i \in DOMAIN sent, sent[i].type = "SC_GAME_START",
             NEW n \in DOMAIN sent[i].spawns, NEW m \in DOMAIN sent[i].spawns,
             TileOf(sent[i].spawns[m].at) = TileOf(sent[i].spawns[n].at)
      PROVE  m = n
  <2>1. <<1, 1>> # <<13, 11>>
    OBVIOUS
  <2>2. QED
    BY <1>1, <1>3, <2>1
<1>4. QED
  BY <1>2, <1>3 DEF SpawnsApart, FairStart

\* The players of a game start on tiles of their own that are free, have two
\* ways out and are connected, provided that a game room holds no more players
\* than BroadcastGameStart has spawn tiles.  In the code GAME_ROOM_CAPACITY is 2
\* and so are the tiles; a third player would start on the first one's.
THEOREM SpawnsAreApart ==
  ASSUME GAME_ROOM_CAPACITY <= 2
  PROVE  Spec => []SpawnsApart
<1>1. SlotsInTurn(sent) => SpawnsApart
  BY SlotsAreFair
<1>2. Init => SlotsInTurn(sent)
  <2>1. Init => DOMAIN sent = {}
    BY DEF Init
  <2>2. QED
    BY <2>1 DEF SlotsInTurn
<1>3. GInv /\ SlotsInTurn(sent) /\ [Next]_vars => SlotsInTurn(sent)'
  <2>1. ASSUME GInv, Next
        PROVE  SlotsInTurn(sent)'
    <3>1. SlotsInTurn(sent')
      BY <2>1, NextKeeps DEF StepEffect
    <3>2. QED
      BY <3>1 DEF SlotsInTurn
  <2>2. ASSUME SlotsInTurn(sent), UNCHANGED vars
        PROVE  SlotsInTurn(sent)'
    BY <2>2 DEF SlotsInTurn, vars
  <2>3. QED
    BY <2>1, <2>2
<1>4. QED
  BY <1>1, <1>2, <1>3, GInvInvariant, PTL DEF Spec

\* Request 0 of CS_JOIN_ROOM always finds a seat, as long as the number of a room
\* it makes is free.
THEOREM AutoJoinNeverRefused == Spec => AutoJoinSucceeds
<1>1. ASSUME GInv, NEW s \in Sessions, JoinRoom(s, 0)
      PROVE  players'[s].room # NoRoom
  <2>1. 0 \in Int
    OBVIOUS
  <2>2. QED
    BY <1>1, <2>1, JoinRoomKeeps DEF JoinEffect
<1>2. GInv => [\A s \in Sessions : JoinRoom(s, 0) => players'[s].room # NoRoom]_vars
  BY <1>1
<1>3. QED
  BY <1>2, GInvInvariant, PTL DEF AutoJoinSucceeds

\* A room that people chat in stays a chat room.
THEOREM ChatIsLeftAlone == Spec => ChatRoomStays
<1>1. GInv /\ [Next]_vars =>
        [\A k \in DOMAIN rooms :
           rooms[k].capacity = 0 /\ rooms[k].players # <<>> => rooms'[k].capacity = 0]_vars
  BY NextKeeps DEF StepEffect
<1>2. QED
  BY <1>1, GInvInvariant, PTL DEF Spec, ChatRoomStays

=============================================================================
