------------------------- MODULE GameServerNumbers -------------------------
(***************************************************************************)
(* GameServer, with the step it leaves out.  Clients name any room number, *)
(* so a room may exist under the number the server is about to give out:   *)
(* emplace does not insert, the new Room is destroyed, and AcquireGameRoom *)
(* returns a pointer to it.                                                *)
(***************************************************************************)
EXTENDS GameServer

CONSTANT FreedRoom   \* a Room that the server no longer owns

\* The join goes on with the freed Room: taking the most benign outcome, its
\* memory still reads as an empty, unstarted room.
JoinFreedRoom(s) ==
  /\ Admits(s, "CS_JOIN_ROOM")
  /\ OpenRooms = {}
  /\ nextGameRoomId \in DOMAIN rooms
  /\ nextGameRoomId < FirstGameRoomId + MaxGameRooms
  /\ nextGameRoomId' = nextGameRoomId + 1
  /\ LET left == LeaveRoom(World, s)
         w    == [left EXCEPT !.players[s].ready = FALSE, !.players[s].room = FreedRoom]
     IN  Done(SetState(w, s, "InRoom"), <<>>)

\* What a player in a freed Room can still do is undefined and not modelled.
Defined == \A s \in Connected : players[s].room # FreedRoom

NumbersNext ==
  /\ Defined
  /\ Next \/ \E s \in Sessions : JoinFreedRoom(s)

NumbersSpec == Init /\ [][NumbersNext]_vars

\* GameServer.h: game rooms are numbered from 100 so that their numbers do not
\* collide with those of other rooms.  A room made under a new number is the
\* one its player is in.
NumbersAreNew ==
  [][\A s \in Connected :
       nextGameRoomId' # nextGameRoomId /\ s \in DOMAIN players'
         => players'[s].room \in DOMAIN rooms' \cup {NoRoom}]_vars

=============================================================================
