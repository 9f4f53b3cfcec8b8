------------------------------- MODULE Match -------------------------------
(***************************************************************************)
(* What the waiting rooms of the game promise their players: a room seats  *)
(* at most Capacity of them, its game starts in the very step in which a   *)
(* full room becomes ready, and nobody enters once it has started.         *)
(***************************************************************************)
EXTENDS Naturals, FiniteSets

CONSTANTS Players, Rooms, NoRoom, Capacity

VARIABLES
  seat,      \* the room each player waits or plays in
  ready,     \* the seated players that are ready
  playing    \* the rooms whose game has started

matchVars == <<seat, ready, playing>>

Seated(k) == {p \in Players : seat[p] = k}

MatchInit ==
  /\ seat = [p \in Players |-> NoRoom]
  /\ ready = {}
  /\ playing = {}

Sit(p, k) ==
  /\ seat[p] = NoRoom
  /\ k \notin playing
  /\ Cardinality(Seated(k)) < Capacity
  /\ seat' = [seat EXCEPT ![p] = k]
  /\ UNCHANGED <<ready, playing>>

\* p is ready, or not ready any more.  Only this can start the game of p's room.
Vote(p) ==
  /\ seat[p] # NoRoom
  /\ seat[p] \notin playing
  /\ ready' \in {ready \cup {p}, ready \ {p}}
  /\ playing' = IF Cardinality(Seated(seat[p])) = Capacity /\ Seated(seat[p]) \subseteq ready'
                  THEN playing \cup {seat[p]}
                  ELSE playing
  /\ seat' = seat

Leave(p) ==
  /\ seat' = [seat EXCEPT ![p] = NoRoom]
  /\ ready' = ready \ {p}
  /\ playing' = playing

MatchNext ==
  \E p \in Players : Vote(p) \/ Leave(p) \/ \E k \in Rooms : Sit(p, k)

MatchSpec == MatchInit /\ [][MatchNext]_matchVars

=============================================================================
