------------------------------- MODULE Arena -------------------------------
(***************************************************************************)
(* The map and the spawns that SC_GAME_START carries (GameServer.cpp).     *)
(***************************************************************************)
EXTENDS Integers

TILE_UNIT  == 1000
MAP_WIDTH  == 15
MAP_HEIGHT == 13

Tiles == (0 .. MAP_WIDTH - 1) \X (0 .. MAP_HEIGHT - 1)

IsWallTile(x, y) ==
  \/ x \in {0, MAP_WIDTH - 1}
  \/ y \in {0, MAP_HEIGHT - 1}
  \/ x % 2 = 0 /\ y % 2 = 0

TileCenter(t) == t * TILE_UNIT + TILE_UNIT \div 2

spawnTile == << <<1, 1>>, <<13, 11>> >>

\* The start of the i-th player of the room, counted from 1: slots are used in
\* turn.
SpawnOf(i) ==
  LET tile == spawnTile[((i - 1) % 2) + 1]
  IN  [x |-> TileCenter(tile[1]), y |-> TileCenter(tile[2])]

-----------------------------------------------------------------------------
(* What the rules of the game need of it.                                  *)

Empty == {t \in Tiles : ~IsWallTile(t[1], t[2])}

Beside(t) ==
  Empty \cap {<<t[1] + 1, t[2]>>, <<t[1] - 1, t[2]>>, <<t[1], t[2] + 1>>, <<t[1], t[2] - 1>>}

\* The tiles at most n steps away from the first spawn.
Within[n \in 0 .. MAP_WIDTH + MAP_HEIGHT] ==
  IF n = 0 THEN {spawnTile[1]}
  ELSE LET near == Within[n - 1] IN near \cup UNION {Beside(t) : t \in near}

Walkable == Within[MAP_WIDTH + MAP_HEIGHT]

\* The tile of a position.
TileOf(p) == <<p.x \div TILE_UNIT, p.y \div TILE_UNIT>>

=============================================================================
