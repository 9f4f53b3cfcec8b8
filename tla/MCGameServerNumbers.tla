------------------------ MODULE MCGameServerNumbers ------------------------
(***************************************************************************)
(* Instance of GameServerNumbers for TLC.                                  *)
(***************************************************************************)
EXTENDS GameServerNumbers

Symmetry == Permutations(Sessions)

=============================================================================
