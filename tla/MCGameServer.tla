---------------------------- MODULE MCGameServer ----------------------------
(***************************************************************************)
(* Instances of GameServer for TLC.                                        *)
(***************************************************************************)
EXTENDS GameServer

\* Clients are interchangeable.
Symmetry == Permutations(Sessions)

=============================================================================
