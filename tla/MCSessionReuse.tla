--------------------------- MODULE MCSessionReuse ---------------------------
(***************************************************************************)
(* Instance of SessionReuse for TLC: one address, given out twice.         *)
(***************************************************************************)
EXTENDS SessionReuse, TLC

Symmetry == Permutations(Workers)

=============================================================================
