----------------------------- MODULE MCSession -----------------------------
(***************************************************************************)
(* Instances of Session for TLC.                                           *)
(***************************************************************************)
EXTENDS Session, TLC

\* The workers, and the sessions, are interchangeable (safety runs only).
Symmetry == Permutations(Workers) \cup Permutations(Sessions)

=============================================================================
