----------------------------- MODULE MCFraming -----------------------------
(***************************************************************************)
(* Instance of Framing for TLC.                                            *)
(***************************************************************************)
EXTENDS Framing

=============================================================================
