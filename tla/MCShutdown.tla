----------------------------- MODULE MCShutdown -----------------------------
(***************************************************************************)
(* Instance of Shutdown for TLC.                                           *)
(***************************************************************************)
EXTENDS Shutdown

=============================================================================
