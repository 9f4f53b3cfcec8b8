------------------------------ MODULE MCClient ------------------------------
(***************************************************************************)
(* Instance of Client for TLC: lengths around the limits of a packet.  A   *)
(* name of 4083 bytes leaves one byte for a text, one of 4084 none; 4092   *)
(* bytes are the most that a client sends, 4093 are refused.  A room state *)
(* that lists 17 such names is longer than a uint16_t can say.             *)
(***************************************************************************)
EXTENDS Client

=============================================================================
