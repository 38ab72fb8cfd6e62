------------------------------- MODULE MCRelay -------------------------------
(* Joins of one identity at a node that does not own the room, for TLC. *)
EXTENDS Relay
=============================================================================
