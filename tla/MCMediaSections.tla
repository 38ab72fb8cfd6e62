-------------------------- MODULE MCMediaSections --------------------------
(* The receive sections of a single-PC subscriber, for TLC. *)
EXTENDS MediaSections
=============================================================================
