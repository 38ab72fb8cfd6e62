--------------------------- MODULE MCSignalSession ---------------------------
(* The sessions of one identity, for TLC. *)
EXTENDS SignalSession
=============================================================================
