---------------------------- MODULE MCLogSource ----------------------------
(* Small instances of LogSource for TLC. *)
EXTENDS LogSource
=============================================================================
