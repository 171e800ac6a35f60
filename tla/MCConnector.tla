----------------------------- MODULE MCConnector -----------------------------
(* Small instances of Connector for TLC. *)
EXTENDS Connector, TLC

CONSTANTS x, y, bad    \* settings: two that are valid and one that is not
=============================================================================
