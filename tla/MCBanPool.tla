------------------------------ MODULE MCBanPool ------------------------------
(* Small instances of BanPool for TLC. *)
EXTENDS BanPool

CONSTANTS a, b, c1, c2   \* addresses and chains
=============================================================================
