----------------------------- MODULE MCDetectors -----------------------------
(* Small instances of Detectors for TLC: addresses and ports of two bytes, closed *)
(* under the reversal of their bytes.                                             *)
EXTENDS Detectors

CONSTANT ssh

MCIPs   == {<<10, 1>>, <<1, 10>>}
MCOwn   == {<<10, 1>>}                  \* the whitelisted address
MCPorts == {<<0, 22>>, <<22, 0>>, <<0, 80>>, <<80, 0>>}
MCPort22 == {<<0, 22>>}
MCPort80 == {<<0, 80>>}
MCTwoPorts == {<<0, 22>>, <<22, 0>>}
=============================================================================
