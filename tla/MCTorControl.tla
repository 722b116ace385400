---------------------------- MODULE MCTorControl ----------------------------
(* An instance of TorControl small enough for TLC.                         *)
EXTENDS TorControl, TLC

CONSTANTS ours, foreign

Cookies == {ours, foreign}
============================================================================
