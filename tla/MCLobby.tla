------------------------------ MODULE MCLobby ------------------------------
(* Instances of Lobby small enough for TLC.                                *)
EXTENDS Lobby, TLC

CONSTANTS ada, kivan

Apps == {ada, kivan}

\* Safety only: the apps are interchangeable.
Symmetry == Permutations(Apps)
============================================================================
