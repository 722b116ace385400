---------------------------- MODULE MCManagedTor ----------------------------
(* An instance of ManagedTor small enough for TLC.                         *)
EXTENDS ManagedTor, TLC

CONSTANTS ada, kivan

Apps == {ada, kivan}
============================================================================
