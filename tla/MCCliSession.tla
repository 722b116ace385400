---------------------------- MODULE MCCliSession ----------------------------
(* Instances of CliSession small enough for TLC.                           *)
EXTENDS CliSession, TLC

CONSTANTS alice, bob, carol

Identities == {alice, bob, carol}

\* Safety only: the identities are interchangeable.
Symmetry == Permutations(Identities)
============================================================================
