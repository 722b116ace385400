----------------------------- MODULE MCSession -----------------------------
(* Instances of Session small enough for TLC.                              *)
EXTENDS SessionInv, TLC

CONSTANTS alice, bob, carol

Identities == {alice, bob, carol}

\* Safety only: the identities are interchangeable.
Symmetry == Permutations(Identities)
============================================================================
