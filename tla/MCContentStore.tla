----------------------------- MODULE MCContentStore -----------------------------
(* An instance of module ContentStore for TLC. *)
EXTENDS ContentStore, TLC

CONSTANTS p1, p2, c, d

ProcessSymmetry == Permutations({p1, p2})
=============================================================================
