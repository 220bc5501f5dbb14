------------------------------ MODULE MCGitJournal ------------------------------
(* An instance of module GitJournal for TLC: three events, two of which carry *)
(* the same identity, and one too large to share the journal with another.    *)
EXTENDS GitJournal, TLC

CONSTANTS c1, c2, e, clash, f, i, k

Identities == [x \in Fact |-> IF x = f THEN k ELSE i]
Sizes == [x \in Fact |-> IF x = clash THEN 3 ELSE 1]
ClientSymmetry == Permutations(Client)
=============================================================================
