----------------------------- MODULE MCSqliteJournal -----------------------------
(* An instance of module SqliteJournal for TLC. *)
EXTENDS SqliteJournal, TLC

CONSTANTS c1, c2, c3, e, clash, f, i, k

\* Two events under one identity, and one of its own.
Identities == (e :> i) @@ (clash :> i) @@ (f :> k)

ClientSymmetry == Permutations(Client)
=============================================================================
