------------------------------ MODULE MCProviders ------------------------------
(* An instance of module Providers, and of its invariants, for TLC. *)
EXTENDS ProviderInvariants

\* Both names spell one coordinate; an intent may say the other.
Spelled == [name \in {"wheel", "sdist"} |-> "c1"]
=============================================================================
