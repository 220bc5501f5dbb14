----------------------------- MODULE MCApplication -----------------------------
(* An instance of module Application for TLC, over that of module Release. *)
EXTENDS Application, MCRelease

TwoAndOne == {[authorize |-> TRUE, observe |-> FALSE, limit |-> n] : n \in 0..2}
SixAndFour == Serials(6, 4)
=============================================================================
