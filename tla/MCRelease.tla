------------------------------- MODULE MCRelease -------------------------------
(* Instances of module Release for TLC. *)
EXTENDS ReleaseProperties, TLC

CONSTANTS p1, p2, a, b, q1, q2, d1, d2, x, y

TwoProcesses == {p1, p2}
OneProcess == {p1}
Alphabetical == <<a, b>>
JustA == <<a>>

Serials(first, second) == [p \in Process |-> IF p = p1 THEN first ELSE second]
Four == Serials(4, 4)
Three == Serials(3, 3)
FourAndOne == Serials(4, 1)
SixAndOne == Serials(6, 1)

Run == [p \in Process |-> {"Run"}]
RunOrRisk == [p \in Process |-> {"Run", "Risk"}]
RunnerAndRisker ==
  [p \in Process |-> IF p = p1 THEN {"Run"} ELSE {"Run", "Risk"}]
RunOrObserve == [p \in Process |-> {"Run", "Observe"}]
RunAndSupersede ==
  [p \in Process |-> IF p = p1 THEN {"Run"} ELSE {"Observe", "Supersede"}]

IdsOfProcesses == UNION {{<<p, n>> : n \in 1..MaxSerial[p]} : p \in Process}
BWaitsForNothing == [o \in Op |-> {}]
AWaitsForB == [o \in Op |-> IF o = a THEN {b} ELSE {}]

OneRequestEach == [o \in Op |-> IF o = a THEN {q1} ELSE {q2}]
TwoRequests == [o \in Op |-> {q1, q2}]

Blind == {[authorize |-> TRUE, observe |-> FALSE, limit |-> 2]}
Watching == {[authorize |-> TRUE, observe |-> TRUE, limit |-> 2]}
WatchingOrBlind == Blind \cup Watching
Cautious ==
  {[authorize |-> TRUE, observe |-> TRUE, limit |-> 1],
   [authorize |-> FALSE, observe |-> TRUE, limit |-> 2]}

ProcessSymmetry == Permutations(Process)
=============================================================================
