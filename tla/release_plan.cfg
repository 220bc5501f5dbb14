\* A plan of two operations, listed against their dependency: a Git ref that a
\* compare-and-swap protects, then an upload that waits for it.
CONSTANTS
  p1 = p1  p2 = p2  a = a  b = b  q1 = q1  q2 = q2  d1 = d1  d2 = d2  x = x  y = y
  Process <- TwoProcesses
  Op = {a, b}
  Ops <- Alphabetical
  DependsOn <- AWaitsForB
  Request = {q1, q2}
  Protected = {q2}
  ReceiptAware = {a}
  RequestsOf <- TwoRequests
  Id <- IdsOfProcesses
  DecisionId = {d1}
  Time = {0}
  Output = {x}
  Scope = "PublicationScope"
  Proves = {}
  Observed = {b}
  Occupied = {}
  MayExist = {b}
  RunOptions <- Watching
  Duties <- RunAndSupersede
  Ambiguous = FALSE
  MaxSerial <- SixAndOne
  MaxRetry = 2
  NoDraft = NoDraft
SPECIFICATION Spec
INVARIANTS
  EffectInv
  DependenciesPublished
  SatisfiedIsPublished
  SupersessionFinal
