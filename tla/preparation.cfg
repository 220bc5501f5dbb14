\* Two processes prepare one artifact; what they observe or are told may differ
\* from call to call.
CONSTANTS
  p1 = p1  p2 = p2  a = a  b = b  q1 = q1  q2 = q2  d1 = d1  d2 = d2  x = x  y = y
  Process <- TwoProcesses
  Op = {a}
  Ops <- JustA
  DependsOn <- BWaitsForNothing
  Request = {q1, q2}
  Protected = {}
  ReceiptAware = {a}
  RequestsOf <- OneRequestEach
  Id <- IdsOfProcesses
  DecisionId = {d1}
  Time = {0}
  Output = {x, y}
  Scope = "PreparationScope"
  Proves = {}
  Observed = {a}
  Occupied = {}
  MayExist = {}
  RunOptions <- Watching
  Duties <- RunOrObserve
  Ambiguous = FALSE
  MaxSerial <- Three
  MaxRetry = 2
  NoDraft = NoDraft
SPECIFICATION Spec
SYMMETRY ProcessSymmetry
INVARIANTS
  HistoryAdmissible
  OneSelection
PROPERTY
  SelectionSticky
