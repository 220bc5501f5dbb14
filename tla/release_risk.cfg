\* Two processes dispatch, and accept the risk of dispatching again; the provider
\* may prepare either of two requests, and decisions expire.
CONSTANTS
  p1 = p1  p2 = p2  a = a  b = b  q1 = q1  q2 = q2  d1 = d1  d2 = d2  x = x  y = y
  Process <- TwoProcesses
  Op = {a}
  Ops <- JustA
  DependsOn <- BWaitsForNothing
  Request = {q1, q2}
  Protected = {}
  ReceiptAware = {a}
  RequestsOf <- TwoRequests
  Id <- IdsOfProcesses
  DecisionId = {d1}
  Time = {0, 1}
  Output = {x}
  Scope = "PublicationScope"
  Proves = {a}
  Observed = {}
  Occupied = {}
  MayExist = {}
  RunOptions <- Blind
  Duties <- RunnerAndRisker
  Ambiguous = FALSE
  MaxSerial <- Three
  MaxRetry = 2
  NoDraft = NoDraft
SPECIFICATION Spec
INVARIANTS
  UncertaintyHolds
  RiskSpentOnce
  AcceptanceRemembered
  OutcomeFinal
