\* Two processes race to publish one unprotected operation over a store that
\* answers ambiguously.
CONSTANTS
  p1 = p1  p2 = p2  a = a  b = b  q1 = q1  q2 = q2  d1 = d1  d2 = d2  x = x  y = y
  Process <- TwoProcesses
  Op = {a}
  Ops <- JustA
  DependsOn <- BWaitsForNothing
  Request = {q1, q2}
  Protected = {}
  ReceiptAware = {a}
  RequestsOf <- OneRequestEach
  Id <- IdsOfProcesses
  DecisionId = {d1}
  Time = {0}
  Output = {x}
  Scope = "PublicationScope"
  Proves = {a}
  Observed = {}
  Occupied = {}
  MayExist = {}
  RunOptions <- Blind
  Duties <- Run
  Ambiguous = TRUE
  MaxSerial <- Four
  MaxRetry = 2
  NoDraft = NoDraft
SPECIFICATION Spec
SYMMETRY ProcessSymmetry
INVARIANTS
  TypeOK
  OneSendPerStart
  EffectsLicensed
