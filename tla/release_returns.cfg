\* Two processes contend; every call must return.
CONSTANTS
  p1 = p1  p2 = p2  a = a  b = b  q1 = q1  q2 = q2  d1 = d1  d2 = d2  x = x  y = y
  Process <- TwoProcesses
  Op = {a, b}
  Ops <- Alphabetical
  DependsOn <- AWaitsForB
  Request = {q1, q2}
  Protected = {}
  ReceiptAware = {a, b}
  RequestsOf <- OneRequestEach
  Id <- IdsOfProcesses
  DecisionId = {d1}
  Time = {0}
  Output = {x}
  Scope = "PublicationScope"
  Proves = {b}
  Observed = {}
  Occupied = {}
  MayExist = {}
  RunOptions <- Blind
  Duties <- RunAndSupersede
  Ambiguous = TRUE
  MaxSerial <- FourAndOne
  MaxRetry = 2
  NoDraft = NoDraft
SPECIFICATION FairSpec
PROPERTY
  CallsReturn
