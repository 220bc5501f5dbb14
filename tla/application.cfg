\* A runner with a budget of up to two dispatches, and another process that runs
\* the same plan, whose provider proves rejections.
CONSTANTS
  p1 = p1  p2 = p2  a = a  b = b  q1 = q1  q2 = q2  d1 = d1  d2 = d2  x = x  y = y
  Process <- TwoProcesses
  Applications = {p1}
  Op = {a}
  Ops <- JustA
  DependsOn <- BWaitsForNothing
  Request = {q1, q2}
  Protected = {}
  ReceiptAware = {a}
  RequestsOf <- OneRequestEach
  Id <- IdsOfProcesses
  DecisionId = {d1}
  Time = {0}
  Output = {x}
  Scope = "PublicationScope"
  Proves = {a}
  Observed = {}
  Occupied = {}
  MayExist = {}
  RunOptions <- TwoAndOne
  Duties <- Run
  Ambiguous = FALSE
  MaxSerial <- SixAndFour
  MaxRetry = 2
  NoDraft = NoDraft
SPECIFICATION AppSpec
INVARIANTS
  BudgetKept
  AskedOnce
