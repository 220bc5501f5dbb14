CONSTANTS
  \* HTTP: two endpoints, one of them by TLS.
  Endpoint = {"e1", "e2"}  Principal = {"q1", "q2"}  Secure = {"e1"}
  Durable = {"durable"}  Live = {"s1", "s2"}  Issued <- Secrets
  Provider = {"g1", "g2"}  Owns <- Owned  MaxResponse = 2  MaxWire = 4
  \* A native program.
  Upstream = {"tls", "plain"}  Https = {"tls"}  MaxOutput = 2  MaxWritten = 3
  \* The npm session.
  Writing = {"r1", "r2", "r3"}  Operation = {"o1", "o2"}  OperationOf <- Writes
  Caller = {"f1", "f2"}  MaxChallenges = 2  Serial = {1, 2, 3}
  \* Credentials.
  WorkflowRun = {"run", "another"}  IssuerKey = {"k1"}  Key = {"k1", "k2"}  MaxTime = 2
  \* A destination.
  Restorer = {"t1", "t2", "t3"}  Entries = 1  MaxOccupied = 1
  \* Apple.
  Signed = {"app", "dmg"}  Runner = {"r1", "r2"}  MaxSubmissions = 2
  \* A journal.
  Publication = {"u", "v"}  Preparation = {"x"}  Process = {"p", "q"}
  Contexts <- Configurations  MaxCalls = 2  MaxEvents = 4
  \* A bounded observation.
  Watched <- TwoOperations  Selected = {"a"}  Budget = 2  FirstDelay = 1  LastDelay = 2
  Late = 0  MaxObservations = 3
  \* The release of this repository's own packages.
  Canonical <- Lower  Commit = {"c1", "c2"}  Version = {"v1", "v2"}  Notes = {"n1", "n2"}
  Package = {"core"}  Preparing <- Requests  Planned <- Plans  Directory = {"d1", "d2"}
  Initially <- Held  Intruding <- Others  Run = {"r1", "r2"}  Input <- Inputs
  Signal <- Signals  MaxIntruded = 1  MaxReleased = 3
SPECIFICATION Spec
INVARIANTS
  HostInv
  CallsClean
  SecretsKept
  ProductsWhole
  OnePublication
  ReportTrue
PROPERTY CallsEnd
\* Every machine here ends: calls return, sessions close, trees are restored.
CHECK_DEADLOCK FALSE
