----------------------------- MODULE Credentials -----------------------------
(***************************************************************************)
(* How one request of a provider gets its credentials: a token the caller  *)
(* holds, or a workload identity that is fetched from GitHub, verified and *)
(* exchanged at the registry, anew for each request.                       *)
(* packages/{npm,pypi,mcp,github}/src/Auth.ts, with                        *)
(* packages/ts-release/src/platform/GithubOidc.ts.                         *)
(*                                                                         *)
(* Time passes between any two reads; the services answer anything.        *)
(***************************************************************************)
EXTENDS Naturals, FiniteSets

CONSTANTS
  Run,           \* workflow runs; the process is in one of them
  IssuerKey,     \* keys GitHub signs with
  Key,           \* keys anyone signs with
  MaxTime        \* bound: the clock stops there

CredentialsAssumption == IssuerKey \subseteq Key /\ MaxTime \in Nat

Registry == {"npm", "pypi", "mcp", "github"}
Trusting == {"npm", "pypi", "mcp"}
Time == 0 .. MaxTime

VARIABLES now, grant
vars == <<now, grant>>

Token == [aud : Trusting, run : Run, kid : Key, signer : Key, from : Time, until : Time]
Binding == [principal : {"own", "other", "public"}, authorization : {"own", "other"},
            package : {"own", "other"},
            endpoint : {"write", "observe", "download", "foreign"}]
Environment == [run : Run, github : BOOLEAN, service : {"runner", "substituted"}]

Ask == [registry : Registry, trusted : BOOLEAN, binding : Binding, claimed : Run,
        environment : Environment]

Fresh(ask) == [phase |-> "asked", ask |-> ask, token |-> {}, keys |-> {}, credential |-> {},
               verified |-> 0, told |-> {}]

Init == now = 0 /\ \E ask \in Ask : (ask.trusted => ask.registry \in Trusting) /\ grant = Fresh(ask)

TypeOK ==
  /\ now \in Time
  /\ grant.phase \in {"asked", "admitted", "checked", "asking", "identified", "keyed",
                      "verified", "exchanging", "exchanged", "granted", "refused"}
  /\ grant.token \subseteq Token /\ grant.keys \subseteq [kid : Key, key : Key]

Tick == now < MaxTime /\ now' = now + 1 /\ UNCHANGED grant

To(phase) == grant' = [grant EXCEPT !.phase = phase] /\ UNCHANGED now
Refuse == To("refused")
\* A secret leaves: what, where to, and when.
Tell(phase, secret, to) ==
  /\ grant' = [grant EXCEPT !.phase = phase,
                 !.told = @ \cup {[secret |-> secret, to |-> to, at |-> now]}]
  /\ UNCHANGED now

-----------------------------------------------------------------------------
(* The binding of the request *)

\* Mutant: any principal may use the routes.
BoundByRoute(ask) == ask.binding.endpoint \in {"write", "observe"}

\* admitBinding of npm, binding of pypi, admit of mcp: the operation's own write or
\* observation, under its principal and authorization; a trusted npm package is named.
BoundToOperation(ask) ==
  /\ ask.binding.principal = "own" /\ ask.binding.authorization = "own"
  /\ ask.binding.endpoint \in {"write", "observe"}
  /\ ask.registry = "npm" /\ ask.trusted => ask.binding.package = "own"

\* A download without credentials: GitHub's assets are served elsewhere, in public.
PublicDownload(registry, binding) ==
  registry = "github" /\ binding.principal = "public" /\ binding.endpoint = "download"

Admit ==
  /\ grant.phase = "asked"
  /\ IF PublicDownload(grant.ask.registry, grant.ask.binding) THEN To("granted")
     ELSE IF BoundToOperation(grant.ask) THEN To("admitted")
     ELSE Refuse

\* authorizeToken: the caller's token, if it can be a header at all.
GrantToken ==
  /\ grant.phase = "admitted" /\ ~ grant.ask.trusted
  /\ Tell("granted", "token", grant.ask.binding.endpoint) \/ Refuse

-----------------------------------------------------------------------------
(* The workload identity *)

\* The public facts of the host, before either secret of the runner is read.
CheckEnvironment ==
  /\ grant.phase = "admitted" /\ grant.ask.trusted
  /\ IF grant.ask.environment.github /\ grant.ask.environment.run = grant.ask.claimed
     THEN To("checked") ELSE Refuse

CheckService ==
  /\ grant.phase = "checked"
  /\ IF grant.ask.environment.service = "runner"
     THEN Tell("asking", "request", grant.ask.environment.service) \/ Refuse
     ELSE Refuse

ReadToken ==
  /\ grant.phase = "asking"
  /\ \/ \E token \in Token :
          /\ grant' = [grant EXCEPT !.phase = "identified", !.token = {token}]
          /\ UNCHANGED now
     \/ Refuse

ReadKeys ==
  /\ grant.phase = "identified"
  /\ \/ \E keys \in {k \in SUBSET [kid : Key, key : IssuerKey] : Cardinality(k) \in 1 .. 2} :
          /\ grant' = [grant EXCEPT !.phase = "keyed", !.keys = keys]
          /\ UNCHANGED now
     \/ Refuse

\* Mutant: the audience is left to the registry.
ExpectedRun(ask) == [aud : Trusting, run : {ask.claimed}]

\* The claims a token must carry: of this registry and of this run.
Expected(ask) == [aud : {ask.registry}, run : {ask.claimed}]

\* verifyGithubToken: one key of that name, its signature, the time, the claims.
VerifiedToken(token, keys, ask) ==
  LET named == {k \in keys : k.kid = token.kid}
  IN  /\ Cardinality(named) = 1 /\ \A k \in named : k.key = token.signer
      /\ token.from <= now /\ now < token.until /\ token.from < token.until
      /\ [aud |-> token.aud, run |-> token.run] \in Expected(ask)

VerifyToken ==
  /\ grant.phase = "keyed"
  /\ \E token \in grant.token :
       IF VerifiedToken(token, grant.keys, grant.ask)
       THEN /\ grant' = [grant EXCEPT !.phase = "verified", !.verified = now]
            /\ UNCHANGED now
       ELSE Refuse

\* The exchange connects to the registry first, and the clock runs.
Exchange ==
  /\ grant.phase = "verified"
  /\ Tell("exchanging", "identity", grant.ask.registry) \/ Refuse

-----------------------------------------------------------------------------
(* The exchange: npm answers 201, pypi and mcp 200, mcp with the time it ends *)

ReadCredential ==
  /\ grant.phase = "exchanging"
  /\ \/ \E until \in Time :
          /\ grant' = [grant EXCEPT !.phase = "exchanged", !.credential = {until}]
          /\ UNCHANGED now
     \/ Refuse

\* Mutant: npm's rule for every registry.
Opaque(registry, until) == TRUE
Usable(registry, until) == registry = "mcp" => now < until

GrantCredential ==
  /\ grant.phase = "exchanged"
  /\ \E until \in grant.credential :
       IF Usable(grant.ask.registry, until)
       THEN Tell("granted", "credential", grant.ask.binding.endpoint) ELSE Refuse

Next ==
  \/ Tick
  \/ Admit \/ GrantToken \/ CheckEnvironment \/ CheckService
  \/ ReadToken \/ ReadKeys \/ VerifyToken \/ Exchange \/ ReadCredential \/ GrantCredential

Spec == Init /\ [][Next]_vars

-----------------------------------------------------------------------------
(* Properties *)

\* A registry is told an identity only if GitHub signed it, for that registry and for this
\* process's own run, and it was alive when it was verified, before it was told.
IdentitiesVerified ==
  \A t \in grant.told : t.secret = "identity" =>
    \A token \in grant.token :
      /\ token.signer \in IssuerKey /\ token.aud = t.to
      /\ token.run = grant.ask.environment.run
      /\ token.from <= grant.verified /\ grant.verified < token.until
      /\ grant.verified <= t.at

\* What a request carries was for the very operation of its binding, and the runner's
\* own secret stays with the runner.
CredentialsPlaced ==
  \A t \in grant.told :
    /\ t.secret \in {"token", "credential"} =>
         /\ grant.ask.binding.principal = "own" /\ grant.ask.binding.authorization = "own"
         /\ t.to \in {"write", "observe"}
    /\ t.secret = "request" => t.to = "runner" /\ grant.ask.environment.github
    /\ t.secret = "credential" /\ grant.ask.registry = "mcp" =>
         \A until \in grant.credential : t.at < until
=============================================================================
