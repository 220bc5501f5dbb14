# A TLA+ model of ts-release

ts-release publishes the finished artifacts of a release (npm tarballs, GitHub
releases, PyPI files, catalogs in Git, marketplace entries) to services that
offer no transactions, from machines that can die at any moment, possibly from
several machines at once. What makes it correct is a journal: every send is
preceded by a durable `DispatchStarted` event, every outcome becomes evidence
behind it, and what may be sent next is a function of that history alone. These
modules model the functions, the processes that run over them and the stores
under them; TLC checks small instances and TLAPS proves the main safety
properties for all of them.

Paths below are relative to `src/`; `TR` stands for `packages/ts-release/src`.

## 1. The system

| Component | State it keeps | Operations | Interacts with |
|---|---|---|---|
| Release kernel: `TR/internal/Decision.ts`, `TR/Journal.ts`, `TR/internal/ReleaseModel.ts` | none; it reads a history | `operationStatus`, `dispatchDecision`, `assertJournalAppend`, `verifyNativeEvidence`, `verifyPreparationSelection` | called by the executor before each append and by the host on every read |
| Executor: `TR/Release.ts` | the call under way: cursor, visited set, draft event, revision | `runRelease`, `observeRelease`, `acceptRisk`, `supersedePlan` | the host's journal, the providers, the transport |
| Host: `TR/internal/Host.ts` | scopes admitted from one physical journal | `read`, `open`, `append` | a journal store and the kernel |
| Plan: `TR/Plan.ts`, `TR/internal/Identity.ts` | immutable | operations, dependencies, identities | executor, kernel |
| Provider and transport contract: `TR/Provider.ts` | none | `prepare`, `observe`, `send`, `classify` | remote services |
| Git journal: `TR/platform/GitJournal.ts`, `GitRemote.ts`, `TR/internal/GitAuthority.ts` | one ref, one commit per event; a scratch repository per call | `read`, `append` | `git` commands, a Git server |
| SQLite journal: `TR/platform/SqliteJournal.ts` | one table of rows | `read`, `append` | a database file shared by processes |
| Application: `TR/platform/Application.ts` | a budget of dispatches, a deadline | `run`, bounded observation, `report` | executor |
| Content store: `TR/platform/ContentStore.ts` | files named by their digest | `persist`, `open` | a file system |
| Git catalog: `TR/internal/GitCatalog.ts`, `TR/platform/GitHost.ts` | a ref of a remote repository | push with a lease, observe | `git`, a Git server |
| HTTP transport: `TR/platform/HttpTransport.ts`, `TR/Http.ts` | one request: its timer, socket, client, bytes and result | `prepare`, `sendPrepared`, reads, exchanges | undici, credentials, providers that own requests |
| Native processes: `TR/platform/Process.ts`, `GitProcess.ts` | a child, its pipes and its directory | `command`, `repository` | Node's events, the operating system |
| Credentials: `TR/platform/GithubOidc.ts`, `packages/*/src/Auth.ts` | none is kept: each request fetches anew | `authorizeToken`, `authorizeTrusted`, `authorizeOidc` | GitHub's runner, registries |
| npm: `packages/npm/src` | one-time authentication sessions | publish and tag, provenance, observe, capture and use of a challenge | registry, Sigstore, browser |
| GitHub: `packages/github/src` | none of its own | the graph tag, draft, assets, publish | REST API |
| PyPI: `packages/pypi/src` | none of its own | inspect, upload, observe | index |
| MCP registry: `packages/mcp/src` | none of its own | admit a manifest, publish, observe | registry |
| Apple preparation: `TR/apple` | selected preparation | submit, staple, select, validate a publication | executor in a preparation scope, notary service |
| Effect builds: `TR/EffectBuild.ts` | a staging directory | `adoptTree`, `restoreTree` | content store, file system |
| OpenAI, catalogs: `packages/openai/src`, `packages/catalog/src` | none | formatting of files | Git catalog |
| Byte formats: `TR/internal/Bundle*.ts`, `Tar.ts`, `Checksums.ts`, `TreeLayout.ts` | none | encode, decode, hash | everything that stores |
| Self release and Action: `apps/self-release/src`, `apps/action/src` | a candidate directory | `prepareRelease`, `createApplication`, the launcher | everything above |
| Scripts, prototypes, templates, examples | | | everything |

How they interact. A caller opens a host on a plan and a store. The executor
reads the history through the host, which admits it event by event; asks the
kernel what may be done; has the provider prepare a request; appends
`DispatchStarted` at the revision it decided on; and only if that append is its
own calls the transport once. What the transport answers becomes an event,
appended with retries. Between any two of these effects another process may
have appended, the process may die, and an answer may be lost although the
append or the upload happened.

What is hard, in order of importance:

1. *One send per recorded start*, although appends race, answers are lost and
   appends land late (`TR/Release.ts:304-330`).
2. *Uncertainty.* A start without an outcome may have published. It must not be
   followed by another unless every unresolved attempt is the same request
   protected by a remote compare-and-swap, or an operator accepted that risk for
   exactly these attempts (`TR/internal/Decision.ts:78-128`).
3. *A history nobody can read.* `Host.read` admits a stored history by replaying
   every law; an event appended legally at one revision and stored at another
   would make the journal unreadable for every later process.
4. *Stale reads*: dependencies, observations and preparations are judged on a
   history read before an effect and used after it.
5. *The stores*: a Git journal of separate commands, a SQLite journal of
   separate statements, both beside other writers.
6. *One journal, many plans over time*: processes that were configured with
   different plans append to one history (`TR/internal/Host.ts:143-189`).
7. *What a provider says is true*: receipts, rejections and observations are made
   of several reads of a registry that others write to, and everything above trusts
   them (`classifyObservation` of each provider).
8. *Calls that end*: a response, a deadline, an interruption and a helper that holds
   a pipe meet in one call, which gives one result and leaves nothing behind
   (`TR/platform/HttpTransport.ts:121-290`, `Process.ts:28-100`).
9. *A release rebuilt from files*: what one run publishes is read file by file from a
   directory, and two candidates of one version must share a history
   (`apps/self-release/src/application.ts:98-376`, `Model.ts:22-26`).

`PROJECT.json` lists the hazards with their lines and the properties that cover
them.

## 2. Modules

| Module | Models | How state and actions correspond |
|---|---|---|
| `Decision` | the kernel, as operators over a sequence of events | `OperationStatus`, `LawfulBases` and `LegalAppend` are `operationStatus`, `dispatchDecision` and the three checks of `assertJournalAppend`; `Admissible` is the replay of `Host.read` |
| `Release` | the executor | one action per stretch of code between two effects: `Consider` (the turn of the loop), `Observe`, `Decide`, `Prepare`, `Commit` (the append of the start), `Reconcile` (the look-up after an unanswered append), `Send` with its four outcomes, `ReadForFact` and `AppendFact` (the retries of `appendFact`), `Crash`; `Land` and `Deliver` are the environment |
| `ReleaseProperties` | | the executor's promises and the invariants behind them |
| `JournalStore` | the contract of `JournalStore` in `TR/Journal.ts` | a log, open calls, appends left behind; a call is asked, may take effect, is answered truthfully or abandoned |
| `GitJournal` | the Git store | `remote` is the history the ref names, `head` what the call's scratch repository fetched, `phase` the command it is at |
| `SqliteJournal` | the SQLite store | `table` is what is committed; one action per statement, `phase` the statement a call is at, `listed` and `fetched` what a read has so far |
| `Application` | the application runner, over `Release` | `stage` is where an invocation is: `Admit` (the report it counts from), `RunStep` (a step of the executor), `Report`, `Ask` (one question to the caller), `RunAgain`; `Stop` is an interruption or a death |
| `ContentStore` | owned content in a directory | `phase` is the next effect of a call, one action per effect; `files`, `names` and `temporary` are what the system shows, `flushed` and `settled` what of it is safe; `PowerLoss` keeps an arbitrary part of the rest |
| `GitCatalog` | updates of files on a branch other people push to | `phase` is where an author is between capture, construction, `PreparePush` (which verifies the commit), the push and its witness; `remote` is what the branch names, `abandoned` the pushes nobody waits for; `Others` are the other people |
| `SharedJournal` | several plans in one journal | `log` is the physical history, `invoked` the calls of processes, each with the context its caller configured; `Admits` is `Host.read`, `Append_`, `AppendAmbiguous` and `Reconcile` the append of `appendFact` and of `runRelease` |
| `BoundedObservation` | `observeApplication` | `sweep.phase` is the turn of its loop: `Check`, then for each operation `Observe`, `AppendFact` and `Answer` (the read, the push and its retry), `ReadReport`, `Look`, the wait; `pushes` is the push whose effect is open, and `Land` the server applying it, also after the push was killed; `Interrupt` and `Settle` are the timeout that joins what it interrupts, `Reconcile` the last read; `time` is its clock |
| `HttpTransport` | one HTTP call | `phase` is where the call is; `Admit` and `Authorize` come before it, one action per callback of the socket and the parser (`Connected`, `ResponseStart`, `ResponseData`, `ResponseEnd`, `ConnectionLost`), `Deadline`, `Cleanup`, `Return`; `told` is which endpoint got which header |
| `NativeProcess` | one command in a scratch repository | `command` has the locals of the call, `system` the program, a helper it may start, what is in their pipes, the directory |
| `Credentials` | one request for credentials | `phase` is the next read; `told` is what secret went where and when; `Tick` lets time pass between any two steps |
| `LocalAuthentication` | a session of npm's web authentication | `session` has the two maps and which secrets can still be read, `callers` the calls under way; one action per stretch between two awaits |
| `NpmProvider`, `GitHubProvider`, `PyPiProvider`, `McpProvider` | one provider beside its registry | `Prepare`, `Send`, `Decode`, `Classify` and `Observe` are the functions of the provider contract; `Commit`, `Answer` and `Foreign` are the registry and its other users; GitHub's observation is one action per read |
| `ApplePreparation` | preparations by several runners | `runner` is where each is in `runPreparation`; `apple` is what the notary service has, `store` the content, `publication` the bundle that ships |
| `TreeRestore` | `restoreTree` by several callers, beside other programs | `disk` is the destination and the staging directories; one action per effect, the cleanup and its failure included |
| `SelfRelease` | the release of this repository's own packages | `author` is a preparation, one action per file it writes; `runs` is where each run of the application is between two reads of `directories`, the journal and the secrets; `journals` are the histories of each coordinate in each store, admitted by the `Admits` of `SharedJournal`; `opened` is which secret went to whom; `Interrupt` and `Exit` are the launcher |
| `Hosts` | the machines around the executor, side by side | `on` says which machine a behaviour is of; each machine is an instance of its module, with variables of its own |
| `Providers` | the four providers, side by side | as `Hosts`: `on` says which provider a behaviour is of |
| `HostInvariants`, `ProviderInvariants` | | what each of these machines, and each provider with its registry, keeps at every step: an inductive invariant of each, in named parts |
| `ReleaseProofs`, `ApplicationProofs`, `GitJournalProofs`, `SqliteJournalProofs`, `ContentStoreProofs`, `GitCatalogProofs`, `HostProofs`, `ProviderProofs` | | theorems and their lemmas: of histories, the executor, its journal and the remote, of the runner, of each store, of the machines of a host, and of the providers |
| `MCRelease`, `MCGitJournal`, `MCSqliteJournal`, `MCApplication`, `MCContentStore`, `MCGitCatalog`, `MCHosts`, `MCProviders` | | instances for TLC |

*Data.* A request is a model value that stands for its fingerprint; an output
for the digest of a prepared artifact; an event identity is the process that
drew it and a serial number, which is what the identities of `eventFor`
guarantee. A commit of the Git journal is the sequence of events it ends,
because its tree, parents, author, dates and message are functions of them.
Codecs, formatting and logging are left out.

*The executor's store.* `Release` uses the store in one step per append
(`StoreAppend`) and one action for what lands late (`Land`). That is the
contract of `JournalStore` with the moments of asking, taking effect and
answering drawn together: only the moment an append takes effect changes the
log, and between asking and answering the process itself does nothing. `Ambiguous`
tells a store that may lose answers (Git) from one that does not (SQLite).

*The remote.* `existing`, `published` and `wire` say what the remote has, under
which dispatch it got it, and what is still on its way. An observation may report
absence of what is there (replicas lag) but not presence of what is not.

*Several machines in one run.* `Hosts` and `Providers`, of which `MCHosts` and `MCProviders` are instances, each have
machines that share no state. The variable `on` chooses one of them in the initial state and the
variables of the others stay `Off`, so the states are the sum of the machines'
states and nothing is said of their product, which the code does not have either: a
transport call, a command and a provider's observation meet the rest of the system
only through the results whose truth these runs are about. Each property of such a run says what it
asks of every machine; the parts are named definitions of the modules, each with a
mutant of its own beside the definition it is about.

*How the layers fit.* `Release` assumes of a provider that a receipt is of an upload
that took effect, that a proven rejection is of one that never will, and that presence is not
reported of what is not there. The properties `OutcomesTrue` and `ObservationsTrue` of
`Providers` are these assumptions, shown of the real classifiers. It assumes of the
journal what `JournalStore` promises, which the two stores implement, and of one plan in it what `SharedJournal`
adds: that no other plan of the journal publishes. `CallsEnd` is why its calls get
their answers at all.

*What a bounded observation does not promise.* At the deadline the sweep is interrupted
and joined, and the history is read once more (`TR/platform/Application.ts:144-164`). If a
push of its append was under way it is killed (`TR/platform/Process.ts:93-97`), but a
server that has the push may still apply it, after the join and after that last read
(`TR/platform/GitJournal.ts:206-228`). The report may then lack that one observation,
although the journal gets it. `ReportTrue` claims that a report has all that was recorded
by the join, and that what of this call comes later is the observation that was cut off,
recorded once.

## 3. Runs

Each run finishes within little more than three minutes with two workers.

| Run | Instance | Question |
|---|---|---|
| `release_race` | two processes, one unprotected operation, ambiguous appends that may land late, crashes | Is any start sent twice or early? Does the remote get more than one effect per licence? |
| `release_risk` | two processes, two requests, decisions that expire, proven rejections | Is uncertainty kept, a decision spent once, an acceptance remembered, an outcome final? |
| `release_plan` | two operations listed against their dependency, one of them a Git ref under compare-and-swap, another process that observes and supersedes | Are dependencies at the remote before what waits for them? Does satisfied mean published? Is supersession final? Is `EffectInv`, with everything the executor's proofs rest on, an invariant? |
| `preparation` | two processes preparing one artifact, told of different outputs | Is one output selected, for good, in a history that stays readable? |
| `release_returns` | contention and unanswered appends under fairness | Does every call return? |
| `application` | a runner with a budget of at most two dispatches, another process on the same plan, a provider that proves rejections | Does one invocation stay within its budget and ask about an operation once? |
| `git_journal` | two clients, three events of which two share an identity and one is too large for its neighbours, revisions 0 to 2 | Is the Git journal a journal store? Can appends lock readers out? |
| `sqlite_journal` | three processes over one file, three events of which two share an identity, revisions 0 to 2 | Is the SQLite journal a journal store, with reads of many statements beside writers? |
| `content_store` | two processes, two contents, one with its name taken by something else, deaths and power losses, up to three temporary files | Do names hold whole contents? Is what `persist` returned safe? Who leaves temporary files? |
| `git_catalog` | two authors of one file, beside a file of somebody else's and a path that may be a file or a directory; branches of up to three commits, moved twice by other people | Does an update ever lose somebody else's work? Is replaying a push harmless? Are receipts true? |
| `hosts` | nine machines: an HTTP call (two endpoints, one of them TLS, two providers); a command with a helper; an npm session (three requests of two operations, two callers); a request for credentials at any of four registries; three restorers of one tree; two Apple preparations by two runners; two publication plans and a preparation in one journal, under seven configurations; a bounded observation of two operations; two runs of the self release beside a preparation and another program that replaces a candidate | Does a call leave nothing and pass on only what is whole? Does it end? Whom do secrets reach? Is what is restored, stapled and shipped whole and one's own? Does one journal publish one plan? Is the report of an observation that was cut off true? Is a release rebuilt from one candidate, published once per version, and a success only when it is one? Is `HostInv`, on which the proofs about these machines rest, an invariant? |
| `providers` | npm with two versions and tags, GitHub with plans of up to four operations, PyPI with plans of two files, the MCP registry with two namespaces, each beside one action of somebody else's | Are receipts, rejections and observations true? Is what is sent whole and of one meaning? Is `ProviderInv`, on which the proofs about the providers rest, an invariant? |

*What only a theorem covers.* The operation of `release_race` is unprotected and its
processes accept no risks, so the exceptions that `EffectsLicensed` makes for both are
exercised by the proof of `EffectsAreLicensed` alone. `release_plan` has a store that
always answers; that what `EffectInv` says survives lost answers is shown by the proof of
`EffectsAreTold`. An instance with all of these has too many states.

*Bounds.* Two processes suffice for every race named above: each is between one
process that decided and one that appended, superseded or published meanwhile,
and a process that crashed and was called again plays a third. `MaxSerial` bounds
the events a process may draw; it lets one process try three times and the other
interfere, and a call is begun only if the identities it may need are left, so
the bound never stops a call half way. `MaxRetry` is 2 where the code has 8: one
retry is what distinguishes a retry from none, and giving up is reached.
`MaxRevision` bounds the revisions a client may expect, one above and below what
the log reaches; a third SQLite process lets one read span the appends of
two others. The runner of `application` may draw six identities, enough for the
runs its budget allows, and its neighbour four. `Limit` admits histories of up to
three unit events and refuses what two writers could otherwise build past it.
Three temporary files let two writers meet on one name before or after another
died or lost its name to a power loss. Two moves by other people suffice to push
over an update and to put its base back, which is the one case where a replay has a
second effect. In `hosts`: a response may be one chunk longer than its bound and its
wire bytes one more than theirs, output two chunks and the program may write one more; two
submissions let a runner's source meet a stranger's, or be submitted twice; four events
let a plan be superseded and its successor start while a third call is open; the
budget of two lets the delay double, be cut and end at the deadline; three observations let a push be tried twice, be overtaken by another process's, or
land after the last read; one act of other programs at the destination of a tree may take
away, fill or forestall what a restorer claims; one replaced directory may fall between any two reads of a candidate, and three
events let a candidate be superseded and its successor be published and observed; each
run of the self release has five inputs that differ from the other's. In `providers` one act of somebody else's falls between any two steps, which
suffices for each of the reads it may falsify; a page of GitHub's list has one item, so
that two assets are two pages.

*Fairness.* `release_returns` states weak fairness on each process's own `Step`. Every effect behind a step has a timeout in the code (HTTP and
process deadlines, the busy timeout of SQLite), so a call under way always takes
its next step. Nothing is assumed of callers, of crashes, of the network
(`Deliver`) or of late appends (`Land`). `hosts` states weak fairness for `CallsEnd`: timers
fire, a fiber whose result is there resumes, a destroyed socket closes and a killed
process dies, pipes are read and their close is told. These are Node's event loop
and the operating system; nothing is assumed of the server, of what a program does
or of how long its helper lives.

*Mutants.* Each property is checked to fail under at least one plausible bug,
kept in the modules as an operator marked "Mutant" beside the definition it
replaces. Where a property has parts of several machines, there is one such operator for
nearly every part, and TLC finds the property violated under each of them.

## 4. Theorems

For every number of processes, operations, requests and identities:

- `TypeCorrect` — the type invariant, with where each duty may stand.
- `JournalAdmissible` — every reachable history is one `Host.read` admits. The
  invariant alone is not inductive: `AdmissibleInv` adds that every event waiting
  to be appended at a revision is legal after the history up to that revision
  (`WaitingLegal`), and that identities in use were drawn (`IdentitiesDrawn`). The
  argument is then the compare-and-swap: what is stored is stored at exactly the
  revision it was legal for.
- `SupersessionIsFinal`, `UncertaintyIsKept`, `RiskIsSpentOnce`, `OutcomeIsFinal`,
  `PreparationSelectsOnce` — consequences of admissibility alone, so they also
  hold of any journal a host admits, whoever wrote it. The first sections of
  `ReleaseProofs` have the facts about histories they rest on.
- `AcceptancesAreRemembered`, `SelectionIsSticky` — what was accepted, or selected, is
  not forgotten, whatever is recorded later: the status reads the latest evidence, and
  the position of an acceptance, or of what satisfied a preparation, stays where it is
  while the history grows (`JournalGrows`).
- `ExecutorIsSound`, `SendsOnce` — each start is sent at most once and only when it is
  in the journal. `ExecutorInv` adds that identities belong to the process that drew
  them (`DraftsOwned`) and that a start under way was never sent (`StartsUnsent`).
- `EffectsAreTold`, `EffectsAreLicensed`, `DependenciesArePublished`, `SatisfiedIsTrue` —
  the journal and the remote. `EffectInv` says of every event that is recorded, that waits
  to be, or that a process is about to record, that it was true of the remote when it was
  built; since the remote only gains effects it stays true. An identity names one event
  (`OneEventPerIdentity`), so an effect at the remote, or on its way, has a start in the
  journal (`EffectsStarted`). `EffectsAreLicensed` then counts: the effects of an
  operation are as many as the starts that had one; of two starts that spent no accepted
  risk the later was lawful only because the earlier was rejected, which has no effect,
  or because both repeat one protected request, which the remote applies once
  (`ProtectedOnce`); so all but one of them spent a risk of its own.
- `RunnerRunsReleases`, `BudgetIsKept`, `CallerIsAskedOnce` — every step of a runner is a
  step of the executor or leaves it alone, so the theorems above hold under it. The
  budget is one for several runs, and between them the runner counts dispatches in the
  journal, which other processes raise too. `BudgetInv` says that every send made or owed
  is among the starts recorded since the invocation was admitted, so the count is never
  too low, and that what is spent and what the next run may spend add up to no more than
  the budget. A start whose append was not answered is owed once it is recorded, also
  when it lands late (`Owed`).
- `HeadsAreHistory`, `GitImplementsStore` — every head a commit is built on stays a
  prefix of what the ref names and lacks the event (`StoreInv`); with that, each
  step of `GitJournal` is a step of `JournalStore` or none. The server's comparison under
  the lock of the ref is what makes a push an append at the revision expected.
- `HistoryStaysReadable` — the history at the ref never outgrows what a snapshot may
  read. `PushesFit` says that a commit fits with the head it was built on, and only that
  head may it replace. What an event adds to a sum of sizes is `BytesAppend`.
- `TableIsKept`, `SqliteImplementsStore` — the same contract for the table.
  `TableInv` says that a writer is alone from its first look-up to its commit, so
  what it looked up and counted still holds when its row appears, and that what a
  read has listed and fetched stays the beginning of the table; the revisions are
  then contiguous and no read is refused for a gap. The contract is met without
  appends left behind, which is why the executor's runs over SQLite have
  `Ambiguous = FALSE`.
- `OthersAreKept`, `ReplayIsHarmless`, `ReceiptsAreTrue` — what protected replay in the
  kernel relies on. `CatalogInv` says that every push under way, waited for or not, was
  verified against the base its lease names, and that the base of an update that took
  effect is not on the branch until somebody puts it back; the lease alone would not
  do, for a plan may come from elsewhere and name any commit.
- `StoreIsKept`, `PersistIsSafe`, `NamesAreComplete`, `TemporariesAreOwned` — the promises of the
  content store. `ContentInv` adds what each call has behind it at each effect and
  that every name, whoever gave it, is a name of bytes that are safe; a writer that
  finds the name taken may then rely on a file it did not write, once it has read it.
- `HostKept`, `HostTyped`, `CallsAreClean`, `SecretsAreKept`, `ProductsAreWhole`,
  `OnePlanPublishes`, `ReportsAreTrue` — the nine machines of `hosts`, for every value of
  their constants: any number of endpoints, callers, restorers, runners, processes, plans,
  configurations and directories, any limit, budget or delay. A step is of the machine that
  is on (`OneMachineSteps`), so each machine needs an invariant of its own. Below is what
  these add to the properties.

The invariants of `HostInvariants`, machine by machine:

| Machine | Why its properties are not inductive | What the invariant adds |
|---|---|---|
| HTTP call | bytes that come after the end of a response must not change what ended it, and a handle must be gone before the call is over, not when it is | `ResponseKept`: the bounds hold until something ended the call; `HandlesKept`: which handles there may be in each phase; `HeadersKept`: each live header on the request is registered for its authority, sent over TLS, and only what is on the request is told |
| Native command | the result is read off counts that pipes, a helper and a kill change independently | `OutputCounted`: bytes counted and bytes in the pipes are what was written; `ProgramsHeld`, `CloseKept`: processes live only while the call does, and a success has empty pipes, no signal and no failure |
| npm session | a password could be made twice of one challenge held in two places | `OnePlace`: a challenge is kept, or with one completion, or in its password, or spent; never in two of these |
| Credentials | what was told must still be right after time went on and other reads came | `BindingKept`, `GrantKept`, `ToldKept`: what each phase has already checked, and every disclosure judged when it was made |
| Restored tree | the tree at the destination must outlive its author's cleaning or death | `TreeStands`: it was verified by an author who writes no more, and claims are of verified trees; `StagingKept` |
| Apple | a number of a submission passes from Apple through a runner and the journal to a product | `SubmissionsKept`: one runner sends a source, under a start of its own; `NumbersKept`: wherever a number is remembered it is of that source, and accepted where a ticket was stapled; `SelectionKept` |
| Shared journal | what is appended was admitted earlier | `OneActive`: every event of a plan follows a history in which each other plan was superseded and never dispatched; `Follows`, for an event that waits at a revision. The store appends it at that revision only. `OnePublication` is then read off the two starts; that some configuration admits the journal is read off the last event of a publication |
| Bounded observation | a sweep is between two appends when the deadline cuts it off | `ReportKept`: wherever a report may be returned as it is, nothing of this call is behind it but what the deadline cut off; `PushesKept`: a push that is open is of the event the call is at, and that event is not in the journal yet; `ReportBounded` |
| Self release | a run reads a candidate file by file while another program replaces the directory | `PlanKept`: from where the plan was read on it is the one selected, of the source and notes that were asked for; `PreflightKept`, `ExitKept`: who is authorized was admitted, and a success is recorded; `JournalsKept`: a journal is of one version, is `OneActive`, and names only runs that were given its plan |

- `ProvidersKept`, `ProvidersTyped`, `ReceiptsMeanEffects`, `ObservationsMeanStates`,
  `WhatIsSentIsWhole` — the four providers of `providers`, for every value of their
  constants: any number of versions, tags, assets, files, names and servers, plans of any
  size, and as many writes by other users as may be, at any moment.

The invariants of `ProviderInvariants`, provider by provider:

| Provider | Why its properties are not inductive | What the invariant adds |
|---|---|---|
| npm | a document may come from a cache, and what it says of a version must still be so | `VersionsKept`: a version that was ever there has the same bytes now, so what any earlier document said of it still holds; `SeenTrue`: what was seen is a document of the past; `AnswersKept`: what each answer says of the write; `ProvenanceKept`: in which phase a bundle has been checked against the intent, and its signer |
| PyPI | a file's name is inspected before the upload, its form goes out and its page is read later, beside uploads of the plan to the same index | `IndexTyped`; `FormsKept`: the form that went out is of the intent, and the name was inspected to spell its coordinate |
| MCP | an entry that was stored may change its status before its answer or its look-up | `ServedOnce`: a key has one entry; `StoredKept`: what was stored is the manifest that was sent and stays served, in whatever status |
| GitHub | an observation is five reads, some of many pages, of a repository that changes between them, and what was read is bound to facts of earlier operations | `FactsTrue`: each fact read so far was so in a state of the span, the states since the observation began; `ParentOwn`: the release that assets are bound to is a draft this plan made, and identities are not used again (`WorldKept`); `PublicationReads`: the order of the reads |

A GitHub release that goes public is whole if nobody else touched the repository, and the
argument for it is the longest of these. Left alone, the repository of the span is the
present one (`ReadAlone`) and the pages read so far are the beginning of its listing
(`Paging`, kept by `PageReadAlone`: the last page is known as soon as there are two). So
the preflight of the publication has the whole list. It found as many assets as the plan
has, with different names, and one of them for each asset of the plan; the positions are
then taken (`PlacesTaken`), and the list has no other asset (`ListingWhole`). Between the
preflight and the effect of the request `SendingKept` keeps what was read.

The assumptions are the named `ASSUME`s of the modules: constants have their
types, dependencies are among the plan's operations, an absent event is not an
event. For the machines of
`Hosts`: there are finitely many providers, and finitely many publication plans in one
configuration (they are arrays in the code); there is at least one publication plan;
sources of Apple products are not called `none` or `elsewhere`, which the model uses for
no source and for somebody else's; plans have the fields that a plan file has; clocks and
limits are natural numbers. For those of `Providers`: GitHub's assets are finitely many (a
plan is an array), and the values that the model uses for no version, no asset or another
operation are not among the versions, bytes or assets. TLC evaluates them in every run.

*Recursive data.* The library's induction theorems cannot be used (they take an operator
as a parameter), but the positions of a history are well ordered: a set of them has a
least one (`LeastPosition`) and, if it is finite, a last one. Where a proof needs induction over a history, it
takes the least position at which the claim fails (`SumsExist`, `SumsUnique`) or the last
one that says something (`LatestObservation`).

Only model-checked: `CallsReturn` and `CallsEnd`, as liveness under fairness is out of the
prover's reach. Every other property of every run is stated by a theorem.

## 5. Not modelled

- Byte formats, canonical JSON, digests, the contents of archives and the grammars of
  Python metadata and requirements: pure conversions. `PyPiProvider` has of an archive
  which metadata files it holds and whether its members overlap.
- Fields of requests and receipts: a receipt that corresponds to its request is
  one outcome of a send, one that does not is `DispatchError`, as in the code.
- OpenAI and catalog providers: they format files; what publishes them is `GitCatalog`.
- `adoptFile` and `adoptTree`: they read files into the content store (`ContentStore`).
- The rehearsal of the self release, the attestations of a preparation, the loading of
  application modules; builders, scripts, prototypes, templates, examples, vendored tests.
- Creating the tables when a SQLite journal is opened, and the rows of other
  journals in the same file.
- The parent of a content directory: nobody syncs it, so `KeptSafe` promises nothing of
  a directory that was made since the last power loss (`directory`). Programs other
  than ts-release that write into the directory while it is in use.
- In `Application`: an invocation without a budget (`maxDispatches` undefined), whose
  rejection loop is the same but has no budget to keep.
- In `GitCatalog`: scratch repositories, the encoding of object sets, file modes,
  names that differ in case only, and credentials; commits are compared by content,
  as their digests do.
- In `HttpTransport`: the syntax of URLs and headers, redirects (there are none),
  compression. In `NativeProcess`: Windows, where no process group is made.
- In `NpmProvider`: the choice of workspace packages by `author`; Sigstore, which may
  return any bundle.
- In `GitHubProvider`: limits on pages and bytes. `ObservationsTrue` claims of each
  fact that it was so in some state of the repository while it was read, not that one
  state had all of them: a list that is read page by page while it changes has no such
  state, and the code does not ask for one.
- In `PyPiProvider`: more than one index. A plan is grouped by endpoint first
  (`packages/pypi/src/Protocol.ts:25`), and the model is of one group.
- In `McpProvider`: the grammars of names and identifiers and what arguments need
  (`packages/mcp/src/Model.ts:42-179`): predicates of a manifest, but for the rule on
  secrets, which is modelled.
- In `Decision`: that the request of a start belongs to its operation, which a host
  checks again whenever it reads (`TR/Journal.ts:92-101`); a request of the model is of
  its operation by construction. `Classify` is the rule the providers' classifiers
  share; each provider's own is in its module.
- In `TreeRestore`: what is in a file. The cleanup of a staging directory may itself
  fail (`TR/EffectBuild.ts:177-195`); that call ends in a defect and leaves the directory,
  which `StagingRemoved` excepts.
- In `ApplePreparation`: the signing tools and their reports; the executor's laws of
  dispatch are taken as `Release` shows them.

## 6. Plan

Built: every module above, and the theorems of section 4. What remains:

1. `HttpTransport` as the transport of `Release`: a refinement from one call to the
   outcomes of its `Send`.
2. `Release` over `JournalStore`: that the store in one step per append, as the executor
   uses it, is a reduction of the contract that the two stores implement.
