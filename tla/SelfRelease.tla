------------------------------ MODULE SelfRelease ------------------------------
(***************************************************************************)
(* The release of this repository's own packages: a preparation writes a   *)
(* candidate into a directory, and runs of the application rebuild the     *)
(* release from it, file by file, while other programs write to the same   *)
(* directory, and publish it under the Action's launcher.                  *)
(* apps/self-release/src/prepare.ts and application.ts, apps/action.       *)
(*                                                                         *)
(* A plan stands for its hash and a bundle for its hash.  The publication  *)
(* is one dispatch and one observation; the executor itself is Release.    *)
(***************************************************************************)
EXTENDS Naturals, Sequences, FiniteSets

CONSTANTS
  Canonical,                     \* each spelling of a repository, in lower case
  Commit, Version, Notes, Package,
  Request,                       \* what a preparation may be asked for
  Plan,                          \* the plans there are, prepared or made otherwise
  Directory, Initially, Foreign, \* directories, what they hold, and what others write there
  Run, Input,                    \* the runs, and what each may be asked for
  Signal,                        \* exit codes of the signals each may be sent
  MaxForeign, MaxEvents          \* bounds: replaced directories, events of a journal

NPM_PRINCIPAL == "npm-publisher"
None == "none"
Modes == {"Token", "Trusted", "Local"}
Repository == DOMAIN Canonical
Source == [repository : Repository, commit : Commit, version : Version]
Bundle == [source : Source, notes : Notes]
Coordinate == [repository : {Canonical[r] : r \in Repository}, version : Version]
PublishIntent ==
  [name : Package, version : Version, authorization : {"Token", "Trusted"},
   principal : {NPM_PRINCIPAL, "another"}, provenance : Commit \cup {None}]
Candidate == [bundle : Bundle, plan : Plan]
Written ==
  [bundle : Bundle, journal : Coordinate, publications : SUBSET PublishIntent,
   tags : SUBSET [version : Version, commit : Commit], drafts : SUBSET Notes, repository : Repository]
AtMostOne(S) == {some \in SUBSET S : \A one, other \in some : one = other}
Files ==
  [made : BOOLEAN, bundle : AtMostOne(Bundle), plan : AtMostOne(Written), content : SUBSET Bundle]

SelfReleaseAssumption ==
  /\ Plan \subseteq Written
  \* A preparation is given archives: each a package at a version.
  /\ Request \subseteq
       [source : Source, notes : Notes, authorization : {"Token", "Trusted"}, provenance : BOOLEAN,
        archives : SUBSET [name : Package, version : Version]]
  /\ Initially \subseteq [Directory -> Files] /\ Foreign \subseteq Files
  /\ Signal \in [Run -> SUBSET {130, 143}]
  /\ \A r \in Run : Input[r] \subseteq
       [task : {"run", "observe", "supersede"}, authorize : BOOLEAN, mode : Modes,
        directory : Directory, selected : Candidate,
        remote : {"file", "github", "elsewhere"}, prior : SUBSET Candidate, before : Directory]
  /\ MaxForeign \in Nat /\ MaxEvents \in Nat

VARIABLES
  directories,  \* the files of each directory: at most one bundle.json, one plan.json
  author,       \* the preparation
  journals,     \* the events of each journal of each store
  runs,         \* the runs of the application
  opened,       \* the secrets that runs handed out
  foreign       \* how often another program wrote to a directory
vars == <<directories, author, journals, runs, opened, foreign>>

Absent == [made |-> FALSE, bundle |-> {}, plan |-> {}, content |-> {}]
Remote == {"file", "github"}
Idle == [phase |-> "idle", plan |-> {}, preflighted |-> FALSE, local |-> FALSE,
         complete |-> FALSE, signal |-> 0, exit |-> {}]

Init ==
  /\ directories \in Initially
  /\ author = [phase |-> "idle"]
  /\ journals = [key \in Remote \X Coordinate |-> <<>>]
  /\ runs = [r \in Run |-> Idle]
  /\ opened = {}
  /\ foreign = 0

Writes(d, fields) == directories' = [directories EXCEPT ![d] = fields]

\* Another program writes a candidate, or part of one, over what a directory holds.
Replace(d) ==
  /\ foreign < MaxForeign /\ foreign' = foreign + 1
  /\ \E files \in Foreign : files # directories[d] /\ Writes(d, files)
  /\ UNCHANGED <<author, journals, runs, opened>>

-----------------------------------------------------------------------------
(* prepareRelease *)

ReleaseJournalId(source) ==
  [repository |-> Canonical[source.repository], version |-> source.version]

\* Mutant: archives are published at whatever version they have.
AnyArchive(request) == request.archives # {}

\* Every archive is one package, at the version that is released.
Cohort(request) ==
  /\ \A archive \in request.archives : archive.version = request.source.version
  /\ request.archives # {}

\* A trusted publication comes with provenance.
PreparationPolicy(request) ==
  request.authorization = "Trusted" => request.provenance

BundleOf(request) == [source |-> request.source, notes |-> request.notes]

\* Every operation is made of the source that the bundle retains.
PlanOf(request) ==
  [bundle |-> BundleOf(request), journal |-> ReleaseJournalId(request.source),
   publications |->
     {[name |-> archive.name, version |-> archive.version,
       authorization |-> request.authorization, principal |-> NPM_PRINCIPAL,
       provenance |-> IF request.provenance THEN request.source.commit ELSE None] :
      archive \in request.archives},
   tags |-> {[version |-> request.source.version, commit |-> request.source.commit]},
   drafts |-> {request.notes}, repository |-> request.source.repository]

Prepares(fields) == author' = fields /\ UNCHANGED <<journals, runs, opened, foreign>>

\* A directory that exists is never taken over.
Prepare(d, request) ==
  /\ author.phase = "idle"
  /\ PreparationPolicy(request)
  /\ ~ directories[d].made
  /\ Writes(d, [Absent EXCEPT !.made = TRUE])
  /\ Prepares([phase |-> "retaining", directory |-> d, request |-> request])

\* The bytes are retained, and the cohort is checked once they are.
Retain ==
  /\ author.phase = "retaining"
  /\ Writes(author.directory, [directories[author.directory] EXCEPT !.content = @ \cup {BundleOf(author.request)}])
  /\ Prepares([author EXCEPT !.phase = IF Cohort(author.request) THEN "bundle" ELSE "failed"])

\* A file is written only where there is none.
WriteBundle ==
  /\ author.phase = "bundle"
  /\ LET held == directories[author.directory]
     IN  IF held.bundle = {}
         THEN /\ Writes(author.directory, [held EXCEPT !.bundle = {BundleOf(author.request)}])
              /\ Prepares([author EXCEPT !.phase = "plan"])
         ELSE UNCHANGED directories /\ Prepares([author EXCEPT !.phase = "failed"])

WritePlan ==
  /\ author.phase = "plan"
  /\ LET held == directories[author.directory]
     IN  IF held.plan = {}
         THEN /\ Writes(author.directory, [held EXCEPT !.plan = {PlanOf(author.request)}])
              /\ Prepares([author EXCEPT !.phase = "prepared"])
         ELSE UNCHANGED directories /\ Prepares([author EXCEPT !.phase = "failed"])

\* The preparation dies: what it wrote stays, and is never completed.
Abandon ==
  /\ author.phase \in {"retaining", "bundle", "plan"}
  /\ Prepares([author EXCEPT !.phase = "failed"]) /\ UNCHANGED directories

-----------------------------------------------------------------------------
(* createApplication: the release is rebuilt from the directory *)

Steps(r, fields) == runs' = [runs EXCEPT ![r] = fields]
Goes(r, phase) == Steps(r, [runs[r] EXCEPT !.phase = phase])
GoesIf(r, admitted, phase) == Goes(r, IF admitted THEN phase ELSE "failed")
Quiet == UNCHANGED <<directories, author, journals, opened, foreign>>

Asked(r) == runs[r].input
PlanOfRun(r) == CHOOSE plan \in runs[r].plan : TRUE

Invoke(r, input) ==
  /\ runs[r].phase = "idle"
  /\ Steps(r, [phase |-> "bundle", plan |-> {}, preflighted |-> FALSE, local |-> FALSE,
               complete |-> FALSE, signal |-> 0, exit |-> {}, input |-> input])
  /\ Quiet

\* The file is read once, and its hash compared with the hash selected.
ReadBundle(r) ==
  /\ runs[r].phase = "bundle"
  /\ GoesIf(r, directories[Asked(r).directory].bundle = {Asked(r).selected.bundle}, "content")
  /\ Quiet

\* loadBundle verifies all content the bundle names; source and notes are read from it.
ReadContent(r) ==
  /\ runs[r].phase = "content"
  /\ GoesIf(r, Asked(r).selected.bundle \in directories[Asked(r).directory].content, "plan")
  /\ Quiet

\* Mutant: any journal a plan names will do.
PlannedJournal(input, plan) ==
  plan = input.selected.plan /\ plan.bundle = input.selected.bundle

\* Mutant: the plan found there is the plan.
AnyPlan(input, plan) ==
  /\ plan.bundle = input.selected.bundle
  /\ plan.journal = ReleaseJournalId(input.selected.bundle.source)

SelectedPlan(input, plan) ==
  /\ plan = input.selected.plan /\ plan.bundle = input.selected.bundle
  /\ plan.journal = ReleaseJournalId(input.selected.bundle.source)

\* Mutant: the draft's text is not compared with the notes.
NotesApart(plan, source, notes, mode) ==
  /\ plan.publications # {}
  /\ \A intent \in plan.publications :
       /\ intent.version = source.version /\ intent.principal = NPM_PRINCIPAL
       /\ (intent.authorization = "Trusted") <=> (mode = "Trusted")
       /\ intent.provenance \in {None, source.commit}
  /\ plan.repository = source.repository
  /\ plan.tags = {[version |-> source.version, commit |-> source.commit]}
  /\ Cardinality(plan.drafts) = 1

\* publication-policy: what is published is of the source and the notes in the bundle.
PublicationPolicy(plan, source, notes, mode) ==
  /\ plan.publications # {}
  /\ \A intent, other \in plan.publications : intent.name = other.name => intent = other
  /\ \A intent \in plan.publications :
       /\ intent.version = source.version /\ intent.principal = NPM_PRINCIPAL
       /\ (intent.authorization = "Trusted") <=> (mode = "Trusted")
       /\ intent.provenance \in {None, source.commit}
  /\ plan.repository = source.repository
  /\ plan.tags = {[version |-> source.version, commit |-> source.commit]}
  /\ plan.drafts = {notes}

ReadPlan(r) ==
  /\ runs[r].phase = "plan"
  /\ LET bundle == Asked(r).selected.bundle
         admitted == {plan \in directories[Asked(r).directory].plan :
                        /\ SelectedPlan(Asked(r), plan)
                        /\ PublicationPolicy(plan, bundle.source, bundle.notes, Asked(r).mode)}
     IN  Steps(r, [runs[r] EXCEPT !.plan = admitted,
                                  !.phase = IF admitted = {} THEN "failed" ELSE "past bundle"])
  /\ Quiet

\* A candidate of the past is whole too, and of the same journal; its providers do nothing.
ReadPastBundle(r) ==
  /\ runs[r].phase = "past bundle"
  /\ LET held == directories[Asked(r).before]
     IN  GoesIf(r, \A past \in Asked(r).prior :
                     held.bundle = {past.bundle} /\ past.bundle \in held.content, "past plan")
  /\ Quiet

ReadPastPlan(r) ==
  /\ runs[r].phase = "past plan"
  /\ GoesIf(r, \A past \in Asked(r).prior :
                 /\ directories[Asked(r).before].plan = {past.plan}
                 /\ past.plan.bundle = past.bundle
                 /\ past.plan.journal = PlanOfRun(r).journal, "opening")
  /\ Quiet

-----------------------------------------------------------------------------
(* createApplication: the journal, the preflight and the credentials *)

Journal(r) == journals[<<Asked(r).remote, PlanOfRun(r).journal>>]

\* Who may be admitted by a host with this plan and the plans superseded before it.
Host == INSTANCE SharedJournal WITH
  Publication <- Plan, Preparation <- {}, Process <- Run, MaxCalls <- 0, Contexts <- {},
  log <- <<>>, invoked <- <<>>

AdmitsJournal(r) ==
  Host!Admits([publications |-> {PlanOfRun(r)}, preparations |-> {},
               prior |-> {past.plan : past \in Asked(r).prior}], PlanOfRun(r), Journal(r))

Hands(r, secrets, to) == opened' = opened \cup {[secret |-> s, to |-> to, by |-> r] : s \in secrets}

\* The token for the journal: for the release's own repository, none for a local store.
JournalCredential(r) == Hands(r, IF Asked(r).remote = "github" THEN {"github"} ELSE {}, "journal")

OpenJournal(r) ==
  /\ runs[r].phase = "opening"
  /\ GoesIf(r, Asked(r).remote # "elsewhere", IF Asked(r).authorize THEN "preflight" ELSE "local")
  /\ Quiet

Recorded(r, tag) == Host!Tagged(Journal(r), PlanOfRun(r), tag)

\* preflightRelease: the history is admitted, then every request that can be made already;
\* there is none of a plan that is superseded or done.
Preflight(r) ==
  /\ runs[r].phase = "preflight"
  /\ \E requests \in BOOLEAN :
       LET none == Recorded(r, "PlanSuperseded") \/ Recorded(r, "ObservationRecorded")
           admitted == AdmitsJournal(r) /\ (requests \/ none)
       IN  Steps(r, [runs[r] EXCEPT !.phase = IF admitted THEN "local" ELSE "failed",
                                    !.preflighted = admitted])
  /\ JournalCredential(r)
  /\ UNCHANGED <<directories, author, journals, foreign>>

\* Mutant: npm's configuration is read before the requests are admitted.
LocalAtOnce(r) == runs[r].phase \in {"preflight", "local"}

LocalDue(r) == runs[r].phase = "local"

\* npm's configuration is read, if a person is to confirm the publication.
Local(r) ==
  /\ LocalDue(r) /\ ~ runs[r].local /\ Asked(r).mode = "Local"
  /\ \E readable \in BOOLEAN :
       Steps(r, [runs[r] EXCEPT !.local = readable, !.phase = IF readable THEN @ ELSE "failed"])
  /\ Hands(r, {"config"}, "session")
  /\ UNCHANGED <<directories, author, journals, foreign>>

\* executeApplication admits the history once more.
Start(r) ==
  /\ runs[r].phase = "local" /\ (Asked(r).mode = "Local" => runs[r].local)
  /\ GoesIf(r, AdmitsJournal(r), "running")
  /\ JournalCredential(r)
  /\ UNCHANGED <<directories, author, journals, foreign>>

-----------------------------------------------------------------------------
(* The release is run *)

Event(r, tag) == [tag |-> tag, plan |-> PlanOfRun(r), by |-> r]

\* A call of the kernel reads the history and may extend it; one not admitted ends the run.
May(r, tag) == AdmitsJournal(r) /\ Host!Legal(Journal(r), Event(r, tag))

Extends(r, wanted, tag) ==
  LET key == <<Asked(r).remote, PlanOfRun(r).journal>>
  IN  IF wanted /\ May(r, tag)
      THEN /\ Len(Journal(r)) < MaxEvents
           /\ journals' = [journals EXCEPT ![key] = Append(@, Event(r, tag))]
      ELSE UNCHANGED journals

\* Mutant: the registry's secret goes with every request.
AnyMethod(r, intent, method) ==
  IF intent.authorization = "Trusted" THEN {"identity"}
  ELSE IF runs[r].local THEN {"config"} ELSE {"token"}

\* What the registry is shown: nothing to read, and to write what the plan says.
NpmCredentials(r, intent, method) ==
  IF method = "GET" THEN {}
  ELSE IF intent.authorization = "Trusted" THEN {"identity"}
  ELSE IF runs[r].local THEN {"config"}
  ELSE IF Asked(r).mode = "Token" THEN {"token"} ELSE {}

Registry(r, method) ==
  UNION {NpmCredentials(r, intent, method) : intent \in PlanOfRun(r).publications}

\* What was dispatched is seen at the registry and in the repository, and recorded.
Observe(r) ==
  /\ runs[r].phase = "running" /\ Asked(r).task \in {"run", "observe"}
  /\ Extends(r, Recorded(r, "DispatchStarted") /\ ~ Recorded(r, "ObservationRecorded"),
             "ObservationRecorded")
  /\ GoesIf(r, AdmitsJournal(r), IF Asked(r).task = "run" THEN "observed" ELSE "reporting")
  /\ opened' = opened \cup {[secret |-> s, to |-> "registry", by |-> r] : s \in Registry(r, "GET")}
                      \cup {[secret |-> "github", to |-> "repository", by |-> r]}
  /\ UNCHANGED <<directories, author, foreign>>

\* The request is prepared, with its credentials, before its start is recorded.
PrepareRequest(r) ==
  /\ runs[r].phase = "observed"
  /\ LET due == Asked(r).authorize /\ May(r, "DispatchStarted")
     IN  /\ GoesIf(r, AdmitsJournal(r), IF due THEN "prepared" ELSE "reporting")
         /\ Hands(r, IF due THEN Registry(r, "PUT") ELSE {}, "registry")
  /\ UNCHANGED <<directories, author, journals, foreign>>

Dispatch(r) ==
  /\ runs[r].phase = "prepared"
  /\ Extends(r, TRUE, "DispatchStarted")
  /\ GoesIf(r, AdmitsJournal(r), "reporting")
  /\ UNCHANGED <<directories, author, opened, foreign>>

\* A maintainer supersedes the plan, over the same host.
Supersede(r) ==
  /\ runs[r].phase = "running" /\ Asked(r).task = "supersede"
  /\ Extends(r, TRUE, "PlanSuperseded")
  /\ GoesIf(r, AdmitsJournal(r), "reporting")
  /\ UNCHANGED <<directories, author, opened, foreign>>

-----------------------------------------------------------------------------
(* The launcher *)

\* The first signal is kept, and whatever is under way is interrupted.
Interrupt(r, code) ==
  /\ runs[r].phase \notin {"idle", "over"} /\ runs[r].signal = 0
  /\ Steps(r, [runs[r] EXCEPT !.signal = code]) /\ Quiet

Interrupted(r) ==
  /\ runs[r].phase \notin {"idle", "over", "failed"} /\ runs[r].signal # 0
  /\ Goes(r, "failed") /\ Quiet

\* The report is of the history as it is; its plan and revision are the step's outputs.
Report(r) ==
  /\ runs[r].phase = "reporting"
  /\ \E written \in BOOLEAN :
       Steps(r, [runs[r] EXCEPT !.complete = Recorded(r, "ObservationRecorded"),
                   !.phase = IF AdmitsJournal(r) /\ written THEN "reported" ELSE "failed"])
  /\ Quiet

\* Mutant: a report is a success.
ExitCode(r) == runs[r].signal

\* A signal comes before the report, and only a complete publication is a success.
Code(r) ==
  IF runs[r].signal # 0 THEN runs[r].signal
  ELSE IF runs[r].phase = "failed" THEN 1
  ELSE IF runs[r].complete THEN 0 ELSE 2

Exit(r) ==
  /\ runs[r].phase \in {"reported", "failed"}
  /\ Steps(r, [runs[r] EXCEPT !.phase = "over", !.exit = {Code(r)}])
  /\ Quiet

Next ==
  \/ \E d \in Directory : Replace(d) \/ \E request \in Request : Prepare(d, request)
  \/ Retain \/ WriteBundle \/ WritePlan \/ Abandon
  \/ \E r \in Run :
       \/ \E input \in Input[r] : Invoke(r, input)
       \/ ReadBundle(r) \/ ReadContent(r) \/ ReadPlan(r) \/ ReadPastBundle(r) \/ ReadPastPlan(r)
       \/ OpenJournal(r) \/ Preflight(r) \/ Local(r) \/ Start(r)
       \/ Observe(r) \/ PrepareRequest(r) \/ Dispatch(r) \/ Supersede(r)
       \/ (\E code \in Signal[r] : Interrupt(r, code)) \/ Interrupted(r) \/ Report(r) \/ Exit(r)

Spec == Init /\ [][Next]_vars

-----------------------------------------------------------------------------
(* Properties *)

Phases == {"idle", "bundle", "content", "plan", "past bundle", "past plan", "opening", "preflight",
           "local", "running", "observed", "prepared", "reporting", "reported", "failed", "over"}

TypeOK ==
  /\ \A d \in Directory : directories[d].bundle \subseteq Bundle /\ Cardinality(directories[d].plan) <= 1
  /\ author.phase \in {"idle", "retaining", "bundle", "plan", "prepared", "failed"}
  /\ \A key \in DOMAIN journals : Len(journals[key]) <= MaxEvents
  /\ \A r \in Run : runs[r].phase \in Phases /\ Cardinality(runs[r].plan) <= 1
  /\ \A each \in opened : each.by \in Run

Started(remote) ==
  {e \in UNION {{journals[key][i] : i \in DOMAIN journals[key]} :
                key \in {k \in DOMAIN journals : k[1] = remote}} : e.tag = "DispatchStarted"}

\* One release: everything that is published is of the source and notes of one bundle.
OneRelease(plan) ==
  LET source == plan.bundle.source
  IN  /\ \A intent \in plan.publications :
           intent.version = source.version /\ intent.provenance \in {None, source.commit}
      /\ plan.tags = {[version |-> source.version, commit |-> source.commit]}
      /\ plan.drafts = {plan.bundle.notes} /\ plan.repository = source.repository

\* What is dispatched is the plan that its caller selected, and one release, although the files
\* are read one after another while others write them (application.ts); and a preparation
\* that ends has made a candidate that an application admits (prepare.ts).
CandidatesWhole ==
  /\ \A remote \in Remote : \A e \in Started(remote) :
       e.plan = Asked(e.by).selected.plan /\ e.plan.bundle = Asked(e.by).selected.bundle
         /\ OneRelease(e.plan)
  /\ author.phase = "prepared" =>
       LET plan == PlanOf(author.request)
       IN  /\ PublicationPolicy(plan, author.request.source, author.request.notes,
                                author.request.authorization)
           /\ plan.journal = ReleaseJournalId(author.request.source)

\* In one store, one candidate of a public version is ever dispatched: another commit, other
\* notes or another spelling of the repository do not make a new history (releaseJournalId).
OneCandidate ==
  \A remote \in Remote : \A e, f \in Started(remote) :
    ReleaseJournalId(e.plan.bundle.source) = ReleaseJournalId(f.plan.bundle.source) =>
      e.plan = f.plan

\* A registry is shown a secret only by an authorized run whose requests were admitted, and
\* the one its plan was retained for; a person's configuration is not read before; a journal
\* that is local is shown none (createApplication, npmCredentials).
AuthorityAdmitted ==
  \A each \in opened :
    LET r == each.by
    IN  /\ runs[r].plan = {Asked(r).selected.plan}
        /\ each.to = "registry" =>
             /\ Asked(r).authorize /\ runs[r].preflighted
             /\ each.secret = CASE Asked(r).mode = "Trusted" -> "identity"
                                [] Asked(r).mode = "Token" -> "token"
                                [] Asked(r).mode = "Local" -> "config"
        /\ each.to = "session" => (Asked(r).authorize => runs[r].preflighted)
        /\ each.to = "journal" => Asked(r).remote = "github"

\* A workflow step succeeds only if the journal holds the publication of the plan it was
\* asked for, and no signal came before (runActionEnvironment, runInterruptibleProcess).
SuccessTrue ==
  \A r \in Run : runs[r].exit = {0} =>
    /\ runs[r].signal = 0 /\ runs[r].plan = {Asked(r).selected.plan}
    /\ Recorded(r, "ObservationRecorded")
=============================================================================
