--------------------------------- MODULE Hosts ---------------------------------
(***************************************************************************)
(* The machines a host is made of, side by side.  They share no state:     *)
(* each behaviour is of one of them (on), and the variables of the others  *)
(* stay Off, so the states are the sum of the machines' states.            *)
(***************************************************************************)
EXTENDS Naturals

CONSTANTS
  Endpoint, Principal, Secure, Durable, Live, Issued, Provider, Owns,
  MaxResponse, MaxWire,                                      \* HttpTransport
  Upstream, Https, MaxOutput, MaxWritten,                    \* NativeProcess
  Writing, Operation, OperationOf, Caller, MaxChallenges, Serial,  \* LocalAuthentication
  WorkflowRun, IssuerKey, Key, MaxTime,                      \* Credentials
  Restorer, Entries, MaxOccupied,                            \* TreeRestore
  Signed, Runner, MaxSubmissions,                            \* ApplePreparation
  Publication, Preparation, Process, Contexts, MaxCalls, MaxEvents,  \* SharedJournal
  Watched, Selected, Budget, FirstDelay, LastDelay, Late, MaxObservations,  \* BoundedObservation
  Canonical, Commit, Version, Notes, Package, Preparing, Planned, Directory, Initially,
  Intruding, Run, Input, Signal, MaxIntruded, MaxReleased    \* SelfRelease

VARIABLES on, call, command, system, session, callers, now, grant, disk, restorer,
  journal, apple, store, runner, publication, log, invoked, time, history, sweep,
  pushes, directories, author, journals, runs, opened, foreign

Off == "off"

Http == INSTANCE HttpTransport WITH Registered <- Issued
Native == INSTANCE NativeProcess WITH Remote <- Upstream
Npm == INSTANCE LocalAuthentication WITH Request <- Writing
Auth == INSTANCE Credentials WITH Run <- WorkflowRun
Tree == INSTANCE TreeRestore WITH MaxForeign <- MaxOccupied
Apple == INSTANCE ApplePreparation WITH Preparation <- Signed
Shared == INSTANCE SharedJournal
Bounded == INSTANCE BoundedObservation WITH
  Operation <- Watched, MaxEvents <- MaxObservations
Self == INSTANCE SelfRelease WITH
  Request <- Preparing, Plan <- Planned, Foreign <- Intruding, MaxForeign <- MaxIntruded,
  MaxEvents <- MaxReleased

ASSUME HostAssumptions ==
  /\ Http!HttpAssumption /\ Native!ProcessAssumption /\ Npm!LocalAssumption
  /\ Auth!CredentialsAssumption /\ Tree!RestoreAssumption /\ Apple!AppleAssumption
  /\ Shared!SharedAssumption /\ Bounded!ObservationAssumption
  /\ Self!SelfReleaseAssumption

http == call
process == <<command, system>>
npm == <<session, callers>>
auth == <<now, grant>>
tree == <<disk, restorer>>
preparing == <<journal, apple, store, runner, publication>>
shared == <<log, invoked>>
observing == <<time, history, sweep, pushes>>
releasing == <<directories, author, journals, runs, opened, foreign>>
vars == <<on, http, process, npm, auth, tree, preparing, shared, observing, releasing>>

Init ==
  /\ on \in {"http", "process", "npm", "auth", "tree", "apple", "shared", "observing",
            "self"}
  /\ IF on = "http" THEN Http!Init ELSE call = Off
  /\ IF on = "process" THEN Native!Init ELSE command = Off /\ system = Off
  /\ IF on = "npm" THEN Npm!Init ELSE session = Off /\ callers = Off
  /\ IF on = "auth" THEN Auth!Init ELSE now = Off /\ grant = Off
  /\ IF on = "tree" THEN Tree!Init ELSE disk = Off /\ restorer = Off
  /\ IF on = "apple" THEN Apple!Init
     ELSE journal = Off /\ apple = Off /\ store = Off /\ runner = Off /\ publication = Off
  /\ IF on = "shared" THEN Shared!Init ELSE log = Off /\ invoked = Off
  /\ IF on = "observing" THEN Bounded!Init
     ELSE time = Off /\ history = Off /\ sweep = Off /\ pushes = Off
  /\ IF on = "self" THEN Self!Init
     ELSE directories = Off /\ author = Off /\ journals = Off /\ runs = Off /\ opened = Off
            /\ foreign = Off

OfHttp(A) ==
  /\ on = "http" /\ A
  /\ UNCHANGED <<on, process, npm, auth, tree, preparing, shared, observing, releasing>>

OfProcess(A) ==
  /\ on = "process" /\ A
  /\ UNCHANGED <<on, http, npm, auth, tree, preparing, shared, observing, releasing>>

Next ==
  \/ OfHttp(Http!Next)
  \/ OfProcess(Native!Next)
  \/ /\ on = "npm" /\ Npm!Next
     /\ UNCHANGED <<on, http, process, auth, tree, preparing, shared, observing, releasing>>
  \/ /\ on = "auth" /\ Auth!Next
     /\ UNCHANGED <<on, http, process, npm, tree, preparing, shared, observing, releasing>>
  \/ /\ on = "tree" /\ Tree!Next
     /\ UNCHANGED <<on, http, process, npm, auth, preparing, shared, observing, releasing>>
  \/ /\ on = "apple" /\ Apple!Next
     /\ UNCHANGED <<on, http, process, npm, auth, tree, shared, observing, releasing>>
  \/ /\ on = "shared" /\ Shared!Next
     /\ UNCHANGED <<on, http, process, npm, auth, tree, preparing, observing, releasing>>
  \/ /\ on = "observing" /\ Bounded!Next
     /\ UNCHANGED <<on, http, process, npm, auth, tree, preparing, shared, releasing>>
  \/ /\ on = "self" /\ Self!Next
     /\ UNCHANGED <<on, http, process, npm, auth, tree, preparing, shared, observing>>

\* The fairness of the two machines that have one.
Fairness ==
  /\ WF_vars(OfHttp(Http!Deadline)) /\ WF_vars(OfHttp(Http!SocketCloses))
  /\ WF_vars(OfHttp(Http!Cleanup(FALSE)))
  /\ WF_vars(OfHttp(\E clean \in BOOLEAN : Http!Return(clean)))
  /\ WF_vars(OfProcess(Native!Die)) /\ WF_vars(OfProcess(Native!Timeout))
  /\ WF_vars(OfProcess(Native!Close))
  /\ \A pipe \in {"stdout", "stderr"} : WF_vars(OfProcess(Native!Output(pipe)))

Spec == Init /\ [][Next]_vars /\ Fairness

-----------------------------------------------------------------------------
TypeOK ==
  /\ on = "http" => Http!TypeOK
  /\ on = "process" => Native!TypeOK
  /\ on = "npm" => Npm!TypeOK
  /\ on = "auth" => Auth!TypeOK
  /\ on = "tree" => Tree!TypeOK
  /\ on = "apple" => Apple!TypeOK
  /\ on = "shared" => Shared!TypeOK
  /\ on = "observing" => Bounded!TypeOK
  /\ on = "self" => Self!TypeOK

\* A response that is passed on, and the output of a program that succeeded, are all that
\* the other side wrote, within their bounds; and when a call is over nothing of it goes on:
\* no socket, client, timer or process, and no process in a directory that was removed
\* (HttpTransport.ts nativeRequest, Process.ts).
CallsClean ==
  /\ on = "http" => Http!ResponsesWhole /\ Http!NothingLeft
  /\ on = "process" => Native!OutputWhole /\ Native!DirectoryHeld

\* Every call that was sent and every command that was started returns, whatever the other
\* side does (the deadlines of HttpTransport.ts and Process.ts).
CallsEnd ==
  /\ (on = "http" /\ call.phase = "waiting") ~> (on = "http" /\ call.phase = "returned")
  /\ (on = "process" /\ command.phase = "running")
       ~> (on = "process" /\ command.phase = "returned")

\* A credential reaches only the endpoint, principal and operation it is for, and a registry
\* only an identity that GitHub signed for it and for this run, alive when verified; a one-time
\* password leaves once, for the request whose challenge it answers, and what can still be read of
\* challenges and passwords is held or in flight (authorize and credentialToken, the
\* providers' Auth.ts, GithubOidc.ts, LocalAuthentication.ts).
SecretsKept ==
  /\ on = "http" => Http!CredentialsBound
  /\ on = "auth" => Auth!CredentialsPlaced /\ Auth!IdentitiesVerified
  /\ on = "npm" => Npm!PasswordsSpentOnce /\ Npm!SecretsErased
  /\ on = "self" => Self!AuthorityAdmitted

\* A product is whole: a destination receives one whole tree or nothing, over nothing of
\* anybody's, and no staging directory stays but of a call that died removing it; an Apple source is submitted once, carries the
\* ticket of its own accepted submission, and ships as the one output selected
\* (EffectBuild.ts restoreTree; apple/Preparation.ts).
ProductsWhole ==
  /\ on = "tree" => Tree!RestoredWhole /\ Tree!StagingRemoved
  /\ on = "apple" => Apple!TicketsGenuine /\ Apple!SubmittedOnce /\ Apple!SelectedShipped
  /\ on = "self" => Self!CandidatesWhole

\* However processes that share a journal are configured, at most one publication plan ever
\* has a dispatch in it, and some configuration still admits what was written (Host.ts read,
\* Release.ts supersedePlan).
OnePublication ==
  /\ on = "shared" => Shared!OnePublication /\ Shared!StaysAdmissible
  /\ on = "self" => Self!OneCandidate

\* The report of a bounded observation has all that the call recorded until its interrupted
\* sweep was joined, each observation once, though the push that the deadline cut off may be
\* applied later (Application.ts observeApplication, GitJournal.ts append); and a release
\* succeeds only with its plan observed (apps/self-release).
ReportTrue ==
  /\ on = "observing" => Bounded!ReportTrue
  /\ on = "self" => Self!SuccessTrue
=============================================================================
