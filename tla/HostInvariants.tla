----------------------------- MODULE HostInvariants -----------------------------
(***************************************************************************)
(* What holds of each machine of a host at every step, strong enough to be *)
(* kept by each of its actions.                                            *)
(***************************************************************************)
EXTENDS Hosts, Sequences

-----------------------------------------------------------------------------
(* One HTTP call *)

Calls ==
  [phase : {"new", "admitted", "prepared", "waiting", "closing", "returned", "refused"},
   facts : Http!Facts, fields : SUBSET (Durable \cup Live), finished : BOOLEAN, timer : BOOLEAN,
   client : {"none", "open", "destroyed"},
   socket : {"none", "pending", "open", "closing", "closed"}, final : BOOLEAN,
   body : Nat, wire : Nat, server : Nat, over : BOOLEAN,
   result : {"none", "unknown", "interrupted", "whole"},
   told : SUBSET (Endpoint \X (Durable \cup Live))]

\* While nothing ended the call both bounds hold, and what ended it by the end of the
\* response is never changed by bytes that come later.
ResponseKept ==
  /\ ~ call.finished => call.result = "none" /\ call.body <= MaxResponse /\ call.wire <= MaxWire
  /\ call.result = "whole" =>
       call.over /\ call.final /\ call.server = 0
         /\ call.body <= MaxResponse /\ call.wire <= MaxWire

\* A call that is closing has let go of everything but a socket about to close.
HandlesKept ==
  /\ call.phase \in {"new", "admitted", "prepared", "refused"} =>
       call.socket = "none" /\ ~ call.timer
  /\ call.phase \in {"closing", "returned"} =>
       /\ call.finished /\ call.client = "destroyed" /\ ~ call.timer
       /\ call.socket \in {"none", "closing", "closed"}
  /\ call.phase = "returned" => call.socket # "closing"

\* The live headers of the request, and for whom they are.
Lawful(field) ==
  field \in Live =>
    /\ call.facts.endpoint \in Secure
    /\ \/ call.facts.kind = "exchange"
       \/ \E a \in DOMAIN Issued :
            /\ a = [endpoint |-> call.facts.endpoint, principal |-> call.facts.principal]
            /\ field \in Issued[a]

HeadersKept ==
  /\ call.phase \in {"admitted", "prepared", "waiting", "closing", "returned"} =>
       Http!Admissible(call.facts)
  /\ call.phase \in {"new", "admitted", "prepared", "refused"} => call.told = {}
  /\ \A field \in call.fields : Lawful(field)
  /\ call.told \subseteq {call.facts.endpoint} \X call.fields

HttpInv == call \in Calls /\ ResponseKept /\ HandlesKept /\ HeadersKept

-----------------------------------------------------------------------------
(* One native program *)

Commands ==
  [phase : {"idle", "ready", "running", "stopping", "returned"}, remote : Upstream,
   secret : BOOLEAN, timer : BOOLEAN, finished : BOOLEAN, failed : BOOLEAN, bytes : Nat,
   stdout : Nat, result : {"none", "success", "rejected", "failed", "interrupted"}]
Systems ==
  [child : {"none", "running", "exited"}, helper : {"none", "running", "exited"},
   killed : BOOLEAN, directory : {"none", "there", "removed"}, out : Nat, err : Nat,
   wrote : Nat, code : {"none", "failure", "zero", "nonzero", "signal"}]

\* What was written is in the pipes or was counted, and beyond the bound the call fails.
OutputCounted ==
  /\ command.bytes + system.out + system.err = system.wrote
  /\ ~ command.failed => command.bytes <= MaxOutput

\* Processes live from the start of the call to its end, and the directory is there.
ProgramsHeld ==
  /\ Native!Alive => command.phase \in {"running", "stopping"}
  /\ command.timer => command.phase = "running"
  /\ system.directory = "removed" => command.phase = "returned"

\* What the close told is so for ever.
CloseKept ==
  /\ command.phase \in {"idle", "ready", "running", "stopping"} =>
       command.result = "none" /\ ~ command.finished
  /\ command.result \in {"success", "rejected"} =>
       /\ command.finished /\ ~ command.failed
       /\ Native!Empty /\ system.code # "signal"

NativeInv ==
  command \in Commands /\ system \in Systems /\ OutputCounted /\ ProgramsHeld /\ CloseKept

-----------------------------------------------------------------------------
(* One destination of restored trees *)

Disks ==
  [destination : [is : {"nothing", "empty", "files", "tree"}, by : Restorer \cup {"other", "none"}],
   staging : [Restorer -> 0..Entries + 1], locked : SUBSET Restorer, lost : BOOLEAN,
   foreign : Nat]
Restoring ==
  [phase : {"called", "checked", "staging", "verified", "claimed", "cleaning", "returned",
            "dead"},
   sound : BOOLEAN, result : {"none", "failed", "restored", "defect"}]

\* A tree at the destination was verified by one who writes no more, and nobody replaces it.
TreeStands ==
  /\ ~ disk.lost
  /\ \A r \in Restorer : restorer[r].phase \in {"verified", "claimed"} => restorer[r].sound
  /\ disk.destination.is = "tree" =>
       /\ disk.destination.by \in Restorer /\ restorer[disk.destination.by].sound
       /\ restorer[disk.destination.by].phase \in {"cleaning", "returned", "dead"}
  /\ \A r \in Restorer :
       restorer[r].result = "restored" =>
         /\ disk.destination.is = "tree" /\ disk.destination.by = r
         /\ restorer[r].phase \in {"cleaning", "returned"}

StagingKept ==
  \A r \in Restorer :
    \/ restorer[r].phase \in {"called", "checked"}
    \/ restorer[r].phase = "returned" /\ restorer[r].result # "defect"
    => disk.staging[r] = 0

TreeInv ==
  disk \in Disks /\ restorer \in [Restorer -> Restoring] /\ TreeStands /\ StagingKept

-----------------------------------------------------------------------------
(* One collection of Apple sources *)

Journals ==
  [started : SUBSET Signed, receipts : SUBSET (Signed \X Apple!Number), rejected : SUBSET Signed,
   selected : SUBSET Apple!Output]
Services ==
  [sent : 0..MaxSubmissions, source : [Apple!Number -> Signed \cup {"none", "elsewhere"}],
   status : [Apple!Number -> {"none", "InProgress", "Accepted", "Rejected"}]]
Runners ==
  [phase : {"idle", "submitting", "answered", "recorded", "accepted", "stapled", "adopted"},
   of : Signed \cup {"none"}, number : 0..MaxSubmissions,
   output : Apple!Output \cup {Apple!NoOutput}]

\* What Apple was sent it has, and decides once; a source is sent by the one runner that
\* started it.
SubmissionsKept ==
  /\ \A n \in Apple!Number :
       /\ n > apple.sent <=> apple.source[n] = "none"
       /\ apple.source[n] = "none" <=> apple.status[n] = "none"
  /\ \A n \in Apple!Number : apple.source[n] \in Signed => apple.source[n] \in journal.started
  /\ \A m, n \in Apple!Number :
       apple.source[m] \in Signed /\ apple.source[m] = apple.source[n] => m = n
  /\ \A r \in Runner :
       runner[r].phase = "submitting" =>
         /\ runner[r].of \in journal.started
         /\ \A n \in Apple!Number : apple.source[n] # runner[r].of
         /\ \A other \in Runner :
              runner[other].phase = "submitting" /\ runner[other].of = runner[r].of => other = r

\* The number of a submission leads to its source, wherever it is remembered.
Holds(number, source) == number \in Apple!Number /\ apple.source[number] = source
Ticketed(number, source) == Holds(number, source) /\ apple.status[number] = "Accepted"
NumbersKept ==
  /\ \A receipt \in journal.receipts : Holds(receipt[2], receipt[1])
  /\ \A r \in Runner :
       /\ runner[r].phase # "idle" => runner[r].of \in Signed
       /\ runner[r].phase = "answered" => Holds(runner[r].number, runner[r].of)
       /\ runner[r].phase = "accepted" => Ticketed(runner[r].number, runner[r].of)
       /\ runner[r].phase \in {"stapled", "adopted"} =>
            /\ runner[r].output \in Apple!Output /\ runner[r].output.of = runner[r].of
            /\ Ticketed(runner[r].output.ticket, runner[r].of)
  /\ \A output \in journal.selected : output \in store /\ Ticketed(output.ticket, output.of)

\* One output of a source is selected, and a valid publication has them all.
SelectionKept ==
  /\ \A one, other \in journal.selected : one.of = other.of => one = other
  /\ publication.valid =>
       /\ Apple!HasSelected(publication.bundle)
       /\ \A one, other \in publication.bundle : one.of = other.of => one = other

\* What runners stored, and a publication of it.
ProductsStored ==
  store \subseteq Apple!Output /\ publication.bundle \subseteq store /\ publication.valid \in BOOLEAN

AppleInv ==
  /\ journal \in Journals /\ apple \in Services /\ runner \in [Runner -> Runners]
  /\ SubmissionsKept /\ NumbersKept /\ SelectionKept

-----------------------------------------------------------------------------
(* The credentials of one request *)

Grants ==
  [phase : {"asked", "admitted", "checked", "asking", "identified", "keyed", "verified",
            "exchanging", "exchanged", "granted", "refused"},
   ask : Auth!Ask, token : SUBSET Auth!Token, keys : SUBSET [kid : Key, key : IssuerKey],
   credential : SUBSET Auth!Time, verified : Auth!Time,
   told : SUBSET [secret : {"token", "request", "identity", "credential"},
                  to : {"write", "observe", "runner", "npm", "pypi", "mcp", "github"},
                  at : Auth!Time]]

\* Past the admission the operation is bound, and past the environment the run is GitHub's.
BindingKept ==
  /\ grant.phase \in {"admitted", "checked", "asking", "identified", "keyed", "verified",
                      "exchanging", "exchanged"} => Auth!BoundToOperation(grant.ask)
  /\ grant.phase \in {"checked", "asking", "identified", "keyed", "verified", "exchanging",
                      "exchanged"} =>
       grant.ask.environment.github /\ grant.ask.environment.run = grant.ask.claimed

IdentityGood ==
  \A token \in grant.token :
    /\ token.signer \in IssuerKey /\ token.aud = grant.ask.registry
    /\ token.run = grant.ask.environment.run
    /\ token.from <= grant.verified /\ grant.verified < token.until

GrantKept ==
  /\ grant.phase \in {"identified", "keyed"} => \E token \in Auth!Token : grant.token = {token}
  /\ grant.phase \in {"verified", "exchanging", "exchanged"} =>
       IdentityGood /\ grant.verified <= now
  /\ grant.phase = "exchanged" => \E until \in Auth!Time : grant.credential = {until}

\* What was told stays as it was when it was told.
ToldKept ==
  \A t \in grant.told :
    /\ t.secret = "identity" =>
         /\ grant.phase \in {"exchanging", "exchanged", "granted", "refused"}
         /\ IdentityGood /\ t.to = grant.ask.registry /\ grant.verified <= t.at
    /\ t.secret \in {"token", "credential"} =>
         /\ grant.phase = "granted" /\ Auth!BoundToOperation(grant.ask)
         /\ t.to = grant.ask.binding.endpoint
    /\ t.secret = "request" => t.to = "runner" /\ grant.ask.environment.github
    /\ t.secret = "credential" /\ grant.ask.registry = "mcp" =>
         \A until \in grant.credential : t.at < until

AuthInv == now \in Auth!Time /\ grant \in Grants /\ BindingKept /\ GrantKept /\ ToldKept

-----------------------------------------------------------------------------
(* One npm session *)

Passwords == [for : Writing, of : Npm!Challenge]
Sessions ==
  [closed : BOOLEAN, challenges : SUBSET Npm!Challenge, passwords : SUBSET Passwords,
   made : SUBSET Npm!Challenge, readable : SUBSET (Npm!Challenge \cup Passwords),
   sent : SUBSET [request : Writing, of : Npm!Challenge, again : BOOLEAN]]
Callers ==
  {Npm!Idle} \cup [doing : {"resolving"}, request : Writing]
    \cup [doing : {"notifying", "polling", "waiting"}, challenge : Npm!Challenge]

Completing(c) == callers[c].doing \in {"notifying", "polling", "waiting"}
InFlight == {callers[c].challenge : c \in {d \in Caller : Completing(d)}}

\* A challenge is in one place: kept, with one completion, in its password, or spent.
OnePlace ==
  /\ InFlight \cap session.challenges = {}
  /\ \A c, d \in Caller :
       Completing(c) /\ Completing(d) /\ callers[c].challenge = callers[d].challenge => c = d
  /\ \A p \in session.passwords :
       /\ p.for = p.of.request /\ p.of \in session.made
       /\ p.of \notin session.challenges \cup InFlight
  /\ \A s \in session.sent :
       /\ s.of.request = s.request /\ ~ s.again /\ s.of \in session.made
       /\ s.of \notin session.challenges \cup InFlight
       /\ \A p \in session.passwords : p.of # s.of
  /\ session.challenges \cup InFlight \subseteq session.made

NpmInv ==
  /\ session \in Sessions /\ callers \in [Caller -> Callers]
  /\ OnePlace /\ Npm!SecretsErased

-----------------------------------------------------------------------------
(* One bounded observation *)

Observed == [of : {Watched[i] : i \in DOMAIN Watched}, status : Bounded!Status, id : Nat]
Sweeps ==
  [phase : {"checking", "observing", "appending", "pushing", "reading", "looking", "sleeping",
            "settling", "reconciling", "returned", "failed"},
   at : Nat, delay : Nat, wake : 0..Budget, report : Nat, failed : BOOLEAN,
   joined : SUBSET Nat, event : Observed]

\* A push that may land is of the event under way, and that event is recorded nowhere yet.
PushesKept ==
  /\ \A push \in pushes :
       push.event = sweep.event /\ sweep.event.id # 0 /\ push.rev <= Len(history)
  /\ pushes # {} => ~ Bounded!Recorded(sweep.event)
  /\ \A i \in DOMAIN history : history[i].id <= sweep.event.id
  /\ \A i, j \in DOMAIN history : history[i].id # 0 /\ history[i].id = history[j].id => i = j

\* Between two operations no push is left, and between two sweeps this call recorded nothing
\* the report does not have; after a join only the event that was under way may come.
ReportKept ==
  /\ sweep.phase \in {"observing", "appending", "pushing"} => sweep.at >= 1
  /\ sweep.phase \in {"appending", "pushing"} => sweep.event.id # 0
  /\ sweep.failed => sweep.phase = "failed"
  /\ sweep.joined # {} => sweep.phase \in {"reconciling", "returned", "failed"}
  /\ sweep.phase = "reconciling" => sweep.joined # {}
  /\ sweep.phase \notin {"appending", "pushing", "settling", "failed"} /\ sweep.joined = {} =>
       pushes = {}
  /\ sweep.phase \in {"checking", "looking", "sleeping", "returned"} =>
       \A i \in DOMAIN history :
         history[i].id # 0 /\ i > sweep.report =>
           \E joined \in sweep.joined : i > joined /\ history[i] = sweep.event
  /\ \A joined \in sweep.joined : joined <= Len(history)

\* The clock stops when the call is late enough, and a report is of a history that there is.
ReportBounded == time <= Budget + Late /\ sweep.report <= Len(history)

ObservingInv ==
  /\ time \in Nat /\ history \in Seq(Observed) /\ sweep \in Sweeps
  /\ pushes \subseteq [rev : Nat, event : Observed]
  /\ PushesKept /\ ReportKept

-----------------------------------------------------------------------------
(* Journals of several plans *)

GivenUp(events, plan, last) ==
  /\ \E i \in 1..last : events[i].plan = plan /\ events[i].tag = "PlanSuperseded"
  /\ ~ \E i \in 1..last : events[i].plan = plan /\ events[i].tag = "DispatchStarted"

\* What the plan of an event may do, and that every other plan had been given up.
Follows(events, last, event, plans) ==
  /\ event.tag = "DispatchStarted" =>
       ~ \E i \in 1..last :
           events[i].plan = event.plan /\ events[i].tag \in {"DispatchStarted", "PlanSuperseded"}
  /\ event.tag = "PlanSuperseded" =>
       ~ \E i \in 1..last : events[i].plan = event.plan /\ events[i].tag = "PlanSuperseded"
  /\ event.plan \in plans =>
       \A i \in 1..last :
         events[i].plan \in plans \ {event.plan} => GivenUp(events, events[i].plan, last)

OneActive(events, plans) ==
  \A k \in DOMAIN events : Follows(events, k - 1, events[k], plans)

Invoked ==
  [phase : {"idle"}, calls : 0..MaxCalls]
    \cup [phase : {"reading", "appending", "ambiguous", "owned"}, calls : 0..MaxCalls,
          context : Contexts, revision : Nat, event : Shared!Event]

\* What is about to be appended was admitted after the history that it would follow.
SharedInv ==
  /\ log \in Seq(Shared!Event) /\ OneActive(log, Publication)
  /\ invoked \in [Process -> Invoked]
  /\ \A p \in Process :
       invoked[p].phase = "appending" =>
         /\ invoked[p].revision <= Len(log)
         /\ Follows(log, invoked[p].revision, invoked[p].event, Publication)

-----------------------------------------------------------------------------
(* The release of this repository's own packages *)

Authors ==
  [phase : {"retaining", "bundle", "plan", "prepared", "failed"}, directory : Directory,
   request : Preparing]
SignalCodes == {0, 130, 143}
ExitCodes == {0, 1, 2, 130, 143}
Asking == UNION {Input[r] : r \in Run}
Invocations ==
  [phase : Self!Phases \ {"idle"}, plan : SUBSET Planned, preflighted : BOOLEAN, local : BOOLEAN,
   complete : BOOLEAN, signal : SignalCodes, exit : SUBSET ExitCodes,
   input : Asking]
Recordings ==
  [tag : {"DispatchStarted", "ObservationRecorded", "PlanSuperseded"}, plan : Planned, by : Run]
Handed ==
  [secret : {"github", "config", "token", "identity"},
   to : {"journal", "session", "registry", "repository"}, by : Run]

\* What is asked for is admitted before it is retained, and the archives before the bundle.
AuthorKept ==
  /\ author \in {[phase |-> "idle"]} \cup Authors
  /\ author.phase # "idle" => Self!PreparationPolicy(author.request)
  /\ author.phase \in {"bundle", "plan", "prepared"} => Self!Cohort(author.request)

\* A plan that was read is the one selected, and is of the bundle's source and notes.
PlanKept(run) ==
  /\ run.phase \in {"idle", "bundle", "content", "plan"} => run.plan = {}
  /\ run.phase \in {"past bundle", "past plan", "opening", "preflight", "local", "running",
                    "observed", "prepared", "reporting", "reported"} => run.plan # {}
  /\ run.plan # {} =>
       LET selected == run.input.selected
       IN  /\ run.plan = {selected.plan} /\ Self!SelectedPlan(run.input, selected.plan)
           /\ Self!PublicationPolicy(selected.plan, selected.bundle.source,
                                     selected.bundle.notes, run.input.mode)

\* From the preflight on the journal is one that there is, and who is authorized was admitted.
PreflightKept(run) ==
  /\ run.phase \in {"preflight", "local", "running", "observed", "prepared", "reporting",
                    "reported"} => run.input.remote \in Self!Remote
  /\ run.phase \in {"bundle", "content", "plan", "past bundle", "past plan", "opening",
                    "preflight"} => ~ run.preflighted
  /\ run.phase \in {"local", "running", "observed", "prepared", "reporting", "reported"}
       /\ run.input.authorize => run.preflighted
  /\ run.local => run.input.mode = "Local"

\* A success was recorded in the journal.
ExitKept(r) ==
  /\ runs[r].complete =>
       runs[r].plan # {} /\ runs[r].input.remote \in Self!Remote
         /\ Self!Recorded(r, "ObservationRecorded")
  /\ runs[r].exit # {} => runs[r].phase = "over"
  /\ runs[r].exit = {0} => runs[r].signal = 0 /\ runs[r].complete

RunKept(r) ==
  /\ runs[r] \in {Self!Idle} \cup Invocations
  /\ runs[r].phase # "idle" =>
       runs[r].input \in Input[r] /\ PlanKept(runs[r]) /\ PreflightKept(runs[r])
  /\ ExitKept(r)

\* Each journal is of one version, and of the runs that were given its plans.
JournalsKept ==
  /\ journals \in [Self!Remote \X Self!Coordinate -> Seq(Recordings)]
  /\ \A key \in Self!Remote \X Self!Coordinate :
       /\ OneActive(journals[key], Planned) /\ Len(journals[key]) <= MaxReleased
       /\ \A i \in DOMAIN journals[key] :
            LET event == journals[key][i]
            IN  event.plan.journal = key[2] /\ runs[event.by].plan = {event.plan}

SelfInv ==
  /\ directories \in [Directory -> Self!Files] /\ AuthorKept
  /\ runs \in [Run -> {Self!Idle} \cup Invocations] /\ \A r \in Run : RunKept(r)
  /\ JournalsKept
  /\ opened \subseteq Handed /\ Self!AuthorityAdmitted

-----------------------------------------------------------------------------
(* The host *)

\* Each machine keeps its own.
HostInv ==
  /\ on = "http" => HttpInv
  /\ on = "process" => NativeInv
  /\ on = "npm" => NpmInv
  /\ on = "auth" => AuthInv
  /\ on = "tree" => TreeInv
  /\ on = "apple" => AppleInv /\ ProductsStored
  /\ on = "shared" => SharedInv
  /\ on = "observing" => ObservingInv /\ ReportBounded
  /\ on = "self" => SelfInv
=============================================================================
