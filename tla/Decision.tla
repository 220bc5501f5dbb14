------------------------------- MODULE Decision -------------------------------
(***************************************************************************)
(* The laws of one plan's history: what a sequence of journal events says  *)
(* about an operation, whether another dispatch of it would be lawful and  *)
(* on which basis, and which event the history may be extended with.       *)
(* Pure operators over a sequence of events; packages/ts-release/src/      *)
(* internal/Decision.ts and the evidence checks of src/Journal.ts.         *)
(*                                                                         *)
(* A dispatch has no identity of its own here: the code derives it from    *)
(* the identity of its DispatchStarted event (Release.ts:274), so that     *)
(* event's id names it.  The fingerprint of a request is a hash of its     *)
(* facts, so a request stands for both.                                    *)
(***************************************************************************)
EXTENDS Naturals, Sequences, FiniteSets

CONSTANTS
  Op,          \* the operations of the plan
  DependsOn,   \* Op -> SUBSET Op, acyclic (Plan.ts validateDag)
  Request,     \* the requests providers may prepare
  Protected,   \* those a Git compare-and-swap protects
  ReceiptAware,\* operations whose observer reads accepted receipts (not Git's)
  Id,          \* event identities (Host.uniqueId)
  DecisionId,  \* identities of risk decisions, chosen by the host
  Time,        \* the readings of Host.now
  Output,      \* what satisfied evidence may select
  Scope        \* "PublicationScope" or "PreparationScope"

ASSUME DecisionAssumption ==
  /\ DependsOn \in [Op -> SUBSET Op]
  /\ Protected \subseteq Request
  /\ ReceiptAware \subseteq Op
  /\ Time \subseteq Nat
  /\ Scope \in {"PublicationScope", "PreparationScope"}
  \* A preparation is one operation (Host.ts:94-106).
  /\ Scope = "PreparationScope"
       => \A o, k \in Op : o = k /\ DependsOn[o] = {}

-----------------------------------------------------------------------------
(* Events *)

NoOutput == "no output"

Basis ==
  [kind : {"Initial"}]
    \cup [kind : {"NonCommit", "ProtectedReplay"}, ids : SUBSET Id]
    \cup [kind : {"AcceptedRisk"}, decision : DecisionId]

\* What an observer reports of the remote system, before it is classified.
View == {"Present", "Foreign", "Missing", "Unavailable"}

ObservationStatus ==
  {"Satisfied", "Conflict", "Pending", "Inconclusive", "Absent"}

StartEvent ==
  [tag : {"DispatchStarted"}, id : Id, op : Op, request : Request,
   at : Time, basis : Basis]

ReceiptEvent ==
  [tag : {"ReceiptAccepted"}, id : Id, dispatch : Id,
   status : {"Satisfied", "Pending"}, out : Output \cup {NoOutput}]

RejectionEvent ==
  [tag : {"DispatchRejectedBeforeCommit"}, id : Id, dispatch : Id]

ObservationEvent ==
  [tag : {"ObservationRecorded"}, id : Id, op : Op, view : View,
   status : ObservationStatus, out : Output \cup {NoOutput}]

\* The observation runRelease records when a send has no admissible outcome.
DispatchErrorEvent ==
  [tag : {"DispatchError"}, id : Id, op : Op, dispatch : Id,
   status : {"Inconclusive"}]

RiskEvent ==
  [tag : {"RiskAccepted"}, id : Id, op : Op, decision : DecisionId,
   request : Request, prior : SUBSET Id, expires : Time]

SupersededEvent == [tag : {"PlanSuperseded"}, id : Id]

Event ==
  StartEvent \cup ReceiptEvent \cup RejectionEvent \cup ObservationEvent
    \cup DispatchErrorEvent \cup RiskEvent \cup SupersededEvent

-----------------------------------------------------------------------------
(* What a history says of an operation.  Facts are sets of positions.      *)

Ids(j) == {j[i].id : i \in DOMAIN j}

Starts(j, o) == {i \in DOMAIN j : j[i].tag = "DispatchStarted" /\ j[i].op = o}

\* Evidence counts for o when a start of o precedes it and it names that start.
EvidenceOf(j, o, t) ==
  {i \in DOMAIN j :
    /\ j[i].tag = t
    /\ \E s \in Starts(j, o) : s < i /\ j[s].id = j[i].dispatch}

\* Mutant: only a completed acceptance counts as a receipt.
CompletedReceipts(j, o) ==
  {i \in EvidenceOf(j, o, "ReceiptAccepted") : j[i].status = "Satisfied"}

Receipts(j, o) == EvidenceOf(j, o, "ReceiptAccepted")

StartIds(j, o) == {j[s].id : s \in Starts(j, o)}

\* Mutant: an error during the send is taken for a rejection.
RejectedOrFailedIds(j, o) ==
  {j[i].dispatch : i \in EvidenceOf(j, o, "DispatchRejectedBeforeCommit")
                           \cup EvidenceOf(j, o, "DispatchError")}

RejectedIds(j, o) ==
  {j[i].dispatch : i \in EvidenceOf(j, o, "DispatchRejectedBeforeCommit")}

Observations(j, o) ==
  {i \in DOMAIN j :
    j[i].tag \in {"ObservationRecorded", "DispatchError"} /\ j[i].op = o}

Risks(j, o) == {i \in DOMAIN j : j[i].tag = "RiskAccepted" /\ j[i].op = o}

Consumed(j, o) ==
  {j[s].basis.decision :
    s \in {s \in Starts(j, o) : j[s].basis.kind = "AcceptedRisk"}}

\* Mutant: only the newest event is looked at.
EndsSuperseded(j) == j # <<>> /\ j[Len(j)].tag = "PlanSuperseded"

IsSuperseded(j) == \E i \in DOMAIN j : j[i].tag = "PlanSuperseded"

Last(S) == CHOOSE i \in S : \A k \in S : k <= i

SatisfiedAmong(j, S) == {i \in S : j[i].status = "Satisfied"}

\* Mutant: an inconclusive observation speaks too.
TellingUnlessAbsent(j, o) ==
  /\ Observations(j, o) # {}
  /\ j[Last(Observations(j, o))].status # "Absent"

\* An observation speaks for the operation while it is the latest one and says
\* more than "absent" or "could not tell".
Telling(j, o) ==
  /\ Observations(j, o) # {}
  /\ j[Last(Observations(j, o))].status \notin {"Inconclusive", "Absent"}

\* Mutant: a selected preparation is judged like a publication.
StatusWithoutSelection(j, o) ==
  IF IsSuperseded(j) THEN "Superseded"
  ELSE IF Telling(j, o) THEN j[Last(Observations(j, o))].status
  ELSE IF SatisfiedAmong(j, Receipts(j, o)) # {} THEN "Satisfied"
  ELSE IF Receipts(j, o) # {} THEN "Pending"
  ELSE IF Starts(j, o) = {} THEN "Unattempted" ELSE "Inconclusive"

\* Mutant: any acceptance is taken for completion.
StatusAcceptingAll(j, o) ==
  IF IsSuperseded(j) THEN "Superseded"
  ELSE IF Telling(j, o) THEN j[Last(Observations(j, o))].status
  ELSE IF Receipts(j, o) # {} THEN "Satisfied"
  ELSE IF Starts(j, o) = {} THEN "Unattempted"
  ELSE IF RejectedIds(j, o) = StartIds(j, o) THEN "Rejected" ELSE "Inconclusive"

\* operationStatus: the first rule that applies decides.
OperationStatus(j, o) ==
  LET selected == SatisfiedAmong(j, Observations(j, o) \cup Receipts(j, o))
  IN IF IsSuperseded(j) THEN "Superseded"
     ELSE IF Scope = "PreparationScope" /\ selected # {} THEN "Satisfied"
     ELSE IF Telling(j, o) THEN j[Last(Observations(j, o))].status
     ELSE IF SatisfiedAmong(j, Receipts(j, o)) # {} THEN "Satisfied"
     ELSE IF Receipts(j, o) # {} THEN "Pending"
     ELSE IF Starts(j, o) = {} THEN "Unattempted"
     ELSE IF RejectedIds(j, o) = StartIds(j, o) THEN "Rejected"
     ELSE "Inconclusive"

-----------------------------------------------------------------------------
(* Whether, and on which basis, the operation may be dispatched again.     *)

Finishing == {"Superseded", "Satisfied", "Conflict", "Pending"}

\* Mutant: a dependency need only have been started.
DependenciesStarted(j, o) ==
  \A d \in DependsOn[o] :
    OperationStatus(j, d) \in {"Satisfied", "Pending", "Inconclusive"}

DependenciesSatisfied(j, o) ==
  \A d \in DependsOn[o] : OperationStatus(j, d) = "Satisfied"

\* Mutant: only the latest attempt is looked at.
LatestUnresolved(j, o) ==
  {s \in Starts(j, o) :
    s = Last(Starts(j, o)) /\ j[s].id \notin RejectedIds(j, o)}

Unresolved(j, o) == {s \in Starts(j, o) : j[s].id \notin RejectedIds(j, o)}

\* A request the remote compare-and-swap makes harmless to send twice.
SameProtectedRequest(recorded, candidate) ==
  recorded \in Protected /\ recorded = candidate

\* Mutant: a decision is not used up by the dispatch it allowed.
UnspentRisks(j, o, req, now) ==
  {i \in Risks(j, o) : j[i].expires >= now /\ j[i].request = req}

UsableRisks(j, o, req, now) ==
  {i \in Risks(j, o) :
    /\ j[i].decision \notin Consumed(j, o)
    /\ j[i].expires >= now
    /\ j[i].request = req
    /\ j[i].prior = StartIds(j, o)}

\* dispatchDecision with no candidate: may a request be prepared at all?
MayPrepare(j, o) ==
  /\ OperationStatus(j, o) \notin Finishing
  /\ DependenciesSatisfied(j, o)

\* dispatchDecision with a candidate: the bases it answers AppendDispatch
\* with.  At most one; none means Finish or RequestRiskAcceptance.
LawfulBases(j, o, req, now) ==
  LET risks == UsableRisks(j, o, req, now)
  IN IF ~MayPrepare(j, o) \/ Receipts(j, o) # {} THEN {}
     ELSE IF Starts(j, o) = {} THEN {[kind |-> "Initial"]}
     ELSE IF Unresolved(j, o) = {}
            THEN {[kind |-> "NonCommit", ids |-> StartIds(j, o)]}
     ELSE IF \A s \in Unresolved(j, o) : SameProtectedRequest(j[s].request, req)
            THEN {[kind |-> "ProtectedReplay",
                   ids |-> {j[s].id : s \in Unresolved(j, o)}]}
     ELSE {[kind |-> "AcceptedRisk", decision |-> j[i].decision] :
             i \in {i \in risks : \A k \in risks : i <= k}}

-----------------------------------------------------------------------------
(* Which event may extend a history.                                       *)

StartsOf(j, d) == {i \in DOMAIN j : j[i].tag = "DispatchStarted" /\ j[i].id = d}

\* The evidence a dispatch already has, acceptance or proven non-commit.
TerminalEvidence(j, d) ==
  {i \in DOMAIN j :
    /\ j[i].tag \in {"ReceiptAccepted", "DispatchRejectedBeforeCommit"}
    /\ j[i].dispatch = d}

\* The providers' reading of an observation: what the classifyObservation of each of them has
\* in common (each is modelled on its own in the modules of the providers).  To a registry's
\* observer an absence after an acceptance is a publication that is not visible yet; Git's
\* compares the ref with the intent and nothing else.
Classify(o, view, accepted) ==
  CASE view = "Present"     -> "Satisfied"
    [] view = "Foreign"     -> "Conflict"
    [] view = "Missing"     -> IF accepted /\ o \in ReceiptAware
                               THEN "Pending" ELSE "Absent"
    [] view = "Unavailable" -> "Inconclusive"

\* Which requests correspond to an operation is the provider's to say, and does not change: a
\* request that is prepared corresponds (Request).
LegalStart(j, e) == e.basis \in LawfulBases(j, e.op, e.request, e.at)

LegalOutcome(j, e) ==
  StartsOf(j, e.dispatch) # {} /\ TerminalEvidence(j, e.dispatch) = {}

LegalObservation(j, e) ==
  e.status = Classify(e.op, e.view, Receipts(j, e.op) # {})

LegalDispatchError(j, e) ==
  \E i \in StartsOf(j, e.dispatch) : j[i].op = e.op

LegalRisk(j, e) ==
  /\ ~IsSuperseded(j)
  /\ Starts(j, e.op) # {}
  /\ Receipts(j, e.op) = {}
  /\ e.prior = StartIds(j, e.op)
  /\ \A i \in DOMAIN j : j[i].tag = "RiskAccepted" => j[i].decision # e.decision

\* In a preparation scope all satisfied evidence selects one output: the same
\* value through the same channel.
Selects(e) ==
  /\ e.tag \in {"ObservationRecorded", "ReceiptAccepted"}
  /\ e.status = "Satisfied"

\* Mutant: receipts are not held to the selection.
LegalObservedSelection(j, e) ==
  Scope = "PreparationScope" /\ Selects(e) /\ e.tag = "ObservationRecorded"
    => \A i \in DOMAIN j :
         Selects(j[i]) => j[i].tag = e.tag /\ j[i].out = e.out

LegalSelection(j, e) ==
  Scope = "PreparationScope" /\ Selects(e)
    => \A i \in DOMAIN j :
         Selects(j[i]) => j[i].tag = e.tag /\ j[i].out = e.out

\* assertJournalAppend, verifyNativeEvidence and verifyPreparationSelection.
LegalAppend(j, e) ==
  /\ e.id \notin Ids(j)
  /\ e.tag = "DispatchStarted" => LegalStart(j, e)
  /\ e.tag \in {"ReceiptAccepted", "DispatchRejectedBeforeCommit"}
       => LegalOutcome(j, e)
  /\ e.tag = "ObservationRecorded" => LegalObservation(j, e)
  /\ e.tag = "DispatchError" => LegalDispatchError(j, e)
  /\ e.tag = "RiskAccepted" => LegalRisk(j, e)
  /\ e.tag = "PlanSuperseded" => ~IsSuperseded(j)
  /\ LegalSelection(j, e)

\* Host.read admits a stored history when every event was legal where it is.
Admissible(j) ==
  \A i \in DOMAIN j : LegalAppend(SubSeq(j, 1, i - 1), j[i])
=============================================================================
