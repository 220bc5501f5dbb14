--------------------------- MODULE ReleaseProperties ---------------------------
(***************************************************************************)
(* What the executor of module Release promises.  docs/recovery.md states  *)
(* the promises; the names here are ours.                                  *)
(***************************************************************************)
EXTENDS Release

\* Every history the processes can produce together, over a store that races
\* and answers ambiguously, is one Host.read admits: no interleaving leaves an
\* event in the journal that makes the next reading of it fail for everyone.
HistoryAdmissible == Admissible(journal)

\* A dispatch is sent at most once, and never before its DispatchStarted is
\* durable: neither a restart, nor a lost compare-and-swap, nor an append found
\* already recorded gives a process the authority to send.
OneSendPerStart ==
  \A d \in Id : sends[d] <= 1 /\ (sends[d] > 0 => StartsOf(journal, d) # {})

\* The remote applies an operation at most once more than an operator accepted
\* the risk of applying it again, whatever was lost, delayed, absent or stale.
EffectsLicensed ==
  \A o \in Op :
    Cardinality({x \in published : x.op = o}) <= 1 + Cardinality(Consumed(journal, o))

\* What the remote applied, or may still.
Effects == published \cup {[op |-> y.op, dispatch |-> y.dispatch] : y \in wire}

\* Nothing reaches the remote before what it depends on is there.
DependenciesPublished ==
  \A x \in Effects : \A d \in DependsOn[x.op] : Present(d)

\* An operation is reported satisfied only when its effect is at the remote.
SatisfiedIsPublished ==
  \A o \in Op : OperationStatus(journal, o) = "Satisfied" => Present(o)

\* Once a plan is superseded none of its operations is started again and no
\* risk is accepted for it, although a send already authorised may still end.
SupersessionFinal ==
  \A i, k \in DOMAIN journal :
    i < k /\ journal[i].tag = "PlanSuperseded"
      => journal[k].tag \notin {"DispatchStarted", "RiskAccepted"}

StartsBefore(i) == {journal[s].id : s \in {s \in Starts(journal, journal[i].op) : s < i}}

\* A decision buys one dispatch, of the request and for exactly the attempts it
\* was taken on, at a time it had not expired.
RiskSpentOnce ==
  \A i \in DOMAIN journal :
    journal[i].tag = "DispatchStarted" /\ journal[i].basis.kind = "AcceptedRisk" =>
      /\ \A k \in DOMAIN journal :
           journal[k].tag = "DispatchStarted" /\ journal[k].basis = journal[i].basis => k = i
      /\ \E r \in Risks(journal, journal[i].op) :
           /\ r < i
           /\ journal[r].decision = journal[i].basis.decision
           /\ journal[r].request = journal[i].request
           /\ journal[r].prior = StartsBefore(i)
           /\ journal[r].expires >= journal[i].at

\* An attempt whose fate is unknown stays unrepeatable: a start that follows an
\* unresolved one of the same operation repeats its protected request or spends
\* an accepted risk.
UncertaintyHolds ==
  \A s, t \in DOMAIN journal :
    /\ s < t
    /\ journal[s].tag = "DispatchStarted" /\ journal[t].tag = "DispatchStarted"
    /\ journal[s].op = journal[t].op
    /\ ~\E k \in TerminalEvidence(journal, journal[s].id) : k < t
    => \/ journal[t].request = journal[s].request /\ journal[s].request \in Protected
       \/ journal[t].basis.kind = "AcceptedRisk"

\* An acceptance is never forgotten: no later error, absence or observation
\* makes the operation look unattempted, rejected or uncertain again.
AcceptanceRemembered ==
  \A o \in Op :
    Receipts(journal, o) # {} => OperationStatus(journal, o) \in Finishing

\* A dispatch is accepted or rejected, once, and nothing is started for an
\* operation after one of its dispatches was accepted.
OutcomeFinal ==
  /\ \A d \in Id : Cardinality(TerminalEvidence(journal, d)) <= 1
  /\ \A r, s, t \in DOMAIN journal :
       /\ journal[r].tag = "ReceiptAccepted"
       /\ s \in StartsOf(journal, journal[r].dispatch)
       /\ t \in Starts(journal, journal[s].op)
       => t < r

\* A preparation selects one output, however many processes prepare it.
OneSelection ==
  \A i, k \in DOMAIN journal :
    Selects(journal[i]) /\ Selects(journal[k])
      => journal[i].tag = journal[k].tag /\ journal[i].out = journal[k].out

\* And a selected preparation stays selected: only supersession ends it.
SelectionSticky ==
  [][\A o \in Op :
       OperationStatus(journal, o) = "Satisfied"
         => OperationStatus(journal', o) \in {"Satisfied", "Superseded"}]_journal

\* Every call returns: the passes over the operations end, and an append under
\* contention or without an answer is retried a bounded number of times.
CallsReturn == \A p \in Process : pc[p] # "idle" ~> pc[p] = "idle"

-----------------------------------------------------------------------------
(* Why a history stays admissible: the inductive strengthening.            *)

\* Where a process stands fixes what it holds.
ControlOK ==
  \A p \in Process :
    /\ pc[p] \in {"observe", "decide", "prepare", "commit", "reconcile", "send"}
         => cursor[p] \in DOMAIN Ops
    /\ pc[p] \in {"commit", "reconcile", "send"} => draft[p] \in StartEvent
    /\ pc[p] \in {"record", "append"} =>
         /\ draft[p] \in Event
         /\ duty[p] \in {"Run", "Observe"} => cursor[p] \in DOMAIN Ops

IdDrawn(id) == id[2] <= drawn[id[1]]

\* Every identity in use was drawn, so a fresh one is in use nowhere.
IdentitiesDrawn ==
  /\ \A i \in DOMAIN journal : IdDrawn(journal[i].id)
  /\ \A w \in inflight : IdDrawn(w.event.id)
  /\ \A p \in Process :
       pc[p] \in {"commit", "reconcile", "send", "record", "append"}
         => IdDrawn(draft[p].id)

\* An event waiting to be appended at a revision is legal after the history up
\* to that revision, which only the compare-and-swap keeps from growing.
LegalAt(rev, event) ==
  rev <= Len(journal) /\ LegalAppend(SubSeq(journal, 1, rev), event)

WaitingLegal ==
  /\ \A w \in inflight : LegalAt(w.rev, w.event)
  /\ \A p \in Process : pc[p] \in {"commit", "append"} => LegalAt(base[p], draft[p])

\* The inductive invariant behind HistoryAdmissible.
AdmissibleInv ==
  TypeOK /\ ControlOK /\ IdentitiesDrawn /\ WaitingLegal /\ HistoryAdmissible

\* Identities are the process's own, so no other process can write, or have
\* written, under the identity of a start it is about to append or send.
DraftsOwned ==
  \A p \in Process :
    pc[p] \in {"commit", "reconcile", "send", "record", "append"}
      => draft[p].id[1] = p

NamesStart(id) ==
  /\ \A i \in DOMAIN journal : journal[i].id = id => journal[i].tag = "DispatchStarted"
  /\ \A w \in inflight : w.event.id = id => w.event.tag = "DispatchStarted"

\* A start under way was never sent, and one to be sent is recorded.
StartsUnsent ==
  \A p \in Process : pc[p] \in {"commit", "reconcile", "send"} =>
    /\ sends[draft[p].id] = 0
    /\ NamesStart(draft[p].id)
    /\ pc[p] = "send" => Recorded(draft[p].id)

\* The inductive invariant behind OneSendPerStart: nothing a process can still
\* do, after any race, crash or lost answer, sends a second time or sends early.
ExecutorInv == AdmissibleInv /\ DraftsOwned /\ StartsUnsent /\ OneSendPerStart

-----------------------------------------------------------------------------
(* Why the remote is as the journal says: what relates the two.            *)

\* Every event that is recorded or may still come to be.
Told ==
  {journal[i] : i \in DOMAIN journal} \cup {w.event : w \in inflight}
    \cup {draft[p] : p \in {p \in Process :
            pc[p] \in {"commit", "reconcile", "send", "record", "append"}}}

OneEventPerIdentity == \A e, f \in Told : e.id = f.id => e = f

\* The start of a dispatch, which names its operation and its request.
StartedFor(op, d) == \E s \in StartsOf(journal, d) : journal[s].op = op
StartedWith(op, d, req) ==
  \E s \in StartsOf(journal, d) : journal[s].op = op /\ journal[s].request = req

\* Evidence that satisfies an operation is of an effect that is there, and a
\* dispatch rejected before commit was sent and has none.
Vouched(e) ==
  /\ e.tag = "ObservationRecorded" /\ e.status = "Satisfied" => Present(e.op)
  /\ e.tag = "ReceiptAccepted" /\ e.status = "Satisfied" =>
       \E o \in Op : StartedFor(o, e.dispatch) /\ Present(o)
  /\ e.tag = "DispatchRejectedBeforeCommit" =>
       sends[e.dispatch] > 0 /\ \A x \in Effects : x.dispatch # e.dispatch

EvidenceTrue == \A e \in Told : Vouched(e)

\* What reaches the remote was sent, of an operation and a request that the
\* journal named first.
EffectsStarted ==
  /\ \A x \in Effects : sends[x.dispatch] > 0 /\ StartedFor(x.op, x.dispatch)
  /\ \A y \in wire : StartedWith(y.op, y.dispatch, y.request)

\* A start was decided with its dependencies satisfied, and they stay published.
DependenciesReady ==
  \A p \in Process : pc[p] \in {"commit", "reconcile", "send"} =>
    \A d \in DependsOn[draft[p].op] : Present(d)

\* A compare-and-swap finds nothing left to do for a second protected request.
ProtectedEffects(o) ==
  {s \in Starts(journal, o) :
    /\ journal[s].request \in Protected
    /\ [op |-> o, dispatch |-> journal[s].id] \in published}

ProtectedOnce == \A o \in Op : \A s, t \in ProtectedEffects(o) : s = t

\* The inductive invariant behind EffectsLicensed, SatisfiedIsPublished and
\* DependenciesPublished: no loss, delay or race lets the journal and the remote
\* disagree in a way a later decision relies on.
EffectInv ==
  /\ ExecutorInv
  /\ OneEventPerIdentity /\ EvidenceTrue /\ EffectsStarted
  /\ DependenciesReady /\ DependenciesPublished /\ ProtectedOnce
=============================================================================
