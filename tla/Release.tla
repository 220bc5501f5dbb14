-------------------------------- MODULE Release --------------------------------
(***************************************************************************)
(* The executor: any number of processes (a CLI, a CI job, an operator's   *)
(* shell) that run, observe, supersede or accept risk for one plan, over a *)
(* journal store they share by compare-and-swap and a remote service no    *)
(* one controls.  packages/ts-release/src/Release.ts, with the store       *)
(* contract of src/Journal.ts and the transport contract of Provider.ts.   *)
(*                                                                         *)
(* A step is what happens between two effects of the code: a journal read  *)
(* with the decision taken on it, one append, one provider or transport    *)
(* call.  A process can crash between any two of them and be started again *)
(* with nothing but the journal.                                           *)
(***************************************************************************)
EXTENDS Decision

CONSTANTS
  Process,      \* the concurrent invocations
  Ops,          \* the plan's operations in the order of its array
  RequestsOf,   \* Op -> SUBSET Request: what the provider may prepare
  Proves,       \* operations whose provider proves rejections before commit
  Observed,     \* operations whose provider can observe
  Occupied,     \* operations whose target holds something else
  MayExist,     \* operations whose effect may be there before the plan is
  RunOptions,   \* the options runRelease is called with
  Duties,       \* Process -> what it is called to do
  Ambiguous,    \* may an append end without a known outcome (Git, not SQLite)?
  MaxSerial,    \* bound: how many event identities each process may draw
  MaxRetry,     \* tries of one fact append (8 in the code)
  NoDraft       \* no event under construction

DutyKind == {"Run", "Observe", "Risk", "Supersede"}
AllOps == {Ops[i] : i \in DOMAIN Ops}

ASSUME ReleaseAssumption ==
  /\ Ops \in Seq(Op) /\ AllOps = Op
  /\ \A i, k \in DOMAIN Ops : Ops[i] = Ops[k] => i = k
  /\ RequestsOf \in [Op -> SUBSET Request]
  /\ Proves \subseteq Op /\ Observed \subseteq Op /\ Occupied \subseteq Op
  /\ MayExist \subseteq Op \ Occupied
  /\ RunOptions \subseteq [authorize : BOOLEAN, observe : BOOLEAN, limit : Nat]
  /\ Duties \in [Process -> SUBSET DutyKind]
  /\ Ambiguous \in BOOLEAN
  /\ MaxSerial \in [Process -> Nat] /\ MaxRetry \in Nat \ {0}
  /\ Id = UNION {{<<p, n>> : n \in 1..MaxSerial[p]} : p \in Process}
  /\ NoDraft \notin Event

VARIABLES
  journal,    \* the durable history, a sequence of events
  inflight,   \* appends whose outcome is unknown and that may still land
  pc,         \* what each process is about to do
  duty,       \* what it was called for
  options,    \* runRelease's options
  cursor,     \* the operation it is at, a position in Ops
  visited,    \* operations this call has handled
  progressed, \* has this pass over the operations handled one?
  dispatches, \* sends of this call
  draft,      \* the event it is about to append, or NoDraft
  base,       \* the revision its decision was taken at
  retries,    \* tries of the current fact append
  drawn,      \* identities drawn so far
  sends,      \* how often the transport was called for each dispatch
  wire,       \* sends that left the process and may still reach the remote
  published,  \* dispatches whose effect the remote has applied
  existing    \* operations whose effect was at the remote before the plan

storeVars   == <<journal, inflight>>
callVars    == <<duty, options>>
loopVars    == <<cursor, visited, progressed, dispatches>>
remoteVars  == <<sends, wire, published, existing>>
vars == <<journal, inflight, pc, duty, options, cursor, visited, progressed,
          dispatches, draft, base, retries, drawn, sends, wire, published,
          existing>>

Control ==
  {"idle", "consider", "observe", "decide", "prepare", "commit", "reconcile",
   "send", "record", "append"}

\* A request on its way: for which operation, under which dispatch.
Sent == [op : Op, dispatch : Id, request : Request]

DefaultOptions == [authorize |-> FALSE, observe |-> TRUE, limit |-> 0]

TypeOK ==
  /\ journal \in Seq(Event)
  /\ inflight \subseteq [rev : Nat, event : Event]
  /\ pc \in [Process -> Control]
  /\ duty \in [Process -> DutyKind]
  /\ options \in [Process -> RunOptions \cup {DefaultOptions}]
  /\ cursor \in [Process -> 1..(Len(Ops) + 1)]
  /\ visited \in [Process -> SUBSET Op]
  /\ progressed \in [Process -> BOOLEAN]
  /\ dispatches \in [Process -> Nat]
  /\ draft \in [Process -> Event \cup {NoDraft}]
  /\ base \in [Process -> Nat]
  /\ retries \in [Process -> 0..MaxRetry]
  /\ drawn \in [Process -> Nat]
  /\ \A p \in Process : drawn[p] <= MaxSerial[p]
  /\ sends \in [Id -> Nat]
  /\ wire \subseteq Sent
  /\ published \subseteq [op : Op, dispatch : Id]
  /\ existing \subseteq Op

Init ==
  /\ journal = <<>> /\ inflight = {}
  /\ pc = [p \in Process |-> "idle"]
  /\ duty = [p \in Process |-> "Run"]
  /\ options = [p \in Process |-> DefaultOptions]
  /\ cursor = [p \in Process |-> 1]
  /\ visited = [p \in Process |-> {}]
  /\ progressed = [p \in Process |-> FALSE]
  /\ dispatches = [p \in Process |-> 0]
  /\ draft = [p \in Process |-> NoDraft]
  /\ base = [p \in Process |-> 0]
  /\ retries = [p \in Process |-> 0]
  /\ drawn = [p \in Process |-> 0]
  /\ sends = [d \in Id |-> 0]
  /\ wire = {} /\ published = {}
  /\ existing \in SUBSET MayExist

-----------------------------------------------------------------------------
(* Identities and positions *)

\* Mutant: the count before the draw names the event.
StaleId(p) == <<p, drawn[p]>>

FreshId(p) == <<p, drawn[p] + 1>>
Draw(p) ==
  /\ drawn[p] < MaxSerial[p]
  /\ drawn' = [drawn EXCEPT ![p] = @ + 1]

\* A call is started only while its process has identities left for all of it,
\* so the bound never stops one half way.
IdsOfCall(kind) ==
  CASE kind = "Run" -> Cardinality(Observed) + 2 * Len(Ops)
    [] kind = "Observe" -> Cardinality(Observed)
    [] OTHER -> 1
HasIdsFor(p, kind) == drawn[p] + IdsOfCall(kind) <= MaxSerial[p]

At(p) == Ops[cursor[p]]

Goto(p, label) == pc' = [pc EXCEPT ![p] = label]

\* What the process was doing is forgotten when the call returns, fails or
\* crashes; the model resets it so that equal situations are equal states.
Return(p) ==
  /\ Goto(p, "idle")
  /\ duty' = [duty EXCEPT ![p] = "Run"]
  /\ options' = [options EXCEPT ![p] = DefaultOptions]
  /\ cursor' = [cursor EXCEPT ![p] = 1]
  /\ visited' = [visited EXCEPT ![p] = {}]
  /\ progressed' = [progressed EXCEPT ![p] = FALSE]
  /\ dispatches' = [dispatches EXCEPT ![p] = 0]
  /\ draft' = [draft EXCEPT ![p] = NoDraft]
  /\ base' = [base EXCEPT ![p] = 0]
  /\ retries' = [retries EXCEPT ![p] = 0]

\* On to the next operation of the loop.
Advance(p) ==
  /\ Goto(p, "consider")
  /\ cursor' = [cursor EXCEPT ![p] = @ + 1]
  /\ draft' = [draft EXCEPT ![p] = NoDraft]
  /\ base' = [base EXCEPT ![p] = 0]
  /\ retries' = [retries EXCEPT ![p] = 0]
  /\ UNCHANGED <<callVars, visited, progressed, dispatches>>

\* Hand an event to appendFact.
Record(p, event) ==
  /\ Goto(p, "record")
  /\ draft' = [draft EXCEPT ![p] = event]
  /\ base' = [base EXCEPT ![p] = 0]
  /\ retries' = [retries EXCEPT ![p] = 0]
  /\ Draw(p)
  /\ UNCHANGED <<callVars, cursor, visited, progressed>>

-----------------------------------------------------------------------------
(* The journal store: append at an expected revision.                      *)

AppendResult ==
  {"Appended", "AlreadyRecorded", "RevisionMismatch", "AmbiguousStorageOutcome"}

Recorded(id) == id \in Ids(journal)

Written(event) == journal' = Append(journal, event) /\ UNCHANGED inflight

\* Mutant: an append is applied whatever the revision is by now.
StoreAppendAnywhere(rev, event, result) ==
  IF Recorded(event.id)
    THEN result = "AlreadyRecorded" /\ UNCHANGED storeVars
    ELSE result = "Appended" /\ Written(event)

\* What the caller learns, and what became of the event.  An ambiguous append
\* may have been applied, may land later, or may be lost.
StoreAppend(rev, event, result) ==
  \/ /\ result = "AlreadyRecorded"
     /\ Recorded(event.id)
     /\ UNCHANGED storeVars
  \/ /\ result = "RevisionMismatch"
     /\ ~Recorded(event.id) /\ rev # Len(journal)
     /\ UNCHANGED storeVars
  \/ /\ result = "Appended"
     /\ ~Recorded(event.id) /\ rev = Len(journal)
     /\ Written(event)
  \/ /\ result = "AmbiguousStorageOutcome"
     /\ Ambiguous /\ ~Recorded(event.id)
     /\ \/ rev = Len(journal) /\ Written(event)
        \/ /\ inflight' = inflight \cup {[rev |-> rev, event |-> event]}
           /\ UNCHANGED journal

\* A push that timed out at the client reaches the server after all; the
\* server still compares before it swaps.
Land(x) ==
  /\ x \in inflight
  /\ inflight' = inflight \ {x}
  /\ journal' = IF x.rev = Len(journal) /\ ~Recorded(x.event.id)
                  THEN Append(journal, x.event) ELSE journal
  /\ UNCHANGED <<pc, callVars, loopVars, draft, base, retries, drawn, remoteVars>>

-----------------------------------------------------------------------------
(* Calls *)

Call(p, kind) ==
  /\ pc[p] = "idle" /\ kind \in Duties[p] /\ HasIdsFor(p, kind)
  /\ duty' = [duty EXCEPT ![p] = kind]

BeginRun(p) ==
  /\ Call(p, "Run")
  /\ \E opts \in RunOptions : options' = [options EXCEPT ![p] = opts]
  /\ Goto(p, "consider")
  /\ UNCHANGED <<storeVars, loopVars, draft, base, retries, drawn, remoteVars>>

BeginObserve(p) ==
  /\ Call(p, "Observe")
  /\ Goto(p, "consider")
  /\ UNCHANGED <<storeVars, options, loopVars, draft, base, retries, drawn,
                 remoteVars>>

\* The operator decides on what a report showed: the attempts known by now.
BeginAcceptRisk(p) ==
  /\ Call(p, "Risk")
  /\ \E o \in Op, d \in DecisionId, t \in Time :
       \E req \in RequestsOf[o] :
         /\ Starts(journal, o) # {}
         /\ draft' = [draft EXCEPT ![p] =
              [tag |-> "RiskAccepted", id |-> FreshId(p), op |-> o,
               decision |-> d, request |-> req,
               prior |-> StartIds(journal, o),
               expires |-> t]]
  /\ Goto(p, "record") /\ Draw(p)
  /\ UNCHANGED <<storeVars, options, loopVars, base, retries, remoteVars>>

BeginSupersede(p) ==
  /\ Call(p, "Supersede")
  /\ draft' = [draft EXCEPT ![p] = [tag |-> "PlanSuperseded", id |-> FreshId(p)]]
  /\ Goto(p, "record") /\ Draw(p)
  /\ UNCHANGED <<storeVars, options, loopVars, base, retries, remoteVars>>

-----------------------------------------------------------------------------
(* appendFact *)

\* Where a call goes on once its fact is recorded.
AfterFact(p) ==
  CASE duty[p] = "Run" /\ draft[p].tag = "ObservationRecorded" ->
         /\ Goto(p, "decide")
         /\ draft' = [draft EXCEPT ![p] = NoDraft]
         /\ base' = [base EXCEPT ![p] = 0]
         /\ retries' = [retries EXCEPT ![p] = 0]
         /\ UNCHANGED <<callVars, loopVars>>
    [] duty[p] \in {"Risk", "Supersede"} -> Return(p)
    [] OTHER -> Advance(p)

\* Mutant: a fact once built is not validated against what was recorded since.
ReadForFactTrusting(p) ==
  /\ pc[p] = "record"
  /\ \/ /\ Recorded(draft[p].id)
        /\ AfterFact(p)
     \/ /\ ~Recorded(draft[p].id)
        /\ Goto(p, "append")
        /\ base' = [base EXCEPT ![p] = Len(journal)]
        /\ UNCHANGED <<callVars, loopVars, draft, retries>>
  /\ UNCHANGED <<storeVars, drawn, remoteVars>>

\* Read; find the fact already there, or validate it against all of history.
ReadForFact(p) ==
  /\ pc[p] = "record"
  /\ \/ /\ Recorded(draft[p].id)
        /\ AfterFact(p)
     \/ /\ LegalAppend(journal, draft[p])
        /\ Goto(p, "append")
        /\ base' = [base EXCEPT ![p] = Len(journal)]
        /\ UNCHANGED <<callVars, loopVars, draft, retries>>
     \/ /\ ~Recorded(draft[p].id) /\ ~LegalAppend(journal, draft[p])
        /\ Return(p)
  /\ UNCHANGED <<storeVars, drawn, remoteVars>>

\* The event keeps its identity through every retry; the last one gives up.
AppendFact(p) ==
  /\ pc[p] = "append"
  /\ \E result \in AppendResult :
       /\ StoreAppend(base[p], draft[p], result)
       /\ \/ /\ result \in {"Appended", "AlreadyRecorded"}
             /\ AfterFact(p)
          \/ /\ result \in {"RevisionMismatch", "AmbiguousStorageOutcome"}
             /\ retries[p] + 1 < MaxRetry
             /\ Goto(p, "record")
             /\ retries' = [retries EXCEPT ![p] = @ + 1]
             /\ UNCHANGED <<callVars, loopVars, draft, base>>
          \/ /\ result \in {"RevisionMismatch", "AmbiguousStorageOutcome"}
             /\ retries[p] + 1 = MaxRetry
             /\ Return(p)
  /\ UNCHANGED <<drawn, remoteVars>>

-----------------------------------------------------------------------------
(* The remote service and what can be seen of it *)

Present(o) == o \in existing \/ \E x \in published : x.op = o

\* A compare-and-swap moves its ref once; nothing else is idempotent.
CanApply(o, req) ==
  o \notin Occupied /\ (req \in Protected => ~Present(o))

\* Present is never reported of what is not there.  Missing may be stale.
ViewsOf(o) ==
  {"Missing", "Unavailable"}
    \cup {v \in {"Present"} : Present(o)}
    \cup {v \in {"Foreign"} : o \in Occupied}

\* A delayed request reaches the remote long after its sender stopped waiting.
Deliver(x) ==
  /\ x \in wire
  /\ wire' = wire \ {x}
  /\ published' = IF CanApply(x.op, x.request)
                    THEN published \cup {[op |-> x.op, dispatch |-> x.dispatch]}
                    ELSE published
  /\ UNCHANGED <<storeVars, pc, callVars, loopVars, draft, base, retries, drawn,
                 sends, existing>>

-----------------------------------------------------------------------------
(* runRelease and observeRelease *)

CanDispatch(p) ==
  /\ options[p].authorize
  /\ dispatches[p] < options[p].limit
  /\ MayPrepare(journal, At(p))

\* One turn of the loop: skip what was handled or still waits for another
\* operation, else handle it from the history just read.
Consider(p) ==
  /\ pc[p] = "consider" /\ cursor[p] <= Len(Ops) /\ duty[p] = "Run"
  /\ \/ /\ At(p) \in visited[p] \/ ~DependenciesSatisfied(journal, At(p))
        /\ Advance(p)
     \/ /\ At(p) \notin visited[p] /\ DependenciesSatisfied(journal, At(p))
        /\ visited' = [visited EXCEPT ![p] = @ \cup {At(p)}]
        /\ progressed' = [progressed EXCEPT ![p] = TRUE]
        /\ \/ /\ options[p].observe /\ At(p) \in Observed
              /\ Goto(p, "observe")
              /\ base' = [base EXCEPT ![p] = Len(journal)]
              /\ UNCHANGED cursor
           \/ /\ ~(options[p].observe /\ At(p) \in Observed)
              /\ CanDispatch(p)
              /\ Goto(p, "prepare")
              /\ UNCHANGED <<cursor, base>>
           \/ /\ ~(options[p].observe /\ At(p) \in Observed)
              /\ ~CanDispatch(p)
              /\ cursor' = [cursor EXCEPT ![p] = @ + 1]
              /\ UNCHANGED <<pc, base>>
        /\ UNCHANGED <<callVars, dispatches, draft, retries>>
  /\ UNCHANGED <<storeVars, drawn, remoteVars>>

\* observeRelease asks every provider that can observe, whatever it waits for.
ConsiderObservation(p) ==
  /\ pc[p] = "consider" /\ cursor[p] <= Len(Ops) /\ duty[p] = "Observe"
  /\ \/ /\ At(p) \notin Observed
        /\ Advance(p)
     \/ /\ At(p) \in Observed
        /\ Goto(p, "observe")
        /\ base' = [base EXCEPT ![p] = Len(journal)]
        /\ UNCHANGED <<callVars, loopVars, draft, retries>>
  /\ UNCHANGED <<storeVars, drawn, remoteVars>>

\* Mutant: passes go on until everything was handled.
EndPassRestless(p) ==
  /\ pc[p] = "consider" /\ cursor[p] > Len(Ops)
  /\ IF duty[p] = "Run" /\ visited[p] # AllOps
       THEN /\ cursor' = [cursor EXCEPT ![p] = 1]
            /\ UNCHANGED <<pc, callVars, visited, progressed, dispatches, draft,
                           base, retries>>
       ELSE Return(p)
  /\ UNCHANGED <<storeVars, drawn, remoteVars>>

\* Another pass while the last one handled something and something is left.
EndPass(p) ==
  /\ pc[p] = "consider" /\ cursor[p] > Len(Ops)
  /\ \/ /\ duty[p] = "Run" /\ progressed[p] /\ visited[p] # AllOps
        /\ cursor' = [cursor EXCEPT ![p] = 1]
        /\ progressed' = [progressed EXCEPT ![p] = FALSE]
        /\ UNCHANGED <<pc, callVars, visited, dispatches, draft, base, retries>>
     \/ /\ ~(duty[p] = "Run" /\ progressed[p] /\ visited[p] # AllOps)
        /\ Return(p)
  /\ UNCHANGED <<storeVars, drawn, remoteVars>>

\* What is seen now, classified by the receipts of the history read before.
Observe(p) ==
  /\ pc[p] = "observe"
  /\ \E view \in ViewsOf(At(p)) :
       LET seen == SubSeq(journal, 1, base[p])
           status == Classify(At(p), view, Receipts(seen, At(p)) # {})
       IN \E out \in (IF status = "Satisfied" THEN Output ELSE {NoOutput}) :
            Record(p, [tag |-> "ObservationRecorded", id |-> FreshId(p),
                       op |-> At(p), view |-> view, status |-> status,
                       out |-> out])
  /\ UNCHANGED <<storeVars, dispatches, remoteVars>>

\* After its observation is recorded, the run reads again and asks whether a
\* request is worth preparing.
Decide(p) ==
  /\ pc[p] = "decide"
  /\ \/ /\ CanDispatch(p)
        /\ Goto(p, "prepare")
        /\ UNCHANGED <<callVars, loopVars, draft, base, retries>>
     \/ /\ ~CanDispatch(p)
        /\ Advance(p)
  /\ UNCHANGED <<storeVars, drawn, remoteVars>>

\* Credentials and artifacts are resolved first; then the history is read again
\* and the dispatch is decided on that reading, which the append must still find.
Prepare(p) ==
  /\ pc[p] = "prepare"
  /\ \E req \in RequestsOf[At(p)], now \in Time :
       LET bases == LawfulBases(journal, At(p), req, now)
       IN \/ /\ \E basis \in bases :
                  draft' = [draft EXCEPT ![p] =
                    [tag |-> "DispatchStarted", id |-> FreshId(p), op |-> At(p),
                     request |-> req, at |-> now, basis |-> basis]]
             /\ Goto(p, "commit")
             /\ base' = [base EXCEPT ![p] = Len(journal)]
             /\ Draw(p)
             /\ UNCHANGED <<callVars, loopVars, retries>>
          \/ /\ bases = {}
             /\ Advance(p)
             /\ UNCHANGED drawn
  /\ UNCHANGED <<storeVars, remoteVars>>

\* The uncertainty boundary.  Only the process whose append is known to have
\* been applied may send; an unknown outcome is looked up once.
Commit(p) ==
  /\ pc[p] = "commit"
  /\ \E result \in AppendResult :
       /\ StoreAppend(base[p], draft[p], result)
       /\ \/ /\ result = "Appended"
             /\ Goto(p, "send")
             /\ UNCHANGED <<callVars, loopVars, draft, base, retries>>
          \/ /\ result = "AmbiguousStorageOutcome"
             /\ Goto(p, "reconcile")
             /\ UNCHANGED <<callVars, loopVars, draft, base, retries>>
          \/ /\ result \in {"AlreadyRecorded", "RevisionMismatch"}
             /\ Advance(p)
  /\ UNCHANGED <<drawn, remoteVars>>

\* Mutant: an append without an answer is taken for one that was applied.
OwnedInDoubt(p) == TRUE

Owned(p) == Recorded(draft[p].id)

Reconcile(p) ==
  /\ pc[p] = "reconcile"
  /\ \/ /\ Owned(p)
        /\ Goto(p, "send")
        /\ UNCHANGED <<callVars, loopVars, draft, base, retries>>
     \/ /\ ~Owned(p)
        /\ Advance(p)
  /\ UNCHANGED <<storeVars, drawn, remoteVars>>

\* One call of the transport.  Its counters move whatever comes of it.
Transmit(p) ==
  /\ pc[p] = "send"
  /\ sends' = [sends EXCEPT ![draft[p].id] = @ + 1]
  /\ dispatches' = [dispatches EXCEPT ![p] = @ + 1]
  /\ UNCHANGED <<storeVars, existing>>

\* The remote applies the request before it answers, or has yet to.
Applied(p) ==
  /\ CanApply(draft[p].op, draft[p].request)
  /\ published' = published \cup {[op |-> draft[p].op, dispatch |-> draft[p].id]}
  /\ UNCHANGED wire

Travelling(p) ==
  /\ wire' = wire \cup {[op |-> draft[p].op, dispatch |-> draft[p].id,
                        request |-> draft[p].request]}
  /\ UNCHANGED published

\* The remote answers that it accepted: a satisfied receipt says that it has
\* what was asked for (a compare-and-swap may find it in place already), a
\* pending one that it will see to it.
Accepted(p) ==
  /\ Transmit(p)
  /\ \E status \in {"Satisfied", "Pending"} :
       /\ \/ Applied(p)
          \/ status = "Pending" /\ Travelling(p)
          \/ /\ draft[p].request \in Protected /\ Present(draft[p].op)
             /\ UNCHANGED <<wire, published>>
       /\ \E out \in (IF status = "Satisfied" THEN Output ELSE {NoOutput}) :
            Record(p, [tag |-> "ReceiptAccepted", id |-> FreshId(p),
                       dispatch |-> draft[p].id, status |-> status, out |-> out])

\* The provider holds native proof that the remote refused before committing.
Rejected(p) ==
  /\ Transmit(p)
  /\ draft[p].op \in Proves
  /\ UNCHANGED <<wire, published>>
  /\ Record(p, [tag |-> "DispatchRejectedBeforeCommit", id |-> FreshId(p),
                dispatch |-> draft[p].id])

\* Unknown to the sender, the request was applied, is still on its way or lost.
Fate(p) == Applied(p) \/ Travelling(p) \/ UNCHANGED <<wire, published>>

\* An error, a timeout, an unproven rejection or a receipt that does not
\* decode: the attempt stays uncertain.
Uncertain(p) ==
  /\ Transmit(p)
  /\ Fate(p)
  /\ Record(p, [tag |-> "DispatchError", id |-> FreshId(p), op |-> draft[p].op,
                dispatch |-> draft[p].id, status |-> "Inconclusive"])

\* A native error no installed codec reads fails the call; nothing is recorded.
UnknownErrorCodec(p) ==
  /\ pc[p] = "send"
  /\ sends' = [sends EXCEPT ![draft[p].id] = @ + 1]
  /\ Fate(p)
  /\ Return(p)
  /\ UNCHANGED <<storeVars, drawn, existing>>

\* Observation or preparation fails: so does the call.
ProviderFails(p) ==
  /\ pc[p] \in {"observe", "prepare"}
  /\ Return(p)
  /\ UNCHANGED <<storeVars, drawn, remoteVars>>

\* The process dies; its memory, and any authority to send, dies with it.
Crash(p) ==
  /\ pc[p] # "idle"
  /\ Return(p)
  /\ UNCHANGED <<storeVars, drawn, remoteVars>>

-----------------------------------------------------------------------------
Send(p) == Accepted(p) \/ Rejected(p) \/ Uncertain(p) \/ UnknownErrorCodec(p)

Begin(p) ==
  BeginRun(p) \/ BeginObserve(p) \/ BeginAcceptRisk(p) \/ BeginSupersede(p)

Step(p) ==
  \/ Consider(p) \/ ConsiderObservation(p) \/ EndPass(p)
  \/ Observe(p) \/ Decide(p) \/ Prepare(p) \/ ProviderFails(p)
  \/ Commit(p) \/ Reconcile(p) \/ Send(p)
  \/ ReadForFact(p) \/ AppendFact(p)

\* Nothing is under way, and nobody need call again.
Rest == (\A p \in Process : pc[p] = "idle") /\ UNCHANGED vars

Environment == (\E x \in inflight : Land(x)) \/ (\E x \in wire : Deliver(x))

Next ==
  \/ \E p \in Process : Begin(p) \/ Step(p) \/ Crash(p)
  \/ Environment
  \/ Rest

Spec == Init /\ [][Next]_vars

\* Every effect of the code is bounded by a timeout, so a call that is under
\* way always takes its next step.  Nobody has to call, crash or deliver.
FairSpec == Spec /\ \A p \in Process : WF_vars(Step(p))

=============================================================================
