--------------------------- MODULE ApplicationProofs ---------------------------
(***************************************************************************)
(* The application runner, over any number of processes, runners, runs and *)
(* any plan.  A step of a runner is a step of the executor or leaves it    *)
(* alone, so what is proved of the executor holds under the runner.        *)
(*                                                                         *)
(* The budget is spent across runs, and the report between two of them     *)
(* counts the dispatches in the journal, whoever made them.  BudgetInv     *)
(* relates the two counts: a send is paid for by a start that was recorded *)
(* after the invocation was admitted, so the report never counts too few.  *)
(***************************************************************************)
EXTENDS Application, ReleaseProofs

LEMMA RunnersAreProcesses == Applications \subseteq Process
  BY ApplicationAssumption

LEMMA OptionsTyped ==
  ASSUME NEW opts \in RunOptions \cup {DefaultOptions}
  PROVE  opts.limit \in Nat
  BY ReleaseAssumption DEF DefaultOptions

\* A step of the runner's specification is one of the executor's, or none.
LEMMA RunnerSteps ==
  ASSUME [AppNext]_<<vars, appVars>>
  PROVE  [Next]_vars
  <1>1. ASSUME NEW p \in Applications, Invocation(p) PROVE [Next]_vars
    <2>1. p \in Process
      BY RunnersAreProcesses
    <2>2. Begin(p) \/ Step(p) \/ UNCHANGED vars
      BY <1>1 DEF Invocation, Invoke, Admit, RunStep, Report, Ask, RunAgain, Begin
    <2> QED BY <2>1, <2>2 DEF Next
  <1>2. ASSUME NEW p \in Applications, Stop(p) PROVE [Next]_vars
    BY <1>2, RunnersAreProcesses DEF Stop, Next
  <1>3. ASSUME Others PROVE [Next]_vars
    BY <1>3 DEF Others, Next
  <1> QED BY <1>1, <1>2, <1>3 DEF AppNext

\* Whatever a runner does is something the executor may do: every theorem about
\* the executor holds of the plans it runs (Application.ts:203, 234).
THEOREM RunnerRunsReleases == AppSpec => Spec
  <1>1. AppInit => Init
    BY DEF AppInit
  <1>2. [AppNext]_<<vars, appVars>> => [Next]_vars
    BY RunnerSteps
  <1> QED BY <1>1, <1>2, PTL DEF AppSpec, Spec

-----------------------------------------------------------------------------
(* What a step of one process leaves alone                                 *)

CallKept(q) ==
  /\ pc'[q] = pc[q] /\ draft'[q] = draft[q]
  /\ dispatches'[q] = dispatches[q] /\ options'[q] = options[q]

LEMMA ReturnKeeps ==
  ASSUME Typed, NEW p \in Process, Return(p)
  PROVE  /\ \A q \in Process \ {p} : CallKept(q)
         /\ pc'[p] = "idle" /\ dispatches'[p] = 0
  BY DEF Typed, LocalOK, Return, Goto, CallKept

LEMMA AdvanceKeeps ==
  ASSUME Typed, NEW p \in Process, Advance(p)
  PROVE  /\ \A q \in Process \ {p} : CallKept(q)
         /\ pc'[p] = "consider"
         /\ dispatches' = dispatches /\ options' = options
  BY DEF Typed, LocalOK, Advance, Goto, CallKept, callVars

LEMMA RecordKeeps ==
  ASSUME Typed, NEW p \in Process, NEW event, Record(p, event),
         \/ UNCHANGED dispatches
         \/ dispatches' = [dispatches EXCEPT ![p] = @ + 1]
  PROVE  /\ \A q \in Process \ {p} : CallKept(q)
         /\ pc'[p] = "record" /\ options' = options
  BY DEF Typed, LocalOK, Record, Goto, CallKept, callVars

\* How a run under way may go on: it ends, it sends, or it goes on within what
\* its options still allow.
Spending == {"prepare", "commit", "reconcile", "send"}

Ends(p) == pc'[p] = "idle" /\ dispatches'[p] = 0

Sends(p) ==
  /\ pc[p] = "send" /\ pc'[p] = "record" /\ journal' = journal
  /\ dispatches'[p] = dispatches[p] + 1 /\ options'[p] = options[p]

Proceeds(p) ==
  /\ pc'[p] # "idle" /\ sends' = sends
  /\ dispatches'[p] = dispatches[p] /\ options'[p] = options[p]
  /\ pc'[p] \in Spending => pc[p] \in Spending \/ dispatches[p] < options[p].limit
  /\ pc'[p] \in {"reconcile", "send"} =>
       /\ draft'[p] = draft[p]
       /\ pc[p] \in {"reconcile", "send"} \/ ~Recorded(draft[p].id)

Moved(p) ==
  /\ \A q \in Process \ {p} : CallKept(q)
  /\ Ends(p) \/ Sends(p) \/ Proceeds(p)

LEMMA ReturnMoves ==
  ASSUME Typed, NEW p \in Process, Return(p)
  PROVE  Moved(p)
  BY ReturnKeeps DEF Moved, Ends

LEMMA AdvanceMoves ==
  ASSUME Typed, NEW p \in Process, Advance(p), UNCHANGED sends
  PROVE  Moved(p)
  BY AdvanceKeeps DEF Moved, Proceeds, Spending

\* Steps that only move a process on.
LEMMA GotoMoves ==
  ASSUME Typed, NEW p \in Process, UNCHANGED <<sends, draft, dispatches, options>>,
         NEW label \in Control \ {"idle"}, pc' = [pc EXCEPT ![p] = label],
         label \in Spending => pc[p] \in Spending \/ dispatches[p] < options[p].limit,
         label \in {"reconcile", "send"} =>
           pc[p] \in {"reconcile", "send"} \/ ~Recorded(draft[p].id)
  PROVE  Moved(p)
  BY DEF Typed, LocalOK, Moved, Proceeds, CallKept, Spending, Control

LEMMA AfterFactMoves ==
  ASSUME Typed, NEW p \in Process, AfterFact(p), UNCHANGED sends
  PROVE  Moved(p)
  <1>1. CASE duty[p] = "Run" /\ draft[p].tag = "ObservationRecorded"
    <2>1. /\ pc' = [pc EXCEPT ![p] = "decide"]
          /\ draft' = [draft EXCEPT ![p] = NoDraft]
          /\ UNCHANGED <<dispatches, options>>
      BY <1>1 DEF AfterFact, Goto, callVars, loopVars
    <2> QED BY <2>1 DEF Typed, LocalOK, Moved, Proceeds, CallKept, Spending
  <1>2. CASE duty[p] \in {"Risk", "Supersede"}
    <2>1. Return(p)
      BY <1>2 DEF AfterFact
    <2> QED BY <2>1, ReturnMoves
  <1>3. CASE /\ ~(duty[p] = "Run" /\ draft[p].tag = "ObservationRecorded")
             /\ duty[p] \notin {"Risk", "Supersede"}
    <2>1. Advance(p)
      BY <1>3 DEF AfterFact
    <2> QED BY <2>1, AdvanceMoves
  <1> QED BY <1>1, <1>2, <1>3

LEMMA LoopMoves ==
  ASSUME Typed, NEW p \in Process,
         \/ Consider(p) \/ ConsiderObservation(p) \/ EndPass(p) \/ Decide(p)
         \/ ProviderFails(p) \/ Crash(p)
  PROVE  Moved(p)
  <1>1. UNCHANGED sends
    BY DEF Consider, ConsiderObservation, EndPass, Decide, ProviderFails, Crash,
           remoteVars
  <1>2. ASSUME UNCHANGED <<pc, draft, dispatches, options>>, pc[p] = "consider"
        PROVE  Moved(p)
    BY <1>1, <1>2 DEF Moved, Proceeds, CallKept, Spending
  <1>3. ASSUME Consider(p) PROVE Moved(p)
    <2>1. \/ Advance(p)
          \/ /\ UNCHANGED <<draft, dispatches, options>>
             /\ \/ pc' = [pc EXCEPT ![p] = "observe"]
                \/ pc' = [pc EXCEPT ![p] = "prepare"] /\ dispatches[p] < options[p].limit
                \/ pc' = pc /\ pc[p] = "consider"
      BY <1>3 DEF Consider, CanDispatch, Goto, callVars
    <2> QED BY <1>1, <1>2, <2>1, AdvanceMoves, GotoMoves DEF Control, Spending
  <1>4. ASSUME ConsiderObservation(p) PROVE Moved(p)
    <2>1. \/ Advance(p)
          \/ /\ pc' = [pc EXCEPT ![p] = "observe"]
             /\ UNCHANGED <<draft, dispatches, options>>
      BY <1>4 DEF ConsiderObservation, Goto, callVars, loopVars
    <2> QED BY <1>1, <2>1, AdvanceMoves, GotoMoves DEF Control, Spending
  <1>5. ASSUME EndPass(p) PROVE Moved(p)
    BY <1>2, <1>5, ReturnMoves DEF EndPass, callVars
  <1>6. ASSUME Decide(p) PROVE Moved(p)
    <2>1. \/ Advance(p)
          \/ /\ pc' = [pc EXCEPT ![p] = "prepare"] /\ dispatches[p] < options[p].limit
             /\ UNCHANGED <<draft, dispatches, options>>
      BY <1>6 DEF Decide, CanDispatch, Goto, callVars, loopVars
    <2> QED BY <1>1, <2>1, AdvanceMoves, GotoMoves DEF Control, Spending
  <1> QED BY <1>3, <1>4, <1>5, <1>6, ReturnMoves DEF ProviderFails, Crash

LEMMA ObserveMoves ==
  ASSUME Typed, NEW p \in Process, Observe(p)
  PROVE  Moved(p)
  <1>1. \E event : Record(p, event)
    BY DEF Observe
  <1>2. UNCHANGED <<sends, dispatches>>
    BY DEF Observe, remoteVars
  <1> QED BY <1>1, <1>2, RecordKeeps DEF Moved, Proceeds, Spending

LEMMA PrepareMoves ==
  ASSUME Typed, NEW p \in Process, Prepare(p)
  PROVE  Moved(p)
  <1>1. UNCHANGED sends /\ pc[p] = "prepare"
    BY DEF Prepare, remoteVars
  <1>2. \/ Advance(p)
        \/ \E event : /\ draft' = [draft EXCEPT ![p] = event]
                      /\ pc' = [pc EXCEPT ![p] = "commit"]
                      /\ UNCHANGED <<dispatches, options>>
    BY DEF Prepare, Goto, callVars, loopVars
  <1>3. ASSUME NEW event, draft' = [draft EXCEPT ![p] = event],
               pc' = [pc EXCEPT ![p] = "commit"], UNCHANGED <<dispatches, options>>
        PROVE  Moved(p)
    BY <1>1, <1>3 DEF Typed, LocalOK, Moved, Proceeds, CallKept, Spending
  <1> QED BY <1>1, <1>2, <1>3, AdvanceMoves

LEMMA CommitMoves ==
  ASSUME Typed, NEW p \in Process, Commit(p) \/ Reconcile(p)
  PROVE  Moved(p)
  <1>1. UNCHANGED sends /\ pc[p] \in Spending
    BY DEF Commit, Reconcile, remoteVars, Spending
  <1>2. ASSUME Commit(p) PROVE Moved(p)
    <2>1. PICK result \in AppendResult :
            /\ StoreAppend(base[p], draft[p], result)
            /\ \/ /\ result \in {"Appended", "AmbiguousStorageOutcome"}
                  /\ \/ pc' = [pc EXCEPT ![p] = "send"]
                     \/ pc' = [pc EXCEPT ![p] = "reconcile"]
                  /\ UNCHANGED <<draft, dispatches, options>>
               \/ Advance(p)
      BY <1>2 DEF Commit, Goto, callVars, loopVars
    <2>2. result \in {"Appended", "AmbiguousStorageOutcome"} => ~Recorded(draft[p].id)
      BY <2>1 DEF StoreAppend
    <2> QED BY <1>1, <2>1, <2>2, AdvanceMoves, GotoMoves DEF Control
  <1>3. ASSUME Reconcile(p) PROVE Moved(p)
    <2>1. \/ Advance(p)
          \/ /\ pc' = [pc EXCEPT ![p] = "send"] /\ pc[p] = "reconcile"
             /\ UNCHANGED <<draft, dispatches, options>>
      BY <1>3 DEF Reconcile, Goto, callVars, loopVars
    <2> QED BY <1>1, <2>1, AdvanceMoves, GotoMoves DEF Control
  <1> QED BY <1>2, <1>3

LEMMA SendMoves ==
  ASSUME Typed, NEW p \in Process, Send(p)
  PROVE  Moved(p)
  <1>1. ASSUME Accepted(p) \/ Rejected(p) \/ Uncertain(p) PROVE Moved(p)
    <2>1. /\ Transmit(p)
          /\ \E event : Record(p, event)
      BY <1>1 DEF Accepted, Rejected, Uncertain
    <2>2. /\ pc[p] = "send" /\ journal' = journal
          /\ dispatches' = [dispatches EXCEPT ![p] = @ + 1]
      BY <2>1 DEF Transmit, storeVars
    <2>3. dispatches'[p] = dispatches[p] + 1
      BY <2>2 DEF Typed, LocalOK
    <2> QED BY <2>1, <2>2, <2>3, RecordKeeps DEF Moved, Sends
  <1>2. ASSUME UnknownErrorCodec(p) PROVE Moved(p)
    BY <1>2, ReturnMoves DEF UnknownErrorCodec
  <1> QED BY <1>1, <1>2 DEF Send

LEMMA FactMoves ==
  ASSUME Typed, NEW p \in Process, ReadForFact(p) \/ AppendFact(p)
  PROVE  Moved(p)
  <1>1. UNCHANGED sends
    BY DEF ReadForFact, AppendFact, remoteVars
  <1>2. \/ AfterFact(p) \/ Return(p)
        \/ /\ \/ pc' = [pc EXCEPT ![p] = "append"]
              \/ pc' = [pc EXCEPT ![p] = "record"]
           /\ UNCHANGED <<draft, dispatches, options>>
    BY DEF ReadForFact, AppendFact, Goto, callVars, loopVars
  <1> QED BY <1>1, <1>2, AfterFactMoves, ReturnMoves, GotoMoves DEF Control, Spending

LEMMA StepMoves ==
  ASSUME Typed, NEW p \in Process, Step(p) \/ Crash(p)
  PROVE  Moved(p)
  BY LoopMoves, ObserveMoves, PrepareMoves, CommitMoves, SendMoves, FactMoves DEF Step

LEMMA BeginKeeps ==
  ASSUME Typed, NEW p \in Process, Begin(p)
  PROVE  \A q \in Process \ {p} : CallKept(q)
  <1>1. CASE BeginRun(p) \/ BeginObserve(p)
    BY <1>1 DEF Typed, LocalOK, BeginRun, BeginObserve, Goto, CallKept, loopVars
  <1>2. CASE BeginAcceptRisk(p) \/ BeginSupersede(p)
    <2>1. /\ \E event : draft' = [draft EXCEPT ![p] = event]
          /\ pc' = [pc EXCEPT ![p] = "record"]
          /\ UNCHANGED <<dispatches, options>>
      BY <1>2 DEF BeginAcceptRisk, BeginSupersede, Goto, loopVars
    <2> QED BY <2>1 DEF Typed, LocalOK, CallKept
  <1> QED BY <1>1, <1>2 DEF Begin

-----------------------------------------------------------------------------
(* Dispatches in the journal                                               *)

StartedIn(j) == {i \in DOMAIN j : j[i].tag = "DispatchStarted"}
Started == StartedIn(journal)

LEMMA StartsCounted ==
  ASSUME NEW j \in Seq(Event)
  PROVE  /\ UNION {Starts(j, o) : o \in Op} = StartedIn(j)
         /\ IsFiniteSet(StartedIn(j)) /\ Cardinality(StartedIn(j)) \in Nat
  <1>1. UNION {Starts(j, o) : o \in Op} = StartedIn(j)
    <2>1. ASSUME NEW i \in StartedIn(j) PROVE j[i].op \in Op
      <3>1. j[i] \in Event /\ j[i].tag = "DispatchStarted"
        BY DEF StartedIn
      <3> QED BY <3>1
          DEF Event, StartEvent, ReceiptEvent, RejectionEvent, ObservationEvent,
              DispatchErrorEvent, RiskEvent, SupersededEvent
    <2> QED BY <2>1 DEF Starts, StartedIn
  <1>2. IsFiniteSet(StartedIn(j))
    <2>1. IsFiniteSet(1..Len(j))
      BY FS_Interval
    <2>2. StartedIn(j) \subseteq 1..Len(j)
      BY DEF StartedIn
    <2> QED BY <2>1, <2>2, FS_Subset
  <1> QED BY <1>1, <1>2, FS_CardinalityType

\* The count never goes down, and a start that is appended raises it.
LEMMA DispatchedGrows ==
  ASSUME Sound, Sound', Grown
  PROVE  /\ Dispatched \in Nat /\ Dispatched' \in Nat /\ Dispatched <= Dispatched'
         /\ \A e \in Event :
              journal' = Append(journal, e) /\ e.tag = "DispatchStarted"
                => Dispatched' = Dispatched + 1
  <1>1. journal \in Seq(Event) /\ journal' \in Seq(Event)
    BY DEF Sound, Typed, StoreOK
  <1>2. /\ Dispatched = Cardinality(Started) /\ IsFiniteSet(Started)
        /\ Dispatched \in Nat
    BY <1>1, StartsCounted DEF Dispatched, Started
  <1>3. /\ Dispatched' = Cardinality(Started') /\ IsFiniteSet(Started')
        /\ Dispatched' \in Nat
    BY <1>1, StartsCounted DEF Dispatched, Started
  <1>4. Started \subseteq Started'
    BY <1>1 DEF Started, StartedIn, Grown
  <1>5. Dispatched <= Dispatched'
    BY <1>2, <1>3, <1>4, FS_Subset
  <1>6. ASSUME NEW e \in Event, journal' = Append(journal, e),
               e.tag = "DispatchStarted"
        PROVE  Dispatched' = Dispatched + 1
    <2>1. Len(journal) + 1 \notin Started
      BY <1>1 DEF Started, StartedIn
    <2>2. Started' = Started \cup {Len(journal) + 1}
      BY <1>1, <1>6 DEF Started, StartedIn
    <2> QED BY <1>2, <1>3, <2>1, <2>2, FS_AddElement
  <1> QED BY <1>2, <1>3, <1>5, <1>6

\* A send that becomes owed is a dispatch that becomes recorded.
LEMMA OwedCounted ==
  ASSUME Licensed, Licensed', Grown, NEW p \in Process,
         pc'[p] \in {"reconcile", "send"} =>
           /\ draft'[p] = draft[p]
           /\ pc[p] \in {"reconcile", "send"} \/ ~Recorded(draft[p].id)
  PROVE  /\ Owed(p) \in 0..1 /\ Owed(p)' \in 0..1
         /\ Owed(p)' + Dispatched <= Owed(p) + Dispatched'
  <1>1. /\ Dispatched \in Nat /\ Dispatched' \in Nat /\ Dispatched <= Dispatched'
        /\ \A e \in Event : journal' = Append(journal, e) /\ e.tag = "DispatchStarted"
             => Dispatched' = Dispatched + 1
    BY DispatchedGrows DEF Licensed
  <1>2. Owed(p) \in 0..1 /\ Owed(p)' \in 0..1
    BY DEF Owed
  <1>3. CASE Owed(p)' = 0
    BY <1>1, <1>2, <1>3
  <1>4. CASE Owed(p) = 1
    BY <1>1, <1>2, <1>4
  <1>5. CASE Owed(p)' # 0 /\ Owed(p) # 1
    <2>1. /\ pc'[p] \in {"reconcile", "send"} /\ draft'[p] = draft[p]
          /\ Recorded(draft[p].id)' /\ ~Recorded(draft[p].id)
      BY <1>5 DEF Owed
    <2>2. PICK i \in DOMAIN journal' : journal'[i].id = draft'[p].id
      BY <2>1 DEF Recorded, Ids
    <2>3. journal \in Seq(Event)
      BY DEF Licensed, Sound, Typed, StoreOK
    <2>4. PICK e \in Event : journal' = Append(journal, e)
      BY <2>1 DEF Grown, Recorded
    <2>5. i = Len(journal) + 1
      BY <2>1, <2>2, <2>3, <2>4 DEF Recorded, Ids
    <2>6. journal'[i].tag = "DispatchStarted"
      BY <2>1, <2>2 DEF Licensed, UnsentAt, NamesStart, Starting
    <2>7. e.tag = "DispatchStarted"
      BY <2>3, <2>4, <2>5, <2>6
    <2> QED BY <1>1, <1>2, <2>4, <2>7
  <1> QED BY <1>2, <1>3, <1>4, <1>5

\* The authority to send is held for a start that is recorded.
LEMMA SenderOwes ==
  ASSUME Licensed, NEW p \in Process, pc[p] = "send"
  PROVE  Owed(p) = 1
  BY DEF Licensed, UnsentAt, Starting, Owed

-----------------------------------------------------------------------------
(* The runner's own state                                                  *)

AppKept(q) ==
  /\ stage'[q] = stage[q] /\ invoked'[q] = invoked[q] /\ before'[q] = before[q]
  /\ remaining'[q] = remaining[q] /\ handled'[q] = handled[q]
  /\ rejected'[q] = rejected[q] /\ asked'[q] = asked[q] /\ spent'[q] = spent[q]

\* What a runner holds when it has returned, failed or died.
Cleared(p) ==
  /\ stage'[p] = "off" /\ invoked'[p] = DefaultOptions /\ before'[p] = 0
  /\ remaining'[p] = 0 /\ handled'[p] = {} /\ rejected'[p] = {}
  /\ asked'[p] = NeverAsked /\ spent'[p] = 0

LEMMA LeaveClears ==
  ASSUME AppTypeOK, NEW p \in Applications, Leave(p)
  PROVE  /\ Cleared(p) /\ AppTypeOK'
         /\ \A q \in Applications \ {p} : AppKept(q)
  <1>1. Cleared(p) /\ \A q \in Applications \ {p} : AppKept(q)
    BY DEF AppTypeOK, Leave, Enter, Cleared, AppKept
  <1>2. AppTypeOK'
    <2>1. NeverAsked \in [Op -> Nat]
      BY DEF NeverAsked
    <2> QED BY <2>1 DEF AppTypeOK, Leave, Enter, Stage
  <1> QED BY <1>1, <1>2

LEMMA LeftTyped ==
  ASSUME AppTypeOK, Sound, NEW p \in Applications
  PROVE  /\ invoked[p].limit \in Nat /\ Dispatched \in Nat
         /\ Left(p) = invoked[p].limit - (Dispatched - before[p])
         /\ Left(p) > 0 => Left(p) \in Nat
  <1>1. invoked[p].limit \in Nat /\ before[p] \in Nat
    BY OptionsTyped DEF AppTypeOK
  <1>2. Dispatched \in Nat
    BY StartsCounted DEF Dispatched, Sound, Typed, StoreOK
  <1> QED BY <1>1, <1>2 DEF Left

\* Each step of a runner, as what it does to the runner's own state.
LEMMA InvokeActs ==
  ASSUME AppTypeOK, NEW p \in Applications, Invoke(p)
  PROVE  /\ AppTypeOK' /\ \A q \in Applications \ {p} : AppKept(q)
         /\ stage[p] = "off" /\ stage'[p] = "admit"
         /\ handled'[p] = handled[p] /\ asked'[p] = asked[p] /\ spent'[p] = spent[p]
  BY DEF AppTypeOK, Invoke, Enter, AppKept, Stage

LEMMA AdmitActs ==
  ASSUME AppTypeOK, Sound, NEW p \in Applications, Admit(p)
  PROVE  /\ AppTypeOK' /\ \A q \in Applications \ {p} : AppKept(q)
         /\ stage[p] = "admit" /\ stage'[p] = "run"
         /\ before'[p] = Dispatched /\ invoked'[p] = invoked[p]
         /\ handled'[p] = handled[p] /\ asked'[p] = asked[p] /\ spent'[p] = spent[p]
  BY LeftTyped DEF AppTypeOK, Admit, Enter, AppKept, Stage

LEMMA RunStepActs ==
  ASSUME AppTypeOK, NEW p \in Applications, RunStep(p)
  PROVE  /\ AppTypeOK' /\ \A q \in Applications \ {p} : AppKept(q)
         /\ stage[p] = "run"
         /\ \/ /\ pc'[p] # "idle" \/ pc[p] = "consider"
               /\ stage'[p] = IF pc'[p] = "idle" THEN "report" ELSE "run"
               /\ spent'[p] = spent[p] + (IF sends' = sends THEN 0 ELSE 1)
               /\ invoked'[p] = invoked[p] /\ before'[p] = before[p]
               /\ handled'[p] = handled[p] /\ asked'[p] = asked[p]
            \/ pc'[p] = "idle" /\ Cleared(p)
  <1>1. CASE pc'[p] = "idle" /\ pc[p] # "consider"
    <2>1. stage[p] = "run" /\ Leave(p)
      BY <1>1 DEF RunStep
    <2> QED BY <1>1, <2>1, LeaveClears
  <1>2. CASE pc'[p] # "idle" \/ pc[p] = "consider"
    <2>1. /\ Enter(p, IF pc'[p] = "idle" THEN "report" ELSE "run")
          /\ spent' = [spent EXCEPT ![p] = IF sends' = sends THEN @ ELSE @ + 1]
          /\ UNCHANGED <<invoked, before, remaining, handled, rejected, asked>>
          /\ stage[p] = "run" /\ (pc'[p] # "idle" \/ pc[p] = "consider")
      BY <1>2 DEF RunStep
    <2>2. stage' = [stage EXCEPT ![p] = IF pc'[p] = "idle" THEN "report" ELSE "run"]
      BY <2>1 DEF Enter
    <2>3. AppTypeOK' /\ \A q \in Applications \ {p} : AppKept(q)
      BY <2>1, <2>2 DEF AppTypeOK, AppKept, Stage
    <2>4. spent'[p] = spent[p] + (IF sends' = sends THEN 0 ELSE 1)
      BY <2>1 DEF AppTypeOK
    <2>5. stage'[p] = IF pc'[p] = "idle" THEN "report" ELSE "run"
      BY <2>2 DEF AppTypeOK
    <2> QED BY <2>1, <2>3, <2>4, <2>5
  <1> QED BY <1>1, <1>2

LEMMA ReportActs ==
  ASSUME AppTypeOK, Sound, NEW p \in Applications, Report(p)
  PROVE  /\ AppTypeOK' /\ \A q \in Applications \ {p} : AppKept(q)
         /\ stage[p] = "report"
         /\ \/ /\ stage'[p] = "ask" /\ remaining'[p] = Left(p)
               /\ rejected'[p] \cap handled[p] = {}
               /\ invoked'[p] = invoked[p] /\ before'[p] = before[p]
               /\ handled'[p] = handled[p] /\ asked'[p] = asked[p]
               /\ spent'[p] = spent[p]
            \/ Cleared(p)
  <1>1. CASE Leave(p)
    BY <1>1, LeaveClears DEF Report
  <1>2. CASE ~Leave(p)
    <2>1. /\ stage[p] = "report" /\ Left(p) > 0 /\ Rejections \cap handled[p] = {}
          /\ remaining' = [remaining EXCEPT ![p] = Left(p)]
          /\ rejected' = [rejected EXCEPT ![p] = Rejections]
          /\ stage' = [stage EXCEPT ![p] = "ask"]
          /\ UNCHANGED <<invoked, before, handled, asked, spent>>
      BY <1>2 DEF Report, Enter, AskedBefore
    <2>2. Left(p) \in Nat /\ Rejections \subseteq Op
      BY <2>1, LeftTyped DEF Rejections
    <2> QED BY <2>1, <2>2 DEF AppTypeOK, AppKept, Stage
  <1> QED BY <1>1, <1>2

LEMMA AskActs ==
  ASSUME AppTypeOK, NEW p \in Applications, Ask(p)
  PROVE  /\ AppTypeOK' /\ \A q \in Applications \ {p} : AppKept(q)
         /\ stage[p] = "ask"
         /\ \/ /\ stage'[p] \in {"ask", "again"}
               /\ \E o \in rejected[p] :
                    /\ handled'[p] = handled[p] \cup {o}
                    /\ asked'[p] = [asked[p] EXCEPT ![o] = @ + 1]
                    /\ rejected'[p] = rejected[p] \ {o}
               /\ invoked'[p] = invoked[p] /\ before'[p] = before[p]
               /\ remaining'[p] = remaining[p] /\ spent'[p] = spent[p]
            \/ Cleared(p)
  <1>1. CASE Leave(p)
    BY <1>1, LeaveClears DEF Ask
  <1>2. CASE ~Leave(p)
    <2>1. PICK i \in DOMAIN Ops :
            /\ Ops[i] \in rejected[p]
            /\ handled' = [handled EXCEPT ![p] = @ \cup {Ops[i]}]
            /\ asked' = [asked EXCEPT ![p][Ops[i]] = @ + 1]
            /\ rejected' = [rejected EXCEPT ![p] = @ \ {Ops[i]}]
            /\ stage' = [stage EXCEPT ![p] = IF rejected[p] = {Ops[i]} THEN "again"
                                             ELSE "ask"]
            /\ UNCHANGED <<invoked, before, remaining, spent>>
      BY <1>2 DEF Ask, Enter
    <2> DEFINE o == Ops[i]
    <2>2. o \in rejected[p] /\ o \in Op
      BY <2>1 DEF AppTypeOK
    <2>3. /\ handled' = [handled EXCEPT ![p] = handled[p] \cup {o}]
          /\ asked' = [asked EXCEPT ![p] = [asked[p] EXCEPT ![o] = asked[p][o] + 1]]
          /\ rejected' = [rejected EXCEPT ![p] = rejected[p] \ {o}]
          /\ stage' = [stage EXCEPT ![p] = IF rejected[p] = {o} THEN "again" ELSE "ask"]
      BY <2>1
    <2> HIDE DEF o
    <2>4. [asked[p] EXCEPT ![o] = asked[p][o] + 1] \in [Op -> Nat]
      BY <2>2 DEF AppTypeOK
    <2>5. AppTypeOK' /\ \A q \in Applications \ {p} : AppKept(q)
      BY <2>1, <2>2, <2>3, <2>4 DEF AppTypeOK, AppKept, Stage
    <2>6. /\ stage'[p] \in {"ask", "again"}
          /\ handled'[p] = handled[p] \cup {o}
          /\ asked'[p] = [asked[p] EXCEPT ![o] = @ + 1]
          /\ rejected'[p] = rejected[p] \ {o}
      BY <2>3 DEF AppTypeOK
    <2>7. stage[p] = "ask"
      BY DEF Ask
    <2> QED BY <2>1, <2>2, <2>5, <2>6, <2>7
  <1> QED BY <1>1, <1>2

LEMMA RunAgainActs ==
  ASSUME AppTypeOK, NEW p \in Applications, RunAgain(p)
  PROVE  /\ AppTypeOK' /\ \A q \in Applications \ {p} : AppKept(q)
         /\ stage[p] = "again" /\ stage'[p] = "run"
         /\ before'[p] = before[p] /\ invoked'[p] = invoked[p]
         /\ handled'[p] = handled[p] /\ asked'[p] = asked[p] /\ spent'[p] = spent[p]
  BY DEF AppTypeOK, RunAgain, Enter, AppKept, Stage

LEMMA StopActs ==
  ASSUME AppTypeOK, NEW p \in Applications, Stop(p)
  PROVE  Cleared(p) /\ AppTypeOK' /\ \A q \in Applications \ {p} : AppKept(q)
  BY LeaveClears DEF Stop

LEMMA OthersAct ==
  ASSUME AppTypeOK, UNCHANGED appVars
  PROVE  AppTypeOK' /\ \A q \in Applications : AppKept(q)
  BY DEF AppTypeOK, appVars, AppKept

-----------------------------------------------------------------------------
(* Whom the caller was asked about                                         *)

LEMMA AskedKept ==
  ASSUME NEW q \in Applications, AskedAt(q), handled'[q] = handled[q],
         asked'[q] = asked[q],
         stage'[q] = "ask" => stage[q] = "ask" /\ rejected'[q] = rejected[q]
  PROVE  AskedAt(q)'
  BY DEF AskedAt

LEMMA AskedCleared ==
  ASSUME NEW q \in Applications, Cleared(q)
  PROVE  AskedAt(q)'
  BY DEF AskedAt, Cleared, NeverAsked

LEMMA AskedStep ==
  ASSUME AppTypeOK, Sound, AskedInv, [AppNext]_<<vars, appVars>>
  PROVE  AskedInv'
  <1>1. ASSUME NEW q \in Applications, AppKept(q) PROVE AskedAt(q)'
    BY <1>1, AskedKept DEF AskedInv, AppKept
  <1>2. ASSUME NEW p \in Applications, AskedAt(p)',
               \A q \in Applications \ {p} : AppKept(q)
        PROVE  AskedInv'
    BY <1>1, <1>2 DEF AskedInv
  <1>3. ASSUME NEW p \in Applications, handled'[p] = handled[p], asked'[p] = asked[p],
               stage'[p] # "ask", \A q \in Applications \ {p} : AppKept(q)
        PROVE  AskedInv'
    BY <1>2, <1>3, AskedKept DEF AskedInv
  <1>4. ASSUME NEW p \in Applications, Cleared(p),
               \A q \in Applications \ {p} : AppKept(q)
        PROVE  AskedInv'
    BY <1>2, <1>4, AskedCleared
  <1>5. ASSUME NEW p \in Applications, Invoke(p) \/ Admit(p) \/ RunAgain(p)
        PROVE  AskedInv'
    BY <1>3, <1>5, InvokeActs, AdmitActs, RunAgainActs
  <1>6. ASSUME NEW p \in Applications, RunStep(p) PROVE AskedInv'
    BY <1>3, <1>4, <1>6, RunStepActs
  <1>7. ASSUME NEW p \in Applications, Report(p) PROVE AskedInv'
    <2>1. CASE /\ stage'[p] = "ask" /\ rejected'[p] \cap handled[p] = {}
               /\ handled'[p] = handled[p] /\ asked'[p] = asked[p]
      <3>1. AskedAt(p)'
        BY <2>1 DEF AskedInv, AskedAt
      <3> QED BY <1>2, <1>7, <3>1, ReportActs
    <2> QED BY <1>4, <1>7, <2>1, ReportActs
  <1>8. ASSUME NEW p \in Applications, Ask(p) PROVE AskedInv'
    <2>1. ASSUME NEW o \in rejected[p], stage[p] = "ask",
                 handled'[p] = handled[p] \cup {o},
                 asked'[p] = [asked[p] EXCEPT ![o] = @ + 1],
                 rejected'[p] = rejected[p] \ {o}
          PROVE  AskedAt(p)'
      <3>1. /\ rejected[p] \cap handled[p] = {} /\ rejected[p] \subseteq Op
            /\ asked[p] \in [Op -> Nat]
            /\ \A k \in Op : asked[p][k] = IF k \in handled[p] THEN 1 ELSE 0
        BY <2>1 DEF AskedInv, AskedAt, AppTypeOK
      <3>2. ASSUME NEW k \in Op
            PROVE  asked'[p][k] = IF k \in handled'[p] THEN 1 ELSE 0
        BY <2>1, <3>1
      <3>3. rejected'[p] \cap handled'[p] = {}
        BY <2>1, <3>1
      <3> QED BY <3>2, <3>3 DEF AskedAt
    <2> QED BY <1>2, <1>4, <1>8, <2>1, AskActs
  <1>9. ASSUME NEW p \in Applications, Stop(p) PROVE AskedInv'
    BY <1>4, <1>9, StopActs
  <1>10. ASSUME UNCHANGED appVars PROVE AskedInv'
    BY <1>1, <1>10, OthersAct DEF AskedInv
  <1> QED
    BY <1>5, <1>6, <1>7, <1>8, <1>9, <1>10 DEF AppNext, Invocation, Others

-----------------------------------------------------------------------------
(* The budget                                                              *)

\* A runner that does not move keeps its accounts, whatever is dispatched.
LEMMA BudgetKeptAt ==
  ASSUME AppTypeOK, Licensed, Licensed', Grown,
         NEW q \in Applications, AppKept(q), CallKept(q), BudgetAt(q)
  PROVE  BudgetAt(q)'
  <1>1. q \in Process
    BY RunnersAreProcesses
  <1>2. /\ Owed(q) \in 0..1 /\ Owed(q)' \in 0..1
        /\ Owed(q)' + Dispatched <= Owed(q) + Dispatched'
    BY <1>1, OwedCounted DEF CallKept
  <1>3. Dispatched \in Nat /\ Dispatched' \in Nat
    BY DispatchedGrows DEF Licensed
  <1>4. before[q] \in Nat /\ spent[q] \in Nat
    BY DEF AppTypeOK
  <1>5. SpentCounted(q)'
    BY <1>2, <1>3, <1>4 DEF BudgetAt, SpentCounted, AppKept
  <1>6. WithinBudget(q)'
    BY DEF BudgetAt, WithinBudget, AppKept, CallKept
  <1> QED BY <1>5, <1>6 DEF BudgetAt, AppKept, CallKept

LEMMA BudgetCleared ==
  ASSUME NEW p \in Applications, Cleared(p), pc'[p] = "idle", dispatches'[p] = 0
  PROVE  BudgetAt(p)'
  BY DEF BudgetAt, SpentCounted, WithinBudget, Cleared

\* Nothing of the executor moves.
LEMMA NothingDispatched ==
  ASSUME UNCHANGED vars, NEW p
  PROVE  Owed(p)' = Owed(p) /\ Dispatched' = Dispatched
  BY DEF vars, Owed, Recorded, Ids, Dispatched, Starts

LEMMA RunBegins ==
  ASSUME AppTypeOK, Licensed, NEW p \in Applications, BudgetAt(p), BeginRun(p)
  PROVE  /\ pc'[p] = "consider" /\ dispatches'[p] = 0
         /\ Owed(p)' = 0 /\ Owed(p) = 0 /\ Dispatched' = Dispatched
  <1>1. p \in Process
    BY RunnersAreProcesses
  <1>2. /\ pc[p] = "idle" /\ pc' = [pc EXCEPT ![p] = "consider"]
        /\ dispatches' = dispatches /\ journal' = journal
    BY DEF BeginRun, Call, Goto, storeVars, loopVars
  <1>3. pc'[p] = "consider" /\ dispatches'[p] = 0
    BY <1>1, <1>2 DEF Licensed, Sound, Typed, LocalOK, BudgetAt
  <1> QED BY <1>2, <1>3 DEF Owed, Dispatched, Starts

\* A step of the run under way.
LEMMA RunStepBudget ==
  ASSUME AppTypeOK, AppTypeOK', Licensed, Licensed', Grown,
         NEW p \in Applications, BudgetAt(p), RunStep(p)
  PROVE  BudgetAt(p)'
  <1>1. p \in Process /\ Typed
    BY RunnersAreProcesses DEF Licensed, Sound
  <1>2. /\ stage[p] = "run" /\ Step(p) /\ pc[p] # "idle"
        /\ \/ /\ stage'[p] = IF pc'[p] = "idle" THEN "report" ELSE "run"
              /\ pc'[p] # "idle" \/ pc[p] = "consider"
              /\ spent'[p] = spent[p] + (IF sends' = sends THEN 0 ELSE 1)
              /\ invoked'[p] = invoked[p] /\ before'[p] = before[p]
           \/ pc'[p] = "idle" /\ Cleared(p)
    BY RunStepActs DEF RunStep, BudgetAt
  <1>3. /\ before[p] \in Nat /\ spent[p] \in Nat /\ dispatches[p] \in Nat
        /\ invoked[p].limit \in Nat /\ options[p].limit \in Nat
        /\ Dispatched \in Nat /\ Dispatched' \in Nat /\ Dispatched <= Dispatched'
    BY <1>1, OptionsTyped, DispatchedGrows DEF AppTypeOK, Typed, LocalOK, Licensed
  <1>4. /\ before[p] + spent[p] + Owed(p) <= Dispatched
        /\ spent[p] + options[p].limit <= invoked[p].limit + dispatches[p]
        /\ dispatches[p] <= options[p].limit
        /\ pc[p] \in Spending => dispatches[p] < options[p].limit
    BY <1>2 DEF BudgetAt, SpentCounted, WithinBudget, Spending
  <1>5. Owed(p) \in 0..1
    BY DEF Owed
  <1>6. Ends(p) \/ Sends(p) \/ Proceeds(p)
    BY <1>1, <1>2, StepMoves DEF Moved
  <1>7. CASE Ends(p)
    <2>1. CASE Cleared(p)
      BY <1>7, <2>1, BudgetCleared DEF Ends
    <2>2. CASE ~Cleared(p)
      \* The last pass ends: nothing was sent by this step.
      <3>1. pc[p] = "consider" /\ stage'[p] = "report"
        BY <1>2, <1>7, <2>2 DEF Ends
      <3>2. sends' = sends
        <4>1. ~Send(p)
          BY <3>1 DEF Send, Accepted, Rejected, Uncertain, UnknownErrorCodec, Transmit
        <4> QED BY <1>2, <4>1
            DEF Step, Consider, ConsiderObservation, EndPass, Observe, Decide, Prepare,
                ProviderFails, Commit, Reconcile, ReadForFact, AppendFact, remoteVars
      <3>3. spent'[p] = spent[p] /\ invoked'[p] = invoked[p] /\ before'[p] = before[p]
        BY <1>2, <1>3, <2>2, <3>2
      <3>4. Owed(p)' = 0
        BY <1>7 DEF Ends, Owed
      <3>5. before[p] + spent[p] <= Dispatched' /\ spent[p] <= invoked[p].limit
        BY <1>3, <1>4, <1>5
      <3>6. SpentCounted(p)'
        BY <1>3, <3>3, <3>4, <3>5 DEF SpentCounted
      <3> QED BY <1>7, <3>1, <3>3, <3>5, <3>6 DEF BudgetAt, WithinBudget, Ends
    <2> QED BY <2>1, <2>2
  <1>8. CASE Sends(p)
    <2>1. /\ stage'[p] = "run" /\ spent'[p] \in {spent[p], spent[p] + 1}
          /\ invoked'[p] = invoked[p] /\ before'[p] = before[p]
      BY <1>2, <1>3, <1>8 DEF Sends
    <2>2. Owed(p) = 1 /\ Owed(p)' = 0
      BY <1>1, <1>8, SenderOwes DEF Sends, Owed
    <2>3. before'[p] + spent'[p] + Owed(p)' <= Dispatched'
      BY <1>3, <1>4, <2>1, <2>2
    <2>4. /\ pc'[p] = "record"
          /\ dispatches'[p] = dispatches[p] + 1 /\ options'[p] = options[p]
          /\ dispatches[p] < options[p].limit
      BY <1>4, <1>8 DEF Sends, Spending
    <2>5. /\ spent'[p] + options'[p].limit <= invoked'[p].limit + dispatches'[p]
          /\ dispatches'[p] <= options'[p].limit
      BY <1>3, <1>4, <2>1, <2>4
    <2>6. WithinBudget(p)'
      BY <2>1, <2>4, <2>5 DEF WithinBudget
    <2> QED BY <2>1, <2>3, <2>4, <2>6 DEF BudgetAt, SpentCounted
  <1>9. CASE Proceeds(p)
    <2>1. /\ stage'[p] = "run" /\ spent'[p] = spent[p]
          /\ invoked'[p] = invoked[p] /\ before'[p] = before[p]
      BY <1>2, <1>3, <1>9 DEF Proceeds
    <2>2. Owed(p)' \in 0..1 /\ Owed(p)' + Dispatched <= Owed(p) + Dispatched'
      BY <1>1, <1>9, OwedCounted DEF Proceeds
    <2>3. before'[p] + spent'[p] + Owed(p)' <= Dispatched'
      BY <1>3, <1>4, <1>5, <2>1, <2>2
    <2>4. /\ dispatches'[p] = dispatches[p] /\ options'[p] = options[p]
          /\ pc'[p] # "idle"
          /\ pc'[p] \in Spending => dispatches[p] < options[p].limit
      BY <1>4, <1>9 DEF Proceeds
    <2>5. WithinBudget(p)'
      BY <1>4, <2>1, <2>4 DEF WithinBudget, Spending
    <2> QED BY <2>1, <2>3, <2>4, <2>5 DEF BudgetAt, SpentCounted
  <1> QED BY <1>6, <1>7, <1>8, <1>9

\* The steps of a runner around its runs.
LEMMA AroundRunsBudget ==
  ASSUME AppTypeOK, Licensed, NEW p \in Applications, BudgetAt(p),
         Invoke(p) \/ Admit(p) \/ Report(p) \/ Ask(p) \/ RunAgain(p) \/ Stop(p)
  PROVE  BudgetAt(p)'
  <1>1. p \in Process /\ Sound /\ Typed
    BY RunnersAreProcesses DEF Licensed, Sound
  <1>2. /\ before[p] \in Nat /\ spent[p] \in Nat /\ remaining[p] \in Nat
        /\ invoked[p].limit \in Nat /\ Dispatched \in Nat
    BY <1>1, LeftTyped DEF AppTypeOK
  <1>3. ASSUME UNCHANGED vars
        PROVE  /\ pc'[p] = pc[p] /\ dispatches'[p] = dispatches[p]
               /\ Owed(p)' = Owed(p) /\ Dispatched' = Dispatched
    BY <1>3, NothingDispatched DEF vars
  <1>4. ASSUME UNCHANGED vars, stage[p] # "run", Cleared(p) PROVE BudgetAt(p)'
    BY <1>3, <1>4, BudgetCleared DEF BudgetAt
  <1>5. ASSUME Invoke(p) PROVE BudgetAt(p)'
    <2>1. UNCHANGED vars /\ stage[p] = "off" /\ stage'[p] = "admit" /\ spent'[p] = spent[p]
      BY <1>5, InvokeActs DEF Invoke
    <2> QED BY <1>3, <2>1 DEF BudgetAt, SpentCounted, WithinBudget
  <1>6. ASSUME Admit(p) PROVE BudgetAt(p)'
    <2>1. /\ stage[p] = "admit" /\ stage'[p] = "run" /\ before'[p] = Dispatched
          /\ invoked'[p] = invoked[p] /\ spent'[p] = spent[p]
          /\ BeginRun(p) /\ options'[p] = invoked[p]
      BY <1>1, <1>6, AdmitActs DEF Admit
    <2>2. spent[p] = 0
      BY <2>1 DEF BudgetAt, WithinBudget
    <2>3. /\ pc'[p] = "consider" /\ dispatches'[p] = 0
          /\ Owed(p)' = 0 /\ Dispatched' = Dispatched
      BY <2>1, RunBegins
    <2>4. SpentCounted(p)' /\ WithinBudget(p)'
      BY <1>2, <2>1, <2>2, <2>3 DEF SpentCounted, WithinBudget
    <2> QED BY <2>1, <2>3, <2>4 DEF BudgetAt
  <1>7. ASSUME Report(p) PROVE BudgetAt(p)'
    <2>1. UNCHANGED vars /\ stage[p] = "report"
      BY <1>7 DEF Report
    <2>2. CASE /\ stage'[p] = "ask" /\ remaining'[p] = Left(p)
               /\ invoked'[p] = invoked[p] /\ before'[p] = before[p]
               /\ spent'[p] = spent[p]
      <3>1. before[p] + spent[p] + Owed(p) <= Dispatched /\ Owed(p) \in 0..1
        BY <2>1 DEF BudgetAt, SpentCounted, Owed
      <3>2. Left(p) = invoked[p].limit - (Dispatched - before[p])
        BY <1>1, LeftTyped
      <3>3. spent[p] + Left(p) <= invoked[p].limit
        BY <1>2, <3>1, <3>2
      <3>4. SpentCounted(p)' /\ WithinBudget(p)'
        BY <1>3, <2>1, <2>2, <3>1, <3>3 DEF SpentCounted, WithinBudget
      <3> QED BY <1>3, <2>1, <2>2, <3>4 DEF BudgetAt
    <2> QED BY <1>1, <1>4, <1>7, <2>1, <2>2, ReportActs
  <1>8. ASSUME Ask(p) PROVE BudgetAt(p)'
    <2>1. UNCHANGED vars /\ stage[p] = "ask"
      BY <1>8 DEF Ask
    <2>2. CASE /\ stage'[p] \in {"ask", "again"} /\ remaining'[p] = remaining[p]
               /\ invoked'[p] = invoked[p] /\ before'[p] = before[p]
               /\ spent'[p] = spent[p]
      BY <1>3, <2>1, <2>2 DEF BudgetAt, SpentCounted, WithinBudget
    <2> QED BY <1>4, <1>8, <2>1, <2>2, AskActs
  <1>9. ASSUME RunAgain(p) PROVE BudgetAt(p)'
    <2>1. /\ stage[p] = "again" /\ stage'[p] = "run" /\ before'[p] = before[p]
          /\ invoked'[p] = invoked[p] /\ spent'[p] = spent[p]
          /\ BeginRun(p) /\ options'[p] = [invoked[p] EXCEPT !.limit = remaining[p]]
      BY <1>9, RunAgainActs DEF RunAgain
    <2>2. options'[p].limit = remaining[p]
      BY <2>1, ReleaseAssumption DEF AppTypeOK, DefaultOptions
    <2>3. /\ pc'[p] = "consider" /\ dispatches'[p] = 0
          /\ Owed(p)' = 0 /\ Owed(p) = 0 /\ Dispatched' = Dispatched
      BY <2>1, RunBegins
    <2>4. /\ before[p] + spent[p] + Owed(p) <= Dispatched
          /\ spent[p] + remaining[p] <= invoked[p].limit
      BY <2>1 DEF BudgetAt, SpentCounted, WithinBudget
    <2>5. SpentCounted(p)' /\ WithinBudget(p)'
      BY <1>2, <2>1, <2>2, <2>3, <2>4 DEF SpentCounted, WithinBudget
    <2> QED BY <2>1, <2>3, <2>5 DEF BudgetAt
  <1>10. ASSUME Stop(p) PROVE BudgetAt(p)'
    <2>1. pc'[p] = "idle" /\ dispatches'[p] = 0
      <3>1. CASE pc[p] = "idle"
        BY <1>3, <1>10, <3>1 DEF Stop, BudgetAt
      <3>2. CASE pc[p] # "idle"
        <4>1. Return(p)
          BY <1>10, <3>2 DEF Stop, Crash
        <4> QED BY <1>1, <4>1, ReturnKeeps
      <3> QED BY <3>1, <3>2
    <2> QED BY <1>10, <2>1, StopActs, BudgetCleared
  <1> QED BY <1>5, <1>6, <1>7, <1>8, <1>9, <1>10

\* What a step of the runners' specification leaves alone.
LEMMA OtherCallsKept ==
  ASSUME Typed, NEW p \in Process, Begin(p) \/ Step(p) \/ Crash(p) \/ UNCHANGED vars
  PROVE  \A q \in Process \ {p} : CallKept(q)
  BY StepMoves, BeginKeeps DEF Moved, CallKept, vars

LEMMA BudgetStep ==
  ASSUME AppTypeOK, Licensed, BudgetInv, [AppNext]_<<vars, appVars>>
  PROVE  AppTypeOK' /\ BudgetInv'
  <1>1. [Next]_vars
    BY RunnerSteps
  <1>2. Licensed' /\ Sound /\ Typed /\ Grown
    BY <1>1, NextLicensed, JournalGrows DEF Licensed, Sound
  <1>3. ASSUME NEW p \in Applications, Invocation(p) \/ Stop(p)
        PROVE  AppTypeOK' /\ BudgetInv'
    <2>1. p \in Process /\ BudgetAt(p)
      BY RunnersAreProcesses DEF BudgetInv
    <2>2. AppTypeOK' /\ \A q \in Applications \ {p} : AppKept(q)
      BY <1>2, <1>3, InvokeActs, AdmitActs, RunStepActs, ReportActs, AskActs,
         RunAgainActs, StopActs DEF Invocation
    <2>3. Begin(p) \/ Step(p) \/ Crash(p) \/ UNCHANGED vars
      BY <1>3 DEF Invocation, Stop, Invoke, Admit, RunStep, Report, Ask, RunAgain, Begin
    <2>4. \A q \in Applications \ {p} : CallKept(q)
      BY <1>2, <2>1, <2>3, OtherCallsKept, RunnersAreProcesses
    <2>5. BudgetAt(p)'
      BY <1>2, <1>3, <2>1, <2>2, RunStepBudget, AroundRunsBudget DEF Invocation
    <2>6. ASSUME NEW q \in Applications, q # p PROVE BudgetAt(q)'
      BY <1>2, <2>2, <2>4, <2>6, BudgetKeptAt DEF BudgetInv
    <2> QED BY <2>2, <2>5, <2>6 DEF BudgetInv
  <1>4. ASSUME UNCHANGED appVars, \A q \in Applications : CallKept(q)
        PROVE  AppTypeOK' /\ BudgetInv'
    BY <1>2, <1>4, OthersAct, BudgetKeptAt DEF BudgetInv
  <1>5. ASSUME Others PROVE \A q \in Applications : CallKept(q)
    <2>1. ASSUME NEW p \in Process \ Applications, Begin(p) \/ Step(p) \/ Crash(p)
          PROVE  \A q \in Applications : CallKept(q)
      BY <1>2, <2>1, OtherCallsKept, RunnersAreProcesses
    <2>2. ASSUME Environment \/ Rest
          PROVE  \A q \in Applications : CallKept(q)
      BY <2>2 DEF Environment, Land, Deliver, Rest, CallKept, vars, callVars, loopVars
    <2> QED BY <1>5, <2>1, <2>2 DEF Others
  <1>6. ASSUME UNCHANGED <<vars, appVars>> PROVE \A q \in Applications : CallKept(q)
    BY <1>6 DEF CallKept, vars
  <1> QED BY <1>3, <1>4, <1>5, <1>6 DEF AppNext, Others

-----------------------------------------------------------------------------
(* The theorems                                                            *)

LEMMA AppInitHolds ==
  ASSUME AppInit
  PROVE  AppTypeOK /\ AskedInv /\ BudgetInv
  <1>1. NeverAsked \in [Op -> Nat]
    BY DEF NeverAsked
  <1>2. AppTypeOK /\ AskedInv
    BY <1>1 DEF AppInit, AppTypeOK, Stage, AskedInv, AskedAt, NeverAsked
  <1>3. BudgetInv
    BY RunnersAreProcesses
       DEF AppInit, Init, BudgetInv, BudgetAt, SpentCounted, WithinBudget
  <1> QED BY <1>2, <1>3

LEMMA RunnerSound ==
  AppSpec => [](AppTypeOK /\ AskedInv /\ BudgetInv)
  <1>1. AppInit => AppTypeOK /\ AskedInv /\ BudgetInv
    BY AppInitHolds
  <1>2. /\ AppTypeOK /\ AskedInv /\ BudgetInv /\ ExecutorInv
        /\ [AppNext]_<<vars, appVars>>
        => (AppTypeOK /\ AskedInv /\ BudgetInv)'
    BY LicensedParts, BudgetStep, AskedStep DEF Licensed
  <1>3. AppSpec => []ExecutorInv
    BY RunnerRunsReleases, ExecutorIsSound, PTL
  <1> QED BY <1>1, <1>2, <1>3, PTL DEF AppSpec

\* An invocation never sends more often than its caller allowed, however many
\* runs it takes, whatever other processes dispatch meanwhile, and wherever an
\* append was lost or late (Application.ts:205-239).
THEOREM BudgetIsKept == AppSpec => []BudgetKept
  <1>1. ASSUME AppTypeOK, ExecutorInv, BudgetInv PROVE BudgetKept
    <2>1. ASSUME NEW p \in Applications PROVE spent[p] <= invoked[p].limit
      <3>1. /\ invoked[p].limit \in Nat /\ spent[p] \in Nat /\ remaining[p] \in Nat
            /\ options[p].limit \in Nat /\ dispatches[p] \in Nat
        BY <1>1, OptionsTyped, RunnersAreProcesses, LicensedParts
           DEF AppTypeOK, Licensed, Sound, Typed, LocalOK
      <3>2. stage[p] \in Stage /\ WithinBudget(p)
        BY <1>1 DEF AppTypeOK, BudgetInv, BudgetAt
      <3> QED BY <3>1, <3>2 DEF Stage, WithinBudget
    <2> QED BY <2>1 DEF BudgetKept
  <1>2. AppSpec => []ExecutorInv
    BY RunnerRunsReleases, ExecutorIsSound, PTL
  <1> QED BY <1>1, <1>2, RunnerSound, PTL

\* The caller is asked about each operation at most once in an invocation, so
\* an operation rejected for ever ends the loop (Application.ts:52).
THEOREM CallerIsAskedOnce == AppSpec => []AskedOnce
  <1>1. AskedInv => AskedOnce
    BY DEF AskedInv, AskedAt, AskedOnce
  <1> QED BY <1>1, RunnerSound, PTL

=============================================================================
