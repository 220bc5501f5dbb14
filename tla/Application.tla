------------------------------ MODULE Application ------------------------------
(***************************************************************************)
(* The application runner: one invocation runs the release, and while      *)
(* providers prove that dispatches were refused before they committed it   *)
(* asks the caller to put the reason right and runs again, within one      *)
(* budget of dispatches.  executeApplication in                            *)
(* packages/ts-release/src/platform/Application.ts, over the executor of   *)
(* module Release, beside processes that call runRelease themselves.       *)
(***************************************************************************)
EXTENDS Release

CONSTANT Applications  \* the processes that are application runners

ASSUME ApplicationAssumption == Applications \subseteq Process

VARIABLES
  stage,      \* where each invocation is
  invoked,    \* the options it was called with
  before,     \* dispatches the plan had when it was admitted
  remaining,  \* what is left of the budget for the next run
  handled,    \* operations its caller was asked about
  rejected,   \* operations it is about to ask about
  asked,      \* how often it asked about each, for the properties only
  spent       \* sends of this invocation, for the properties only

appVars == <<stage, invoked, before, remaining, handled, rejected, asked, spent>>

Stage == {"off", "admit", "run", "report", "ask", "again"}

NeverAsked == [o \in Op |-> 0]

AppInit ==
  /\ Init
  /\ stage = [p \in Applications |-> "off"]
  /\ invoked = [p \in Applications |-> DefaultOptions]
  /\ before = [p \in Applications |-> 0]
  /\ remaining = [p \in Applications |-> 0]
  /\ handled = [p \in Applications |-> {}]
  /\ rejected = [p \in Applications |-> {}]
  /\ asked = [p \in Applications |-> NeverAsked]
  /\ spent = [p \in Applications |-> 0]

Enter(p, next) == stage' = [stage EXCEPT ![p] = next]

\* What the invocation was doing is forgotten when it returns, fails or dies.
Leave(p) ==
  /\ Enter(p, "off")
  /\ invoked' = [invoked EXCEPT ![p] = DefaultOptions]
  /\ before' = [before EXCEPT ![p] = 0]
  /\ remaining' = [remaining EXCEPT ![p] = 0]
  /\ handled' = [handled EXCEPT ![p] = {}]
  /\ rejected' = [rejected EXCEPT ![p] = {}]
  /\ asked' = [asked EXCEPT ![p] = NeverAsked]
  /\ spent' = [spent EXCEPT ![p] = 0]

\* The dispatches a report adds up, whoever made them.
Dispatched == Cardinality(UNION {Starts(journal, o) : o \in Op})

-----------------------------------------------------------------------------
Invoke(p) ==
  /\ stage[p] = "off" /\ HasIdsFor(p, "Run")
  /\ \E opts \in RunOptions : invoked' = [invoked EXCEPT ![p] = opts]
  /\ Enter(p, "admit")
  /\ UNCHANGED <<vars, before, remaining, handled, rejected, asked, spent>>

\* The report before the first run is where the budget is counted from.
Admit(p) ==
  /\ stage[p] = "admit"
  /\ before' = [before EXCEPT ![p] = Dispatched]
  /\ BeginRun(p) /\ options'[p] = invoked[p]
  /\ Enter(p, "run")
  /\ UNCHANGED <<invoked, remaining, handled, rejected, asked, spent>>

\* A step of runRelease.  It returns at the end of its last pass; a return from
\* anywhere else is a failure, which the invocation passes on.
RunStep(p) ==
  /\ stage[p] = "run"
  /\ Step(p)
  /\ \/ /\ pc'[p] # "idle" \/ pc[p] = "consider"
        /\ Enter(p, IF pc'[p] = "idle" THEN "report" ELSE "run")
        /\ spent' = [spent EXCEPT ![p] = IF sends' = sends THEN @ ELSE @ + 1]
        /\ UNCHANGED <<invoked, before, remaining, handled, rejected, asked>>
     \/ /\ pc'[p] = "idle" /\ pc[p] # "consider"
        /\ Leave(p)

\* Mutant: an operation may be asked about whenever it is rejected.
AskedAgain(p, now) == FALSE

\* No operation is asked about twice; one rejected again ends the loop.
AskedBefore(p, now) == now \cap handled[p] # {}

\* Mutant: every run gets the whole budget.
WholeBudget(p) == invoked[p].limit

Left(p) == invoked[p].limit - (Dispatched - before[p])

Rejections == {o \in Op : OperationStatus(journal, o) = "Rejected"}

\* The report after a run decides whether there is anything to put right and
\* anything left to spend on it.
Report(p) ==
  /\ stage[p] = "report"
  /\ IF invoked[p].authorize /\ Left(p) > 0
        /\ Rejections # {} /\ ~AskedBefore(p, Rejections)
       THEN /\ remaining' = [remaining EXCEPT ![p] = Left(p)]
            /\ rejected' = [rejected EXCEPT ![p] = Rejections]
            /\ Enter(p, "ask")
            /\ UNCHANGED <<invoked, before, handled, asked, spent>>
       ELSE Leave(p)
  /\ UNCHANGED vars

\* The caller is asked about one operation after another, in the plan's order.
\* It may refuse or fail, which ends the invocation.
Ask(p) ==
  /\ stage[p] = "ask"
  /\ \E i \in DOMAIN Ops :
       /\ Ops[i] \in rejected[p]
       /\ \A k \in 1..(i - 1) : Ops[k] \notin rejected[p]
       /\ \/ /\ handled' = [handled EXCEPT ![p] = @ \cup {Ops[i]}]
             /\ asked' = [asked EXCEPT ![p][Ops[i]] = @ + 1]
             /\ rejected' = [rejected EXCEPT ![p] = @ \ {Ops[i]}]
             /\ Enter(p, IF rejected[p] = {Ops[i]} THEN "again" ELSE "ask")
             /\ UNCHANGED <<invoked, before, remaining, spent>>
          \/ Leave(p)
  /\ UNCHANGED vars

RunAgain(p) ==
  /\ stage[p] = "again"
  /\ BeginRun(p) /\ options'[p] = [invoked[p] EXCEPT !.limit = remaining[p]]
  /\ Enter(p, "run")
  /\ UNCHANGED <<invoked, before, remaining, handled, rejected, asked, spent>>

\* Dying, or being interrupted, takes the run under way along.
Stop(p) ==
  /\ stage[p] # "off"
  /\ Leave(p)
  /\ IF pc[p] = "idle" THEN UNCHANGED vars ELSE Crash(p)

-----------------------------------------------------------------------------
Invocation(p) ==
  \/ Invoke(p) \/ Admit(p) \/ RunStep(p) \/ Report(p) \/ Ask(p) \/ RunAgain(p)

Others ==
  /\ \/ \E p \in Process \ Applications : Begin(p) \/ Step(p) \/ Crash(p)
     \/ Environment
     \/ Rest
  /\ UNCHANGED appVars

AppNext == (\E p \in Applications : Invocation(p) \/ Stop(p)) \/ Others

AppSpec == AppInit /\ [][AppNext]_<<vars, appVars>>

-----------------------------------------------------------------------------
(* What the runner promises *)

\* One invocation never sends more often than the caller allowed, however many
\* runs it takes, and whatever other processes dispatch meanwhile.
BudgetKept == \A p \in Applications : spent[p] <= invoked[p].limit

\* The caller is asked at most once about each operation of an invocation
\* (Application.ts:52).
AskedOnce == \A p \in Applications, o \in Op : asked[p][o] <= 1

-----------------------------------------------------------------------------
(* Why it keeps them: the inductive invariants of the proofs.              *)

AppTypeOK ==
  /\ stage \in [Applications -> Stage]
  /\ invoked \in [Applications -> RunOptions \cup {DefaultOptions}]
  /\ before \in [Applications -> Nat]
  /\ remaining \in [Applications -> Nat]
  /\ handled \in [Applications -> SUBSET Op]
  /\ rejected \in [Applications -> SUBSET Op]
  /\ asked \in [Applications -> [Op -> Nat]]
  /\ spent \in [Applications -> Nat]

\* Whoever was asked about is among the handled, and nobody else is asked about.
AskedAt(p) ==
  /\ \A o \in Op : asked[p][o] = IF o \in handled[p] THEN 1 ELSE 0
  /\ stage[p] = "ask" => rejected[p] \cap handled[p] = {}

AskedInv == \A p \in Applications : AskedAt(p)

\* A start that is recorded and will be sent.
Owed(p) ==
  IF pc[p] \in {"reconcile", "send"} /\ Recorded(draft[p].id) THEN 1 ELSE 0

\* Every send of the invocation, made or owed, is among the dispatches made
\* since it was admitted.
SpentCounted(p) ==
  stage[p] \in {"run", "report", "ask", "again"} =>
    before[p] + spent[p] + Owed(p) <= Dispatched

\* What is spent and what the run under way, or the next one, may still spend
\* add up to no more than the budget.
WithinBudget(p) ==
  /\ stage[p] \in {"off", "admit"} => spent[p] = 0
  /\ stage[p] = "run" =>
       /\ spent[p] + options[p].limit <= invoked[p].limit + dispatches[p]
       /\ dispatches[p] <= options[p].limit
       /\ pc[p] \in {"prepare", "commit", "reconcile", "send"} =>
            dispatches[p] < options[p].limit
  /\ stage[p] = "report" => spent[p] <= invoked[p].limit
  /\ stage[p] \in {"ask", "again"} => spent[p] + remaining[p] <= invoked[p].limit

BudgetAt(p) ==
  /\ stage[p] = "run" <=> pc[p] # "idle"
  /\ pc[p] = "idle" => dispatches[p] = 0
  /\ SpentCounted(p) /\ WithinBudget(p)

BudgetInv == \A p \in Applications : BudgetAt(p)
=============================================================================
