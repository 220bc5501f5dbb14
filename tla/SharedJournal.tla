----------------------------- MODULE SharedJournal -----------------------------
(***************************************************************************)
(* One journal over time: preparations and then one publication plan write *)
(* to it, and a plan that was superseded before any dispatch may be        *)
(* followed by another.  Each process is configured by its caller with the *)
(* plans it admits, and no two configurations need agree.                  *)
(* packages/ts-release/src/internal/Host.ts with Release.ts and Plan.ts.   *)
(*                                                                         *)
(* A plan has one operation.  What the laws of one plan's history say of   *)
(* evidence and of repeated dispatches is modelled in Decision.            *)
(***************************************************************************)
EXTENDS Naturals, Sequences, FiniteSets

CONSTANTS
  Publication, Preparation,   \* plans that bind this journal
  Process, Contexts,          \* processes, and how their callers configure them
  MaxCalls,                   \* bound: calls a process makes
  MaxEvents                   \* bound: how long the journal becomes

SharedAssumption ==
  /\ Publication \cap Preparation = {} /\ MaxCalls \in Nat /\ MaxEvents \in Nat
  \* JournalContext: the scopes a host registers, and the plans it says were superseded.
  /\ Contexts \subseteq [publications : SUBSET Publication, preparations : SUBSET Preparation,
                         prior : SUBSET Publication]
  /\ \A context \in Contexts : IsFiniteSet(context.publications)
  /\ Publication # {}

Plan == Publication \cup Preparation

Tags == {"DispatchStarted", "ObservationRecorded", "PlanSuperseded"}
Event == [tag : Tags, plan : Plan, by : Process, call : Nat]

VARIABLES
  log,       \* the events of the journal
  invoked    \* the calls of the processes
vars == <<log, invoked>>

Idle == [phase |-> "idle", calls |-> 0]

Init == log = <<>> /\ invoked = [p \in Process |-> Idle]

TypeOK ==
  /\ log \in Seq(Event)
  /\ \A p \in Process :
       /\ invoked[p].phase \in {"idle", "reading", "appending", "ambiguous", "owned"}
       /\ invoked[p].calls \in 0..MaxCalls

Tagged(events, plan, tag) == \E i \in DOMAIN events : events[i].plan = plan /\ events[i].tag = tag

-----------------------------------------------------------------------------
(* read: what a host admits *)

Registered(context) == context.publications \cup context.preparations \cup context.prior

\* One publication at most, and a superseded plan is not a current one.
Configured(context, plan) ==
  /\ Cardinality(context.publications) <= 1
  /\ context.prior \cap context.publications = {}
  /\ plan \in context.publications \cup context.preparations

\* Mutant: a plan of the past is admitted as it is.
AnyHistory(plan, events) == TRUE

\* A plan of the past was superseded and never dispatched.
HistoricalPlan(plan, events) ==
  Tagged(events, plan, "PlanSuperseded") /\ ~ Tagged(events, plan, "DispatchStarted")

\* Mutant: the events of unknown plans are left out.
KnownScopes(context, events) == TRUE

\* No event of an unknown plan.
OnlyScopes(context, events) ==
  \A i \in DOMAIN events : events[i].plan \in Registered(context)

\* dispatchDecision and assertJournalAppend: one dispatch, none of a superseded plan, and
\* a plan is superseded once.
Legal(events, event) ==
  /\ event.tag = "DispatchStarted" =>
       ~ Tagged(events, event.plan, "DispatchStarted")
         /\ ~ Tagged(events, event.plan, "PlanSuperseded")
  /\ event.tag = "PlanSuperseded" => ~ Tagged(events, event.plan, "PlanSuperseded")

\* The history of one plan: each of its events is lawful after those before it.
LawfulHistory(events, plan) ==
  \A i \in DOMAIN events :
    events[i].plan = plan => Legal(SubSeq(events, 1, i - 1), events[i])

Admits(context, plan, events) ==
  /\ Configured(context, plan)
  /\ OnlyScopes(context, events)
  /\ \A past \in context.prior : HistoricalPlan(past, events)
  /\ \A each \in Registered(context) : LawfulHistory(events, each)

-----------------------------------------------------------------------------
(* The calls of a process *)

Step(p, fields) == invoked' = [invoked EXCEPT ![p] = fields]
Return(p) == Step(p, [Idle EXCEPT !.calls = invoked[p].calls])

Recorded(event) == \E i \in DOMAIN log : log[i] = event

\* The history is read and admitted as a whole, or the call ends; a fact that is there
\* already is done, a dispatch that is no longer lawful is left.
Read(p, call) ==
  Step(p, IF Admits(call.context, call.event.plan, log) /\ ~ Recorded(call.event)
               /\ Legal(log, call.event)
          THEN [call EXCEPT !.phase = "appending", !.revision = Len(log)]
          ELSE [Idle EXCEPT !.calls = call.calls])

\* runRelease, observeRelease, supersedePlan: one event is to be recorded of a plan.
Call(p, context, plan, tag) ==
  /\ invoked[p].phase = "idle" /\ invoked[p].calls < MaxCalls
  /\ LET call == invoked[p].calls + 1
     IN  Read(p, [phase |-> "reading", calls |-> call, context |-> context, revision |-> 0,
                  event |-> [tag |-> tag, plan |-> plan, by |-> p, call |-> call]])
  /\ UNCHANGED log

ReadAgain(p) == invoked[p].phase = "reading" /\ Read(p, invoked[p]) /\ UNCHANGED log

\* Mutant: an append extends whatever is there.
Anywhere(p) == TRUE

\* The journal takes an event only as the successor of the history that was read.
AtRevision(p) == Len(log) = invoked[p].revision

IsStart(p) == invoked[p].event.tag = "DispatchStarted"

\* append: a loser of the race reads again, but gives up a dispatch.
Append_(p) ==
  /\ invoked[p].phase = "appending"
  /\ \/ /\ AtRevision(p) /\ Len(log) < MaxEvents
        /\ log' = Append(log, invoked[p].event)
        /\ IF IsStart(p) THEN Step(p, [invoked[p] EXCEPT !.phase = "owned"]) ELSE Return(p)
     \/ /\ ~ AtRevision(p)
        /\ IF IsStart(p) THEN Return(p) ELSE Step(p, [invoked[p] EXCEPT !.phase = "reading"])
        /\ UNCHANGED log

\* The answer of the store is lost, whether the event landed or not.
AppendAmbiguous(p) ==
  /\ invoked[p].phase = "appending"
  /\ \/ AtRevision(p) /\ Len(log) < MaxEvents /\ log' = Append(log, invoked[p].event)
     \/ UNCHANGED log
  /\ Step(p, [invoked[p] EXCEPT !.phase = IF IsStart(p) THEN "ambiguous" ELSE "reading"])

\* Only a history that has the exact event, and is admitted, owns the send.
Reconcile(p) ==
  /\ invoked[p].phase = "ambiguous"
  /\ IF Admits(invoked[p].context, invoked[p].event.plan, log) /\ Recorded(invoked[p].event)
     THEN Step(p, [invoked[p] EXCEPT !.phase = "owned"])
     ELSE Return(p)
  /\ UNCHANGED log

Send(p) == invoked[p].phase = "owned" /\ Return(p) /\ UNCHANGED log

Crash(p) == invoked[p].phase # "idle" /\ Return(p) /\ UNCHANGED log

Next ==
  \E p \in Process :
    \/ \E context \in Contexts, plan \in Plan, tag \in Tags : Call(p, context, plan, tag)
    \/ ReadAgain(p) \/ Append_(p) \/ AppendAmbiguous(p) \/ Reconcile(p) \/ Send(p) \/ Crash(p)

Spec == Init /\ [][Next]_vars

-----------------------------------------------------------------------------
(* Properties *)

Publishes(plan) == plan \in Publication /\ Tagged(log, plan, "DispatchStarted")

\* One publication plan of a journal ever dispatches; whatever other plan wrote to it was
\* superseded, whoever was configured with what and however late it appends.
OnePublication ==
  \A plan \in Publication : Publishes(plan) =>
    \A other \in Publication \ {plan} :
      (\E i \in DOMAIN log : log[i].plan = other) =>
        Tagged(log, other, "PlanSuperseded") /\ ~ Publishes(other)

\* The journal never becomes unreadable: some configuration admits what was written.
StaysAdmissible ==
  \E plan \in Publication :
    LET wrote == {log[i].plan : i \in DOMAIN log}
    IN  Admits([publications |-> {plan}, preparations |-> Preparation,
                prior |-> (wrote \cap Publication) \ {plan}], plan, log)
=============================================================================
