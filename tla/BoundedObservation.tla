-------------------------- MODULE BoundedObservation --------------------------
(***************************************************************************)
(* Observing a release within a budget: sweeps over its operations, each   *)
(* recording what a provider saw, repeated with growing delays until the   *)
(* selected operations are settled or the deadline cuts a sweep off.  The  *)
(* git push of an append that is cut off is killed, and the server may     *)
(* apply it all the same, before the last read of the history or after it. *)
(* packages/ts-release/src/platform/Application.ts, observeApplication;    *)
(* Release.ts, observeRelease and appendFact; platform/GitJournal.ts.      *)
(***************************************************************************)
EXTENDS Naturals, Sequences

CONSTANTS
  Operation,                    \* the operations whose provider observes, in their order
  Selected,                     \* those whose visibility is asked for
  Budget, FirstDelay, LastDelay,
  Late,                         \* bound: how long after the deadline the clock is seen
  MaxEvents                     \* bound: how long the journal becomes

ObservationAssumption ==
  /\ Operation \in Seq(STRING) /\ Selected \subseteq {Operation[i] : i \in DOMAIN Operation}
  /\ Selected # {} /\ Budget \in Nat /\ Late \in Nat /\ MaxEvents \in Nat
  /\ FirstDelay \in Nat \ {0} /\ LastDelay \in Nat

Status == {"Satisfied", "Conflict", "Pending"}

VARIABLES
  time,      \* nanoseconds since the call began
  history,   \* observations in the journal: this call numbers its own, others' have 0
  sweep,     \* the call; auxiliary: joined, how long the history was at the join
  pushes     \* the push that the server may still apply, if there is one
vars == <<time, history, sweep, pushes>>

Init ==
  /\ time = 0
  /\ history = <<>>
  /\ sweep = [phase |-> "checking", at |-> 1, delay |-> FirstDelay, wake |-> 0, report |-> 0,
              failed |-> FALSE, joined |-> {},
              event |-> [of |-> Operation[1], status |-> "Pending", id |-> 0]]
  /\ pushes = {}

Event == [of : {Operation[i] : i \in DOMAIN Operation}, status : Status, id : Nat]

TypeOK ==
  /\ time \in 0 .. (Budget + Late)
  /\ history \in Seq(Event)
  /\ sweep.phase \in {"checking", "observing", "appending", "pushing", "reading", "looking",
                      "sleeping", "settling", "reconciling", "returned", "failed"}
  /\ sweep.report \in 0 .. Len(history)
  /\ pushes \subseteq [rev : 0 .. Len(history), event : Event]

Step(fields) == sweep' = fields
Quiet == UNCHANGED <<time, history, pushes>>
Remaining == IF time < Budget THEN Budget - time ELSE 0

Tick == time < Budget + Late /\ time' = time + 1 /\ UNCHANGED <<history, sweep, pushes>>

\* The head of the loop: a sweep begins while there is time.
Check ==
  /\ sweep.phase = "checking"
  /\ Step([sweep EXCEPT !.phase = IF Remaining = 0 THEN "returned" ELSE "observing", !.at = 1])
  /\ Quiet

\* What the provider of an operation saw.
Seen(status) == [of |-> Operation[sweep.at], status |-> status, id |-> sweep.event.id + 1]

\* observeRelease: one operation after another, then the history.
Observe ==
  /\ sweep.phase = "observing"
  /\ \/ /\ sweep.at <= Len(Operation)
        /\ \E status \in Status :
             Step([sweep EXCEPT !.phase = "appending", !.event = Seen(status)])
     \/ sweep.at > Len(Operation) /\ Step([sweep EXCEPT !.phase = "reading"])
  /\ Quiet

Recorded(event) == \E i \in DOMAIN history : history[i].id = event.id

NextOperation == [sweep EXCEPT !.phase = "observing", !.at = @ + 1]

\* appendFact: the history is read, and the event is pushed on its head unless it is there.
\* An earlier push of it is on the same head, or on one that is the head no longer.
AppendFact ==
  /\ sweep.phase = "appending"
  /\ IF Recorded(sweep.event)
     THEN Step(NextOperation) /\ UNCHANGED pushes
     ELSE /\ Step([sweep EXCEPT !.phase = "pushing"])
          /\ pushes' = {[rev |-> Len(history), event |-> sweep.event]}
  /\ UNCHANGED <<time, history>>

\* The server applies a push whose base is the head still, however late, and no other.
Land ==
  /\ Len(history) < MaxEvents
  /\ \E push \in pushes :
       history' = IF push.rev = Len(history) THEN Append(history, push.event) ELSE history
  /\ pushes' = {}
  /\ UNCHANGED <<time, sweep>>

\* Mutant: an append that was not answered is taken to be recorded.
AnyAnswer == TRUE
\* Only a push that landed is answered so.
Landed == Recorded(sweep.event)

\* A refused push and one without an answer are tried again.
Answer ==
  /\ sweep.phase = "pushing"
  /\ \/ Landed /\ Step(NextOperation)
     \/ Step([sweep EXCEPT !.phase = "appending"])
  /\ Quiet

\* What fails before the deadline fails the call, the last of eight tries included.
Fail ==
  /\ sweep.phase \in {"observing", "appending", "pushing", "reading", "reconciling"}
  /\ Step([sweep EXCEPT !.phase = "failed", !.failed = TRUE])
  /\ Quiet

ReadReport ==
  /\ sweep.phase = "reading"
  /\ Step([sweep EXCEPT !.phase = "looking", !.report = Len(history)])
  /\ Quiet

\* timeoutOption: the sweep is interrupted, and its command killed, wherever it is.
Interrupt ==
  /\ sweep.phase \in {"observing", "appending", "pushing", "reading"} /\ Remaining = 0
  /\ Step([sweep EXCEPT !.phase = "settling"])
  /\ Quiet

\* Mutant: the exit of the loser is discarded, as the timeout does.
Discarded == "reconciling"
\* Its failure is the call's.
OnFailure == "failed"

\* The interrupted sweep is joined.
Settle ==
  /\ sweep.phase = "settling"
  /\ \/ Step([sweep EXCEPT !.phase = "reconciling", !.joined = {Len(history)}])
     \/ Step([sweep EXCEPT !.phase = OnFailure, !.failed = TRUE, !.joined = {Len(history)}])
  /\ Quiet

\* Mutant: the last report is good enough.
LastReport == sweep.report
\* The real history, after the joined interruption.
ReportedNow == Len(history)

Reconcile ==
  /\ sweep.phase = "reconciling"
  /\ Step([sweep EXCEPT !.phase = "returned", !.report = ReportedNow])
  /\ Quiet

\* latestVisibility, of the report's history.
Latest(op, events) ==
  LET of == {i \in DOMAIN events : events[i].of = op}
  IN  IF of = {} THEN "Pending"
      ELSE events[CHOOSE i \in of : \A j \in of : j <= i].status

Visibility(events) ==
  IF \E op \in Selected : Latest(op, events) = "Conflict" THEN "Conflict"
  ELSE IF \A op \in Selected : Latest(op, events) = "Satisfied" THEN "Satisfied"
  ELSE "Pending"

\* Mutant: the whole delay.
WholeDelay == sweep.delay
\* No longer than there is time.
Sleep == IF sweep.delay < Remaining THEN sweep.delay ELSE Remaining

Look ==
  /\ sweep.phase = "looking"
  /\ IF Visibility(SubSeq(history, 1, sweep.report)) # "Pending" \/ Remaining = 0
     THEN Step([sweep EXCEPT !.phase = "returned"])
     ELSE Step([sweep EXCEPT !.phase = "sleeping", !.wake = time + Sleep,
                  !.delay = IF 2 * @ < LastDelay THEN 2 * @ ELSE LastDelay])
  /\ Quiet

Wake ==
  /\ sweep.phase = "sleeping" /\ time >= sweep.wake
  /\ Step([sweep EXCEPT !.phase = "checking"])
  /\ Quiet

\* Other processes observe the same plan.
Foreign ==
  /\ Len(history) < MaxEvents
  /\ \E i \in DOMAIN Operation, status \in Status :
       history' = Append(history, [of |-> Operation[i], status |-> status, id |-> 0])
  /\ UNCHANGED <<time, sweep, pushes>>

Next ==
  \/ Tick \/ Check \/ Observe \/ AppendFact \/ Land \/ Answer \/ Fail \/ ReadReport
  \/ Interrupt \/ Settle \/ Reconcile \/ Look \/ Wake \/ Foreign

Spec == Init /\ [][Next]_vars

-----------------------------------------------------------------------------
(* Properties *)

\* A report that is returned has everything this call recorded, but for the one append that
\* the deadline cut off, if the server applied it after the interrupted sweep was joined; no
\* failure is behind it, no observation is recorded twice however often it was tried, and no
\* wait goes beyond the budget.
ReportTrue ==
  /\ sweep.phase = "returned" =>
       /\ ~ sweep.failed
       /\ \A i \in DOMAIN history :
            history[i].id # 0 /\ i > sweep.report =>
              \E joined \in sweep.joined : i > joined /\ history[i] = sweep.event
  /\ \A i, j \in DOMAIN history : history[i].id # 0 /\ history[i].id = history[j].id => i = j
  /\ sweep.wake <= Budget
=============================================================================
