-------------------------- MODULE ApplePreparation --------------------------
(***************************************************************************)
(* Preparing Apple products before a release: each signed source is        *)
(* submitted once for notarization, and the accepted submission is stapled *)
(* into final bytes, of which the journal selects one output.  Any number  *)
(* of runners work on the collection and may stop between two effects; the *)
(* executor's laws of dispatch (Release) are taken as they are here.       *)
(* packages/ts-release/src/apple.                                          *)
(***************************************************************************)
EXTENDS Naturals, FiniteSets

CONSTANTS
  Preparation,     \* the signed sources of the collection, by their operations
  Runner,          \* processes
  MaxSubmissions   \* bound: what Apple is sent, by anyone

AppleAssumption ==
  MaxSubmissions \in Nat /\ Preparation \cap {"none", "elsewhere"} = {}

VARIABLES journal, apple, store, runner, publication
vars == <<journal, apple, store, runner, publication>>

None == "none"
Number == 1..MaxSubmissions

\* The final product of a runner: which source it is of, the ticket stapled to it, and who
\* made it, since no two staplings give the same bytes.
Output == [of : Preparation, ticket : Number, by : Runner]
NoOutput == [of |-> None, ticket |-> 0, by |-> None]

Idle == [phase |-> "idle", of |-> None, number |-> 0, output |-> NoOutput]

Init ==
  /\ journal = [started |-> {}, receipts |-> {}, rejected |-> {}, selected |-> {}]
  /\ apple = [sent |-> 0, source |-> [n \in Number |-> None], status |-> [n \in Number |-> None]]
  /\ store = {}
  /\ runner = [r \in Runner |-> Idle]
  /\ publication = [bundle |-> {}, valid |-> FALSE]

TypeOK ==
  /\ journal.started \subseteq Preparation /\ journal.receipts \subseteq Preparation \X Number
  /\ journal.rejected \subseteq Preparation /\ journal.selected \subseteq Output
  /\ apple.sent \in 0..MaxSubmissions /\ store \subseteq Output
  /\ \A r \in Runner : runner[r].output \in Output \cup {NoOutput}
  /\ publication.bundle \subseteq Output /\ publication.valid \in BOOLEAN

SelectedFor(p) == {output \in journal.selected : output.of = p}
Step(r, fields) == runner' = [runner EXCEPT ![r] = fields]

\* runPreparation, up to the dispatch: the executor starts an operation that was never
\* started (NoReplay); then the recorded submission, if there is one, is taken up.
Begin(r, p) ==
  /\ runner[r].phase = "idle" /\ SelectedFor(p) = {}
  /\ \/ /\ p \notin journal.started
        /\ journal' = [journal EXCEPT !.started = @ \cup {p}]
        /\ Step(r, [Idle EXCEPT !.phase = "submitting", !.of = p])
     \/ \E receipt \in journal.receipts :
          /\ receipt[1] = p
          /\ Step(r, [Idle EXCEPT !.phase = "recorded", !.of = p, !.number = receipt[2]])
          /\ UNCHANGED journal
  /\ UNCHANGED <<apple, store, publication>>

Received(source) ==
  [apple EXCEPT !.sent = @ + 1, !.source[apple.sent + 1] = source,
                !.status[apple.sent + 1] = "InProgress"]

\* submitPrepared: the source is restored in a private directory and submitted; Apple may
\* have it although its answer is lost or unreadable.
Submit(r) ==
  /\ runner[r].phase = "submitting" /\ apple.sent < MaxSubmissions
  /\ apple' = Received(runner[r].of)
  /\ \/ Step(r, [runner[r] EXCEPT !.phase = "answered", !.number = apple.sent + 1])
     \/ Step(r, Idle)
  /\ UNCHANGED <<journal, store, publication>>

\* receiptCorresponds: the accepted reference is recorded, of this very source.
Record(r) ==
  /\ runner[r].phase = "answered"
  /\ journal' = [journal EXCEPT !.receipts = @ \cup {<<runner[r].of, runner[r].number>>}]
  /\ Step(r, [runner[r] EXCEPT !.phase = "recorded"])
  /\ UNCHANGED <<apple, store, publication>>

\* Mutant: whichever submission Apple tells of.
AnySubmission(p, number) == number \in 1..apple.sent

\* classifyEvidence: evidence is of a submission recorded for this source.
Correlated(p, number) == <<p, number>> \in journal.receipts

\* finishPrepared, the poll: what the tool says of a submission, which must be the recorded
\* one.  An acceptance alone goes on; the rest is recorded as it is.
Poll(r) ==
  /\ runner[r].phase = "recorded"
  /\ \E number \in 1..apple.sent :
       LET p == runner[r].of  status == apple.status[number]
       IN  IF ~ Correlated(p, number) THEN
                  Step(r, Idle) /\ UNCHANGED journal
           ELSE IF status = "InProgress" THEN
                  Step(r, Idle) /\ UNCHANGED journal
           ELSE IF status = "Rejected" THEN
                  /\ journal' = [journal EXCEPT !.rejected = @ \cup {p}]
                  /\ Step(r, Idle)
           ELSE
                  Step(r, [runner[r] EXCEPT !.phase = "accepted", !.number = number])
                  /\ UNCHANGED journal
  /\ UNCHANGED <<apple, store, publication>>

\* Staple, verify, validate the ticket, assess: each may fail.  The product is of the
\* source restored and carries the ticket that Apple gave for it.
Staple(r) ==
  /\ runner[r].phase = "accepted"
  /\ \/ Step(r, [runner[r] EXCEPT !.phase = "stapled",
                   !.output = [of |-> runner[r].of, ticket |-> runner[r].number, by |-> r]])
     \/ Step(r, Idle)
  /\ UNCHANGED <<journal, apple, store, publication>>

\* Mutant: the evidence names content that is stored afterwards.
NamesBeforeStored(output) == TRUE

\* The outputs are read back before evidence names them.
ReadBack(output) == output \in store

\* adoptFile, adoptTree, putOwned: the content store takes the outputs, or fails.
Adopt(r) ==
  /\ runner[r].phase = "stapled"
  /\ \/ store' = store \cup {runner[r].output}
     \/ store' = store
  /\ Step(r, [runner[r] EXCEPT !.phase = "adopted"])
  /\ UNCHANGED <<journal, apple, publication>>

\* Mutant: each completion selects.
SelectsAnyway(p) == TRUE

\* verifyPreparationSelection: an operation selects one output.
MaySelect(p) == SelectedFor(p) = {}

\* observeRelease with the completed evidence; when another runner selected first, that
\* output stands and this one is forgotten.
Select(r) ==
  /\ runner[r].phase = "adopted"
  /\ IF ReadBack(runner[r].output) /\ MaySelect(runner[r].of)
     THEN journal' = [journal EXCEPT !.selected = @ \cup {runner[r].output}]
     ELSE UNCHANGED journal
  /\ Step(r, Idle)
  /\ UNCHANGED <<apple, store, publication>>

\* A process stops anywhere; its private directories may stay.
Crash(r) ==
  /\ runner[r].phase # "idle"
  /\ Step(r, Idle)
  /\ UNCHANGED <<journal, apple, store, publication>>

\* Apple decides in its own time, and others submit to it.
Decide ==
  /\ \E n \in Number, status \in {"Accepted", "Rejected"} :
       /\ apple.status[n] = "InProgress"
       /\ apple' = [apple EXCEPT !.status[n] = status]
  /\ UNCHANGED <<journal, store, runner, publication>>

Elsewhere ==
  /\ apple.sent < MaxSubmissions
  /\ apple' = Received("elsewhere")
  /\ UNCHANGED <<journal, store, runner, publication>>

\* Mutant: a bundle that has some output of each preparation.
HasOutputs(bundle) == \A p \in Preparation : \E output \in bundle : output.of = p

\* validateOutputs: every preparation selected, and the bundle has the selected outputs.
HasSelected(bundle) ==
  /\ \A p \in Preparation : SelectedFor(p) # {}
  /\ journal.selected \subseteq bundle

\* publicationContext: a bundle, in which artifact names are distinct, of any outputs that
\* were stored; the losing runner's among them.
Validate ==
  /\ ~ publication.valid
  /\ \E bundle \in SUBSET store :
       /\ \A one, other \in bundle : one.of = other.of => one = other
       /\ publication' = [bundle |-> bundle, valid |-> HasSelected(bundle)]
  /\ UNCHANGED <<journal, apple, store, runner>>

Next ==
  \/ Decide \/ Elsewhere \/ Validate
  \/ \E r \in Runner :
       \/ \E p \in Preparation : Begin(r, p)
       \/ Submit(r) \/ Record(r) \/ Poll(r) \/ Staple(r) \/ Adopt(r) \/ Select(r) \/ Crash(r)

Spec == Init /\ [][Next]_vars

-----------------------------------------------------------------------------
(* Properties *)

\* An output selected is stored, is of its own source, and carries the ticket of a
\* submission of that source which Apple accepted.
TicketsGenuine ==
  \A output \in journal.selected :
    /\ output \in store
    /\ apple.source[output.ticket] = output.of /\ apple.status[output.ticket] = "Accepted"

\* A source is submitted once, whoever crashed between the submission and its record.
SubmittedOnce ==
  \A p \in Preparation : Cardinality({n \in Number : apple.source[n] = p}) <= 1

\* What a validated publication ships is, for each preparation, the output selected.
SelectedShipped ==
  publication.valid =>
    \A p \in Preparation :
      {output \in publication.bundle : output.of = p} = SelectedFor(p) /\ SelectedFor(p) # {}
=============================================================================
