----------------------------- MODULE ReleaseProofs -----------------------------
(***************************************************************************)
(* The executor: first that it is well typed, for any number of processes, *)
(* any plan and any bounds, then what it keeps of the journal: whatever    *)
(* processes race, crash, retry or wait for an answer that never comes,    *)
(* the history stays one the next reading admits, and the promises read    *)
(* off an admissible history follow.                                       *)
(*                                                                         *)
(* AdmissibleInv is the invariant.  An event that waits to be appended is  *)
(* legal after the history up to the revision it was decided at; a history *)
(* only grows, so it stays so; and the store appends it only while that    *)
(* revision is still the end, where legal after the prefix means legal.    *)
(***************************************************************************)
EXTENDS ReleaseProperties, FiniteSetTheorems, WellFoundedInduction, TLAPS

-----------------------------------------------------------------------------
(* Histories.  What the laws of module Decision imply needs no induction   *)
(* over histories: a fact is read off the prefix an event was legal after, *)
(* or off the latest position that says something.                         *)

\* A prefix of a history is a history, of the events it shares with the whole.
LEMMA PrefixOfHistory ==
  ASSUME NEW j \in Seq(Event), NEW n \in 0..Len(j)
  PROVE  /\ SubSeq(j, 1, n) \in Seq(Event)
         /\ Len(SubSeq(j, 1, n)) = n
         /\ DOMAIN SubSeq(j, 1, n) = 1..n
         /\ \A i \in 1..n : SubSeq(j, 1, n)[i] = j[i]
  OBVIOUS

\* The whole is a prefix of itself.
LEMMA WholePrefix ==
  ASSUME NEW j \in Seq(Event)
  PROVE  SubSeq(j, 1, Len(j)) = j
  OBVIOUS

\* Appending an event leaves every prefix as it was.
LEMMA PrefixOfAppend ==
  ASSUME NEW j \in Seq(Event), NEW e \in Event, NEW n \in 0..Len(j)
  PROVE  SubSeq(Append(j, e), 1, n) = SubSeq(j, 1, n)
  OBVIOUS

\* A history extended by an event that is legal after it stays admissible: what
\* was legal after a prefix is untouched by what follows (Host.ts:159-161).
LEMMA AppendAdmissible ==
  ASSUME NEW j \in Seq(Event), NEW e \in Event,
         Admissible(j), LegalAppend(j, e)
  PROVE  Admissible(Append(j, e))
  <1> DEFINE k == Append(j, e)
  <1>1. k \in Seq(Event) /\ Len(k) = Len(j) + 1
    OBVIOUS
  <1>2. ASSUME NEW i \in DOMAIN k
        PROVE  LegalAppend(SubSeq(k, 1, i - 1), k[i])
    <2>1. CASE i \in DOMAIN j
      <3>1. k[i] = j[i] /\ i - 1 \in 0..Len(j)
        BY <2>1
      <3>2. SubSeq(k, 1, i - 1) = SubSeq(j, 1, i - 1)
        BY <3>1, PrefixOfAppend
      <3>3. LegalAppend(SubSeq(j, 1, i - 1), j[i])
        BY <2>1 DEF Admissible
      <3> QED BY <3>1, <3>2, <3>3
    <2>2. CASE i = Len(j) + 1
      <3>1. k[i] = e /\ i - 1 = Len(j)
        BY <2>2
      <3>2. SubSeq(k, 1, i - 1) = j
        BY <3>1, PrefixOfAppend, WholePrefix
      <3> QED BY <3>1, <3>2
    <2> QED BY <1>1, <1>2, <2>1, <2>2
  <1> QED BY <1>2 DEF Admissible

\* The basis of a dispatch decision is one the journal can hold.
LEMMA BasesTyped ==
  ASSUME NEW j \in Seq(Event), NEW o \in Op, NEW req, NEW now
  PROVE  LawfulBases(j, o, req, now) \subseteq Basis
  <1>1. StartIds(j, o) \subseteq Id
    BY DEF StartIds, Starts, Event, StartEvent, ReceiptEvent, RejectionEvent,
           ObservationEvent, DispatchErrorEvent, RiskEvent, SupersededEvent
  <1>2. {j[s].id : s \in Unresolved(j, o)} \subseteq Id
    BY <1>1 DEF StartIds, Unresolved
  <1>3. \A i \in UsableRisks(j, o, req, now) : j[i].decision \in DecisionId
    BY DEF UsableRisks, Risks, Event, StartEvent, ReceiptEvent, RejectionEvent,
           ObservationEvent, DispatchErrorEvent, RiskEvent, SupersededEvent
  <1> QED BY <1>1, <1>2, <1>3 DEF LawfulBases, Basis

-----------------------------------------------------------------------------
(* Facts of an admissible history.                                         *)

\* The event at a position was legal after the events before it.
LEMMA LegalAfterPrefix ==
  ASSUME NEW j \in Seq(Event), Admissible(j), NEW k \in DOMAIN j
  PROVE  LegalAppend(SubSeq(j, 1, k - 1), j[k])
  BY DEF Admissible

\* After PlanSuperseded no dispatch is lawful and no risk can be accepted
\* (Decision.ts:62, 90-91, 188-189).
LEMMA SupersededHistory ==
  ASSUME NEW j \in Seq(Event), Admissible(j),
         NEW i \in DOMAIN j, NEW k \in DOMAIN j,
         i < k, j[i].tag = "PlanSuperseded"
  PROVE  j[k].tag \notin {"DispatchStarted", "RiskAccepted"}
  <1> DEFINE h == SubSeq(j, 1, k - 1)
  <1>1. i \in DOMAIN h /\ h[i] = j[i]
    BY k - 1 \in 0..Len(j), i \in 1..(k - 1), PrefixOfHistory
  <1>2. IsSuperseded(h)
    BY <1>1 DEF IsSuperseded
  <1>3. LegalAppend(h, j[k])
    BY LegalAfterPrefix
  <1>4. ASSUME j[k].tag = "DispatchStarted" PROVE FALSE
    <2>1. j[k].basis \in LawfulBases(h, j[k].op, j[k].request, j[k].at)
      BY <1>3, <1>4 DEF LegalAppend, LegalStart
    <2>2. OperationStatus(h, j[k].op) \notin Finishing
      BY <2>1 DEF LawfulBases, MayPrepare
    <2>3. OperationStatus(h, j[k].op) = "Superseded"
      BY <1>2 DEF OperationStatus
    <2> QED BY <2>2, <2>3 DEF Finishing
  <1>5. j[k].tag # "RiskAccepted"
    BY <1>2, <1>3 DEF LegalAppend, LegalRisk
  <1> QED BY <1>4, <1>5

\* A start that follows an unresolved start of its operation repeats its
\* protected request or spends an accepted risk (Decision.ts:102-127).
LEMMA UncertainHistory ==
  ASSUME NEW j \in Seq(Event), Admissible(j),
         NEW s \in DOMAIN j, NEW t \in DOMAIN j, s < t,
         j[s].tag = "DispatchStarted", j[t].tag = "DispatchStarted",
         j[s].op = j[t].op,
         ~\E k \in TerminalEvidence(j, j[s].id) : k < t
  PROVE  \/ j[t].request = j[s].request /\ j[s].request \in Protected
         \/ j[t].basis.kind = "AcceptedRisk"
  <1> DEFINE h == SubSeq(j, 1, t - 1)
             o == j[t].op
  <1>1. /\ s \in DOMAIN h
        /\ DOMAIN h = 1..(t - 1)
        /\ \A i \in DOMAIN h : i \in DOMAIN j /\ i < t /\ h[i] = j[i]
    BY t - 1 \in 0..Len(j), s \in 1..(t - 1), PrefixOfHistory
  <1>2. s \in Starts(h, o)
    BY <1>1 DEF Starts
  <1>3. h[s].id \notin RejectedIds(h, o)
    <2> SUFFICES ASSUME NEW i \in EvidenceOf(h, o, "DispatchRejectedBeforeCommit"),
                        h[i].dispatch = h[s].id
                 PROVE  FALSE
      BY DEF RejectedIds
    <2>1. i \in DOMAIN h /\ h[i].tag = "DispatchRejectedBeforeCommit"
      BY DEF EvidenceOf
    <2>2. i \in TerminalEvidence(j, j[s].id) /\ i < t
      BY <1>1, <2>1 DEF TerminalEvidence
    <2> QED BY <2>2
  <1>4. s \in Unresolved(h, o)
    BY <1>2, <1>3 DEF Unresolved
  <1>5. j[t].basis \in LawfulBases(h, o, j[t].request, j[t].at)
    BY LegalAfterPrefix DEF LegalAppend, LegalStart
  <1>6. CASE \A u \in Unresolved(h, o) :
               SameProtectedRequest(h[u].request, j[t].request)
    BY <1>1, <1>4, <1>6 DEF SameProtectedRequest
  <1>7. CASE ~\A u \in Unresolved(h, o) :
                SameProtectedRequest(h[u].request, j[t].request)
    BY <1>2, <1>4, <1>5, <1>7 DEF LawfulBases
  <1> QED BY <1>6, <1>7

\* A dispatch has at most one outcome, and it has a start before it
\* (Decision.ts:167-184).
LEMMA OutcomeUnique ==
  ASSUME NEW j \in Seq(Event), Admissible(j), NEW d,
         NEW i \in TerminalEvidence(j, d), NEW k \in TerminalEvidence(j, d)
  PROVE  i = k
  <1> SUFFICES ASSUME NEW m \in TerminalEvidence(j, d),
                      NEW n \in TerminalEvidence(j, d), m < n
               PROVE  FALSE
    BY DEF TerminalEvidence
  <1> DEFINE h == SubSeq(j, 1, n - 1)
  <1>1. m \in DOMAIN j /\ n \in DOMAIN j
    BY DEF TerminalEvidence
  <1>2. m \in DOMAIN h /\ h[m] = j[m]
    BY <1>1, n - 1 \in 0..Len(j), m \in 1..(n - 1), PrefixOfHistory
  <1>3. m \in TerminalEvidence(h, d)
    BY <1>2 DEF TerminalEvidence
  <1>4. TerminalEvidence(h, d) = {}
    BY <1>1, LegalAfterPrefix DEF LegalAppend, LegalOutcome, TerminalEvidence
  <1> QED BY <1>3, <1>4

\* Event identities do not repeat (Decision.ts:135-136).
LEMMA IdsUnique ==
  ASSUME NEW j \in Seq(Event), Admissible(j),
         NEW i \in DOMAIN j, NEW k \in DOMAIN j, j[i].id = j[k].id
  PROVE  i = k
  <1> SUFFICES ASSUME NEW m \in DOMAIN j, NEW n \in DOMAIN j, m < n,
                      j[m].id = j[n].id
               PROVE  FALSE
    OBVIOUS
  <1> DEFINE h == SubSeq(j, 1, n - 1)
  <1>1. m \in DOMAIN h /\ h[m] = j[m]
    BY n - 1 \in 0..Len(j), m \in 1..(n - 1), PrefixOfHistory
  <1>2. j[n].id \notin Ids(h)
    BY LegalAfterPrefix DEF LegalAppend
  <1> QED BY <1>1, <1>2 DEF Ids

\* Decision identities do not repeat either (Decision.ts:201-207).
LEMMA DecisionsUnique ==
  ASSUME NEW j \in Seq(Event), Admissible(j),
         NEW i \in DOMAIN j, NEW k \in DOMAIN j,
         j[i].tag = "RiskAccepted", j[k].tag = "RiskAccepted",
         j[i].decision = j[k].decision
  PROVE  i = k
  <1> SUFFICES ASSUME NEW m \in DOMAIN j, NEW n \in DOMAIN j, m < n,
                      j[m].tag = "RiskAccepted", j[n].tag = "RiskAccepted",
                      j[m].decision = j[n].decision
               PROVE  FALSE
    OBVIOUS
  <1> DEFINE h == SubSeq(j, 1, n - 1)
  <1>1. m \in DOMAIN h /\ h[m] = j[m]
    BY n - 1 \in 0..Len(j), m \in 1..(n - 1), PrefixOfHistory
  <1>2. LegalRisk(h, j[n])
    BY LegalAfterPrefix DEF LegalAppend
  <1> QED BY <1>1, <1>2 DEF LegalRisk

\* Nothing is started for an operation after a dispatch of it was accepted
\* (Decision.ts:72-73, 90-91, 100).
LEMMA NoStartAfterReceipt ==
  ASSUME NEW j \in Seq(Event), Admissible(j),
         NEW r \in DOMAIN j, j[r].tag = "ReceiptAccepted",
         NEW s \in StartsOf(j, j[r].dispatch), NEW t \in Starts(j, j[s].op)
  PROVE  t < r
  <1> DEFINE before == SubSeq(j, 1, r - 1)
             h == SubSeq(j, 1, t - 1)
             o == j[s].op
  <1>1. /\ t \in DOMAIN j /\ s \in DOMAIN j
        /\ j[t].tag = "DispatchStarted" /\ j[t].op = o
        /\ j[s].tag = "DispatchStarted" /\ j[s].id = j[r].dispatch
    BY DEF Starts, StartsOf
  <1>2. s < r
    <2>1. StartsOf(before, j[r].dispatch) # {}
      BY LegalAfterPrefix DEF LegalAppend, LegalOutcome
    <2>2. PICK u \in StartsOf(before, j[r].dispatch) : TRUE
      BY <2>1
    <2>3. u \in DOMAIN j /\ u < r /\ j[u].id = j[r].dispatch
      BY <2>2, r - 1 \in 0..Len(j), PrefixOfHistory DEF StartsOf
    <2> QED BY <1>1, <2>3, IdsUnique
  <1>3. ASSUME r < t PROVE FALSE
    <2>1. /\ r \in DOMAIN h /\ h[r] = j[r]
          /\ s \in DOMAIN h /\ h[s] = j[s]
      BY <1>1, <1>2, <1>3, t - 1 \in 0..Len(j), r \in 1..(t - 1), s \in 1..(t - 1),
         PrefixOfHistory
    <2>2. r \in Receipts(h, o)
      BY <1>1, <1>2, <2>1 DEF Receipts, EvidenceOf, Starts
    <2>3. j[t].basis \in LawfulBases(h, o, j[t].request, j[t].at)
      BY <1>1, LegalAfterPrefix DEF LegalAppend, LegalStart
    <2> QED BY <2>2, <2>3 DEF LawfulBases
  <1>4. r # t
    BY <1>1
  <1> QED BY <1>1, <1>3, <1>4

\* The risk that a start spends was accepted before it, for its request, for
\* exactly the attempts so far, and had not expired (Decision.ts:115-126).
LEMMA RiskOfStart ==
  ASSUME NEW j \in Seq(Event), Admissible(j), NEW i \in DOMAIN j,
         j[i].tag = "DispatchStarted", j[i].basis.kind = "AcceptedRisk"
  PROVE  \E r \in Risks(j, j[i].op) :
           /\ r < i
           /\ j[r].decision = j[i].basis.decision
           /\ j[r].request = j[i].request
           /\ j[r].prior = StartIds(SubSeq(j, 1, i - 1), j[i].op)
           /\ j[r].expires >= j[i].at
           /\ j[r].decision \notin Consumed(SubSeq(j, 1, i - 1), j[i].op)
  <1> DEFINE h == SubSeq(j, 1, i - 1)
             risks == UsableRisks(h, j[i].op, j[i].request, j[i].at)
  <1>1. j[i].basis \in LawfulBases(h, j[i].op, j[i].request, j[i].at)
    BY LegalAfterPrefix DEF LegalAppend, LegalStart
  <1>2. PICK r \in risks : j[i].basis.decision = h[r].decision
    <2> DEFINE basis == j[i].basis
               first == {r \in risks : \A k \in risks : r <= k}
    <2>1. CASE basis \in {[kind |-> "AcceptedRisk", decision |-> h[r].decision] :
                            r \in first}
      <3> HIDE DEF risks, basis
      <3>1. PICK r \in first :
              basis = [kind |-> "AcceptedRisk", decision |-> h[r].decision]
        BY <2>1
      <3>2. basis.decision = h[r].decision /\ r \in risks
        BY <3>1
      <3> QED BY <3>2 DEF basis
    <2>2. CASE basis = [kind |-> "Initial"]
      BY <2>2
    <2>3. CASE \E ids : basis \in {[kind |-> "NonCommit", ids |-> ids],
                                   [kind |-> "ProtectedReplay", ids |-> ids]}
      <3>1. basis.kind # "AcceptedRisk"
        BY <2>3
      <3> QED BY <3>1
    <2> QED BY <1>1, <2>1, <2>2, <2>3 DEF LawfulBases
  <1>3. r \in DOMAIN j /\ r < i /\ h[r] = j[r]
    BY <1>2, i - 1 \in 0..Len(j), PrefixOfHistory DEF UsableRisks, Risks
  <1> QED BY <1>2, <1>3 DEF UsableRisks, Risks

\* A decision is spent once (Decision.ts:117).
LEMMA SpentOnce ==
  ASSUME NEW j \in Seq(Event), Admissible(j),
         NEW i \in DOMAIN j, NEW k \in DOMAIN j,
         j[i].tag = "DispatchStarted", j[i].basis.kind = "AcceptedRisk",
         j[k].tag = "DispatchStarted", j[k].basis = j[i].basis
  PROVE  i = k
  <1> SUFFICES ASSUME NEW m \in DOMAIN j, NEW n \in DOMAIN j, m < n,
                      j[m].tag = "DispatchStarted", j[n].tag = "DispatchStarted",
                      j[m].basis.kind = "AcceptedRisk", j[n].basis = j[m].basis
               PROVE  FALSE
    OBVIOUS
  <1> DEFINE h == SubSeq(j, 1, n - 1)
  <1>1. PICK r \in Risks(j, j[m].op) : j[r].decision = j[m].basis.decision
    BY RiskOfStart
  <1>2. PICK q \in Risks(j, j[n].op) :
          /\ j[q].decision = j[n].basis.decision
          /\ j[q].decision \notin Consumed(h, j[n].op)
    BY RiskOfStart
  <1>3. r = q
    BY <1>1, <1>2, DecisionsUnique DEF Risks
  <1>4. j[m].op = j[n].op
    BY <1>1, <1>2, <1>3 DEF Risks
  <1>5. m \in DOMAIN h /\ h[m] = j[m]
    BY n - 1 \in 0..Len(j), m \in 1..(n - 1), PrefixOfHistory
  <1>6. j[m].basis.decision \in Consumed(h, j[n].op)
    BY <1>4, <1>5 DEF Consumed, Starts
  <1> QED BY <1>2, <1>6

-----------------------------------------------------------------------------
(* What a history says, and keeps saying as it grows.                      *)

\* Every set of positions that is not empty has a least one.
LEMMA LeastPosition ==
  ASSUME NEW S \in SUBSET Nat, S # {}
  PROVE  \E m \in S : \A k \in S : m <= k
  <1>1. \E x \in S : \A y \in S : ~ (<<y, x>> \in OpToRel(<, Nat))
    BY NatLessThanWellFounded, WFMin, Zenon
  <1>2. OpToRel(<, Nat) = {pair \in Nat \X Nat : pair[1] < pair[2]}
    BY Zenon DEF OpToRel
  <1>3. PICK x \in S : \A y \in S :
          <<y, x>> \notin {pair \in Nat \X Nat : pair[1] < pair[2]}
    BY <1>1, <1>2, Zenon
  <1>4. \A y \in S : ~(y < x)
    BY <1>3
  <1> QED BY <1>4

\* And, bounded as positions of a history are, a last one.
LEMMA LastPosition ==
  ASSUME NEW n \in Nat, NEW S \in SUBSET (1..n), S # {}
  PROVE  Last(S) \in S /\ \A k \in S : k <= Last(S)
  <1> DEFINE bounds == {m \in Nat : \A k \in S : k <= m}
  <1>1. n \in bounds
    OBVIOUS
  <1>2. PICK m \in bounds : \A k \in bounds : m <= k
    BY <1>1, LeastPosition
  <1>3. m \in S
    <2> SUFFICES ASSUME m \notin S PROVE FALSE
      OBVIOUS
    <2>1. m > 0 /\ \A k \in S : k <= m - 1
      <3>1. PICK s \in S : TRUE
        OBVIOUS
      <3>2. \A k \in S : k \in Nat /\ k > 0 /\ k <= m /\ k # m
        BY <1>2
      <3> QED BY <1>2, <3>1, <3>2
    <2>2. m - 1 \in bounds
      BY <1>2, <2>1
    <2> QED BY <1>2, <2>1, <2>2
  <1>4. \A k \in S : k <= m
    BY <1>2
  <1> HIDE DEF bounds
  <1> QED BY <1>3, <1>4 DEF Last

LEMMA LatestObservation ==
  ASSUME NEW j \in Seq(Event), NEW o, Observations(j, o) # {}
  PROVE  Last(Observations(j, o)) \in Observations(j, o)
  <1>1. Len(j) \in Nat /\ Observations(j, o) \subseteq 1..Len(j)
    BY DEF Observations
  <1> QED BY <1>1, LastPosition

LEMMA ObservedStatus ==
  ASSUME NEW j \in Seq(Event), NEW o, NEW i \in Observations(j, o)
  PROVE  j[i].status \in ObservationStatus
  BY DEF Observations, Event, StartEvent, ReceiptEvent, RejectionEvent,
         ObservationEvent, DispatchErrorEvent, RiskEvent, SupersededEvent,
         ObservationStatus

\* An accepted operation is finished: satisfied or pending, or it conflicts, or
\* its plan is superseded (Decision.ts:55-81).
LEMMA AcceptedIsFinishing ==
  ASSUME NEW j \in Seq(Event), NEW o, Receipts(j, o) # {}
  PROVE  OperationStatus(j, o) \in Finishing
  <1>1. ASSUME Telling(j, o)
        PROVE  j[Last(Observations(j, o))].status \in {"Satisfied", "Conflict", "Pending"}
    <2>1. Last(Observations(j, o)) \in Observations(j, o)
      BY <1>1, LatestObservation DEF Telling
    <2> QED BY <1>1, <2>1, ObservedStatus DEF Telling, ObservationStatus
  <1> QED BY <1>1 DEF OperationStatus, Finishing

\* Whatever satisfies an operation is evidence of its satisfaction.
LEMMA SatisfiedHasEvidence ==
  ASSUME NEW j \in Seq(Event), NEW o, OperationStatus(j, o) = "Satisfied"
  PROVE  SatisfiedAmong(j, Observations(j, o) \cup Receipts(j, o)) # {}
  <1>1. ASSUME Telling(j, o), j[Last(Observations(j, o))].status = "Satisfied"
        PROVE  SatisfiedAmong(j, Observations(j, o) \cup Receipts(j, o)) # {}
    <2>1. Last(Observations(j, o)) \in Observations(j, o)
      BY <1>1, LatestObservation DEF Telling
    <2> QED BY <1>1, <2>1 DEF SatisfiedAmong
  <1>2. ASSUME SatisfiedAmong(j, Receipts(j, o)) # {}
        PROVE  SatisfiedAmong(j, Observations(j, o) \cup Receipts(j, o)) # {}
    BY <1>2 DEF SatisfiedAmong
  <1> QED BY <1>1, <1>2 DEF OperationStatus

\* Evidence stays where it is when a history is extended.
LEMMA EvidenceStays ==
  ASSUME NEW j \in Seq(Event), NEW e \in Event, NEW o,
         NEW i \in SatisfiedAmong(j, Observations(j, o) \cup Receipts(j, o))
  PROVE  i \in SatisfiedAmong(Append(j, e),
                  Observations(Append(j, e), o) \cup Receipts(Append(j, e), o))
  <1> DEFINE k == Append(j, e)
  <1>1. DOMAIN j \subseteq DOMAIN k /\ \A n \in DOMAIN j : k[n] = j[n]
    OBVIOUS
  <1>2. Starts(j, o) \subseteq Starts(k, o)
    BY <1>1 DEF Starts
  <1>3. \A s \in Starts(j, o) : s \in DOMAIN j
    BY DEF Starts
  <1> HIDE DEF k
  <1>4. i \in DOMAIN j /\ j[i].status = "Satisfied"
    BY DEF SatisfiedAmong, Observations, Receipts, EvidenceOf
  <1>5. i \in Observations(j, o) => i \in Observations(k, o)
    BY <1>1 DEF Observations
  <1>6. i \in Receipts(j, o) => i \in Receipts(k, o)
    BY <1>1, <1>2, <1>3 DEF Receipts, EvidenceOf
  <1> QED BY <1>1, <1>4, <1>5, <1>6 DEF SatisfiedAmong, k

-----------------------------------------------------------------------------
(* Types.  The state is taken in four parts, each kept by lemmas of its    *)
(* own: the store, what each process holds, the identities drawn, and the  *)
(* remote.                                                                 *)

StoreOK ==
  journal \in Seq(Event) /\ inflight \subseteq [rev : Nat, event : Event]

LocalOK ==
  /\ pc \in [Process -> Control]
  /\ duty \in [Process -> DutyKind]
  /\ options \in [Process -> RunOptions \cup {DefaultOptions}]
  /\ cursor \in [Process -> 1..(Len(Ops) + 1)]
  /\ visited \in [Process -> SUBSET Op]
  /\ progressed \in [Process -> BOOLEAN]
  /\ dispatches \in [Process -> Nat]
  /\ draft \in [Process -> Event \cup {NoDraft}]
  /\ base \in [Process -> Nat]
  /\ retries \in [Process -> 0..MaxRetry]
  /\ ControlOK

DrawnOK ==
  drawn \in [Process -> Nat] /\ \A p \in Process : drawn[p] <= MaxSerial[p]

RemoteOK ==
  /\ sends \in [Id -> Nat]
  /\ wire \subseteq Sent
  /\ published \subseteq [op : Op, dispatch : Id]
  /\ existing \subseteq Op

LEMMA StateParts ==
  TypeOK /\ ControlOK <=> StoreOK /\ LocalOK /\ DrawnOK /\ RemoteOK
  BY DEF TypeOK, StoreOK, LocalOK, DrawnOK, RemoteOK

-----------------------------------------------------------------------------
(* The parts, each under the operators that change it.                     *)

LEMMA OpsInOrder ==
  /\ Len(Ops) \in Nat /\ DOMAIN Ops = 1..Len(Ops)
  /\ \A i \in DOMAIN Ops : Ops[i] \in Op
  BY ReleaseAssumption

LEMMA Bounds == MaxSerial \in [Process -> Nat] /\ MaxRetry \in Nat \ {0}
  BY ReleaseAssumption

LEMMA IdsOfProcess ==
  ASSUME NEW p \in Process, NEW n \in 1..MaxSerial[p]
  PROVE  <<p, n>> \in Id
  <1> DEFINE own(q) == {<<q, m>> : m \in 1..MaxSerial[q]}
  <1>1. <<p, n>> \in own(p)
    OBVIOUS
  <1>2. own(p) \in {own(q) : q \in Process}
    OBVIOUS
  <1>3. Id = UNION {own(q) : q \in Process}
    BY ReleaseAssumption
  <1> HIDE DEF own
  <1> QED BY <1>1, <1>2, <1>3

LEMMA FreshIdTyped ==
  ASSUME NEW p \in Process, DrawnOK, Draw(p)
  PROVE  FreshId(p) \in Id /\ DrawnOK'
  <1> USE Bounds
  <1>1. drawn[p] + 1 \in 1..MaxSerial[p]
    <2>1. drawn[p] \in Nat /\ MaxSerial[p] \in Nat
      BY DEF DrawnOK
    <2>2. drawn[p] < MaxSerial[p]
      BY DEF Draw
    <2> QED BY <2>1, <2>2
  <1>2. FreshId(p) \in Id
    BY <1>1, IdsOfProcess DEF FreshId
  <1>3. DrawnOK'
    BY <1>1, Bounds DEF DrawnOK, Draw
  <1> QED BY <1>2, <1>3

LEMMA StoreAppendTyped ==
  ASSUME StoreOK, NEW rev \in Nat, NEW event \in Event, NEW result,
         StoreAppend(rev, event, result)
  PROVE  StoreOK'
  BY DEF StoreOK, StoreAppend, Written, storeVars

LEMMA ReturnTyped ==
  ASSUME LocalOK, NEW p \in Process, Return(p)
  PROVE  LocalOK'
  <1>1. 1 \in 1..(Len(Ops) + 1) /\ 0 \in 0..MaxRetry
    BY OpsInOrder, Bounds
  <1>2. pc' = [pc EXCEPT ![p] = "idle"]
    BY DEF Return, Goto
  <1>3. ControlOK'
    <2> SUFFICES ASSUME NEW q \in Process, pc'[q] # "idle"
                 PROVE  q # p /\ pc'[q] = pc[q]
      BY DEF LocalOK, ControlOK, Return, DutyKind
    <2> QED BY <1>2 DEF LocalOK
  <1> QED BY <1>1, <1>2, <1>3 DEF LocalOK, Return, Control, DutyKind

LEMMA AdvanceTyped ==
  ASSUME LocalOK, NEW p \in Process, cursor[p] \in DOMAIN Ops, Advance(p)
  PROVE  LocalOK'
  <1>1. cursor[p] + 1 \in 1..(Len(Ops) + 1) /\ 0 \in 0..MaxRetry
    BY OpsInOrder, Bounds
  <1>2. pc' = [pc EXCEPT ![p] = "consider"]
    BY DEF Advance, Goto
  <1>3. ControlOK'
    BY <1>2 DEF LocalOK, ControlOK, Advance, callVars
  <1> QED BY <1>1, <1>2, <1>3 DEF LocalOK, Advance, Control, callVars

LEMMA RecordTyped ==
  ASSUME LocalOK, NEW p \in Process, NEW event \in Event,
         cursor[p] \in DOMAIN Ops, Record(p, event),
         dispatches' \in [Process -> Nat]
  PROVE  LocalOK'
  <1>1. 0 \in 0..MaxRetry
    BY Bounds
  <1>2. pc' = [pc EXCEPT ![p] = "record"]
    BY DEF Record, Goto
  <1>3. ControlOK'
    BY <1>2 DEF LocalOK, ControlOK, Record, callVars
  <1> QED BY <1>1, <1>2, <1>3 DEF LocalOK, Record, Control, callVars

LEMMA AfterFactTyped ==
  ASSUME LocalOK, NEW p \in Process, pc[p] \in {"record", "append"}, AfterFact(p)
  PROVE  LocalOK'
  <1>1. CASE duty[p] = "Run" /\ draft[p].tag = "ObservationRecorded"
    <2>1. /\ cursor[p] \in DOMAIN Ops
          /\ pc' = [pc EXCEPT ![p] = "decide"]
          /\ draft' = [draft EXCEPT ![p] = NoDraft]
          /\ base' = [base EXCEPT ![p] = 0]
          /\ retries' = [retries EXCEPT ![p] = 0]
          /\ UNCHANGED <<callVars, loopVars>>
      BY <1>1 DEF AfterFact, LocalOK, ControlOK, Goto
    <2>2. ControlOK'
      BY <2>1 DEF LocalOK, ControlOK, callVars, loopVars
    <2>3. 0 \in 0..MaxRetry
      BY Bounds
    <2> QED BY <2>1, <2>2, <2>3 DEF LocalOK, Control, callVars, loopVars
  <1>2. CASE duty[p] \in {"Risk", "Supersede"}
    <2>1. Return(p)
      BY <1>2 DEF AfterFact
    <2> QED BY <2>1, ReturnTyped
  <1>3. CASE /\ ~(duty[p] = "Run" /\ draft[p].tag = "ObservationRecorded")
             /\ duty[p] \notin {"Risk", "Supersede"}
    <2>1. Advance(p)
      BY <1>3 DEF AfterFact
    <2>2. cursor[p] \in DOMAIN Ops
      BY <1>3 DEF LocalOK, ControlOK, DutyKind
    <2> QED BY <2>1, <2>2, AdvanceTyped
  <1> QED BY <1>1, <1>2, <1>3

LEMMA IdleStoreTyped ==
  ASSUME StoreOK, UNCHANGED storeVars
  PROVE  StoreOK'
  BY DEF StoreOK, storeVars

LEMMA IdleDrawnTyped ==
  ASSUME DrawnOK, UNCHANGED drawn
  PROVE  DrawnOK'
  BY DEF DrawnOK

LEMMA IdleRemoteTyped ==
  ASSUME RemoteOK, UNCHANGED remoteVars
  PROVE  RemoteOK'
  BY DEF RemoteOK, remoteVars

LEMMA AtTyped ==
  ASSUME NEW p \in Process, cursor[p] \in DOMAIN Ops
  PROVE  At(p) \in Op
  BY OpsInOrder DEF At

LEMMA ClassifyTyped ==
  ASSUME NEW o, NEW view \in View, NEW accepted \in BOOLEAN
  PROVE  Classify(o, view, accepted) \in ObservationStatus
  BY DEF Classify, View, ObservationStatus

LEMMA StartIdsTyped ==
  ASSUME NEW j \in Seq(Event), NEW o
  PROVE  StartIds(j, o) \subseteq Id
  BY DEF StartIds, Starts, Event, StartEvent, ReceiptEvent, RejectionEvent,
         ObservationEvent, DispatchErrorEvent, RiskEvent, SupersededEvent

-----------------------------------------------------------------------------
(* Type correctness and control, one lemma per kind of step.               *)

Typed == StoreOK /\ LocalOK /\ DrawnOK /\ RemoteOK

LEMMA BeginRunTyped ==
  ASSUME Typed, NEW p \in Process, BeginRun(p)
  PROVE  Typed'
  <1>1. /\ pc' = [pc EXCEPT ![p] = "consider"]
        /\ duty' = [duty EXCEPT ![p] = "Run"]
        /\ \E opts \in RunOptions : options' = [options EXCEPT ![p] = opts]
        /\ UNCHANGED <<storeVars, loopVars, draft, base, retries, drawn, remoteVars>>
    BY DEF BeginRun, Call, Goto
  <1>2. ControlOK'
    BY <1>1 DEF Typed, LocalOK, ControlOK, loopVars
  <1>3. LocalOK'
    BY <1>1, <1>2 DEF Typed, LocalOK, Control, DutyKind, loopVars
  <1> QED BY <1>1, <1>3, IdleStoreTyped, IdleDrawnTyped, IdleRemoteTyped DEF Typed

LEMMA BeginObserveTyped ==
  ASSUME Typed, NEW p \in Process, BeginObserve(p)
  PROVE  Typed'
  <1>1. /\ pc' = [pc EXCEPT ![p] = "consider"]
        /\ duty' = [duty EXCEPT ![p] = "Observe"]
        /\ UNCHANGED <<storeVars, options, loopVars, draft, base, retries, drawn,
                       remoteVars>>
    BY DEF BeginObserve, Call, Goto
  <1>2. ControlOK'
    BY <1>1 DEF Typed, LocalOK, ControlOK, loopVars
  <1>3. LocalOK'
    BY <1>1, <1>2 DEF Typed, LocalOK, Control, DutyKind, loopVars
  <1> QED BY <1>1, <1>3, IdleStoreTyped, IdleDrawnTyped, IdleRemoteTyped DEF Typed

\* The two calls that build their fact at once.
LEMMA DecisionDrafted ==
  ASSUME Typed, NEW p \in Process, NEW kind \in {"Risk", "Supersede"},
         NEW event \in Event,
         pc' = [pc EXCEPT ![p] = "record"],
         duty' = [duty EXCEPT ![p] = kind],
         draft' = [draft EXCEPT ![p] = event],
         UNCHANGED <<options, loopVars, base, retries>>
  PROVE  LocalOK'
  <1>1. ControlOK'
    BY DEF Typed, LocalOK, ControlOK, loopVars
  <1> QED BY <1>1 DEF Typed, LocalOK, Control, DutyKind, loopVars

LEMMA BeginAcceptRiskTyped ==
  ASSUME Typed, NEW p \in Process, BeginAcceptRisk(p)
  PROVE  Typed'
  <1>1. /\ Draw(p) /\ duty' = [duty EXCEPT ![p] = "Risk"]
        /\ pc' = [pc EXCEPT ![p] = "record"]
        /\ UNCHANGED <<storeVars, options, loopVars, base, retries, remoteVars>>
    BY DEF BeginAcceptRisk, Call, Goto
  <1>2. PICK event \in RiskEvent : draft' = [draft EXCEPT ![p] = event]
    <2>1. PICK o \in Op, d \in DecisionId, t \in Time :
            \E req \in RequestsOf[o] : draft' = [draft EXCEPT ![p] =
              [tag |-> "RiskAccepted", id |-> FreshId(p), op |-> o,
               decision |-> d, request |-> req,
               prior |-> StartIds(journal, o), expires |-> t]]
      BY DEF BeginAcceptRisk
    <2>2. PICK req \in RequestsOf[o] : draft' = [draft EXCEPT ![p] =
              [tag |-> "RiskAccepted", id |-> FreshId(p), op |-> o,
               decision |-> d, request |-> req,
               prior |-> StartIds(journal, o), expires |-> t]]
      BY <2>1
    <2>3. req \in Request
      BY ReleaseAssumption
    <2>4. FreshId(p) \in Id
      BY <1>1, FreshIdTyped DEF Typed
    <2>5. StartIds(journal, o) \subseteq Id
      BY StartIdsTyped DEF Typed, StoreOK
    <2> QED BY <2>2, <2>3, <2>4, <2>5 DEF RiskEvent
  <1>3. event \in Event
    BY DEF Event
  <1>4. LocalOK'
    BY <1>1, <1>2, <1>3, DecisionDrafted
  <1> QED BY <1>1, <1>4, FreshIdTyped, IdleStoreTyped, IdleRemoteTyped DEF Typed

LEMMA BeginSupersedeTyped ==
  ASSUME Typed, NEW p \in Process, BeginSupersede(p)
  PROVE  Typed'
  <1> DEFINE event == [tag |-> "PlanSuperseded", id |-> FreshId(p)]
  <1>1. /\ Draw(p) /\ duty' = [duty EXCEPT ![p] = "Supersede"]
        /\ pc' = [pc EXCEPT ![p] = "record"]
        /\ draft' = [draft EXCEPT ![p] = event]
        /\ UNCHANGED <<storeVars, options, loopVars, base, retries, remoteVars>>
    BY DEF BeginSupersede, Call, Goto
  <1>2. event \in Event
    BY <1>1, FreshIdTyped DEF Typed, Event, SupersededEvent
  <1>3. LocalOK'
    BY <1>1, <1>2, DecisionDrafted
  <1> QED BY <1>1, <1>3, FreshIdTyped, IdleStoreTyped, IdleRemoteTyped DEF Typed

LEMMA ReadForFactTyped ==
  ASSUME Typed, NEW p \in Process, ReadForFact(p)
  PROVE  Typed'
  <1>1. pc[p] = "record" /\ UNCHANGED <<storeVars, drawn, remoteVars>>
    BY DEF ReadForFact
  <1>2. ASSUME AfterFact(p) PROVE LocalOK'
    BY <1>1, <1>2, AfterFactTyped DEF Typed
  <1>3. ASSUME Return(p) PROVE LocalOK'
    BY <1>3, ReturnTyped DEF Typed
  <1>4. ASSUME /\ pc' = [pc EXCEPT ![p] = "append"]
               /\ base' = [base EXCEPT ![p] = Len(journal)]
               /\ UNCHANGED <<callVars, loopVars, draft, retries>>
        PROVE  LocalOK'
    <2>1. Len(journal) \in Nat
      BY DEF Typed, StoreOK
    <2>2. ControlOK'
      BY <1>1, <1>4 DEF Typed, LocalOK, ControlOK, callVars, loopVars
    <2> QED BY <1>4, <2>1, <2>2 DEF Typed, LocalOK, Control, callVars, loopVars
  <1>5. LocalOK'
    BY <1>2, <1>3, <1>4 DEF ReadForFact, Goto
  <1> QED BY <1>1, <1>5, IdleStoreTyped, IdleDrawnTyped, IdleRemoteTyped DEF Typed

LEMMA AppendFactTyped ==
  ASSUME Typed, NEW p \in Process, AppendFact(p)
  PROVE  Typed'
  <1>1. pc[p] = "append" /\ UNCHANGED <<drawn, remoteVars>>
    BY DEF AppendFact
  <1>2. PICK result \in AppendResult :
          /\ StoreAppend(base[p], draft[p], result)
          /\ \/ AfterFact(p)
             \/ /\ retries[p] + 1 < MaxRetry
                /\ pc' = [pc EXCEPT ![p] = "record"]
                /\ retries' = [retries EXCEPT ![p] = @ + 1]
                /\ UNCHANGED <<callVars, loopVars, draft, base>>
             \/ Return(p)
    BY DEF AppendFact, Goto
  <1>3. base[p] \in Nat /\ draft[p] \in Event
    BY <1>1 DEF Typed, LocalOK, ControlOK
  <1>4. StoreOK'
    BY <1>2, <1>3, StoreAppendTyped DEF Typed
  <1>5. ASSUME AfterFact(p) PROVE LocalOK'
    BY <1>1, <1>5, AfterFactTyped DEF Typed
  <1>6. ASSUME Return(p) PROVE LocalOK'
    BY <1>6, ReturnTyped DEF Typed
  <1>7. ASSUME /\ retries[p] + 1 < MaxRetry
               /\ pc' = [pc EXCEPT ![p] = "record"]
               /\ retries' = [retries EXCEPT ![p] = @ + 1]
               /\ UNCHANGED <<callVars, loopVars, draft, base>>
        PROVE  LocalOK'
    <2>1. retries[p] + 1 \in 0..MaxRetry
      BY <1>7, Bounds DEF Typed, LocalOK
    <2>2. ControlOK'
      BY <1>1, <1>7 DEF Typed, LocalOK, ControlOK, callVars, loopVars
    <2> QED BY <1>7, <2>1, <2>2 DEF Typed, LocalOK, Control, callVars, loopVars
  <1> QED BY <1>1, <1>2, <1>4, <1>5, <1>6, <1>7, IdleDrawnTyped, IdleRemoteTyped
          DEF Typed

\* Steps that read the journal and move the process on.
LEMMA LoopTyped ==
  ASSUME Typed, NEW p \in Process,
         Consider(p) \/ ConsiderObservation(p) \/ EndPass(p) \/ Decide(p)
  PROVE  Typed'
  <1>1. UNCHANGED <<storeVars, drawn, remoteVars>>
    BY DEF Consider, ConsiderObservation, EndPass, Decide
  <1>2. Len(journal) \in Nat
    BY DEF Typed, StoreOK
  <1>3. ASSUME Consider(p) PROVE LocalOK'
    <2>1. cursor[p] \in DOMAIN Ops
      BY <1>3, OpsInOrder DEF Consider, Typed, LocalOK
    <2>2. cursor[p] + 1 \in 1..(Len(Ops) + 1)
      BY <2>1, OpsInOrder
    <2>3. ASSUME Advance(p) PROVE LocalOK'
      BY <2>1, <2>3, AdvanceTyped DEF Typed
    <2>4. ASSUME /\ visited' = [visited EXCEPT ![p] = @ \cup {At(p)}]
                 /\ progressed' = [progressed EXCEPT ![p] = TRUE]
                 /\ \/ /\ pc' = [pc EXCEPT ![p] = "observe"]
                       /\ base' = [base EXCEPT ![p] = Len(journal)]
                       /\ UNCHANGED cursor
                    \/ /\ pc' = [pc EXCEPT ![p] = "prepare"]
                       /\ UNCHANGED <<cursor, base>>
                    \/ /\ cursor' = [cursor EXCEPT ![p] = @ + 1]
                       /\ UNCHANGED <<pc, base>>
                 /\ UNCHANGED <<callVars, dispatches, draft, retries>>
          PROVE  LocalOK'
      <3>1. pc[p] = "consider"
        BY <1>3 DEF Consider
      <3>2. ControlOK'
        BY <2>1, <2>4, <3>1 DEF Typed, LocalOK, ControlOK, callVars
      <3>3. At(p) \in Op
        BY <2>1, AtTyped
      <3>4. /\ visited' \in [Process -> SUBSET Op] /\ progressed' \in [Process -> BOOLEAN]
            /\ UNCHANGED <<callVars, dispatches, draft, retries>>
        BY <2>4, <3>3 DEF Typed, LocalOK
      <3>5. /\ pc' \in [Process -> Control] /\ base' \in [Process -> Nat]
            /\ cursor' \in [Process -> 1 .. (Len(Ops) + 1)]
        BY <1>2, <2>2, <2>4 DEF Typed, LocalOK, Control
      <3> QED BY <3>2, <3>4, <3>5 DEF Typed, LocalOK, callVars
    <2> QED BY <1>3, <2>3, <2>4 DEF Consider, Goto
  <1>4. ASSUME ConsiderObservation(p) PROVE LocalOK'
    <2>1. cursor[p] \in DOMAIN Ops
      BY <1>4, OpsInOrder DEF ConsiderObservation, Typed, LocalOK
    <2>2. ASSUME Advance(p) PROVE LocalOK'
      BY <2>1, <2>2, AdvanceTyped DEF Typed
    <2>3. ASSUME /\ pc' = [pc EXCEPT ![p] = "observe"]
                 /\ base' = [base EXCEPT ![p] = Len(journal)]
                 /\ UNCHANGED <<callVars, loopVars, draft, retries>>
          PROVE  LocalOK'
      <3>1. ControlOK'
        BY <2>1, <2>3 DEF Typed, LocalOK, ControlOK, callVars, loopVars
      <3> QED BY <1>2, <2>3, <3>1 DEF Typed, LocalOK, Control, callVars, loopVars
    <2> QED BY <1>4, <2>2, <2>3 DEF ConsiderObservation, Goto
  <1>5. ASSUME EndPass(p) PROVE LocalOK'
    <2>1. ASSUME Return(p) PROVE LocalOK'
      BY <2>1, ReturnTyped DEF Typed
    <2>2. ASSUME /\ cursor' = [cursor EXCEPT ![p] = 1]
                 /\ progressed' = [progressed EXCEPT ![p] = FALSE]
                 /\ UNCHANGED <<pc, callVars, visited, dispatches, draft, base, retries>>
          PROVE  LocalOK'
      <3>1. pc[p] = "consider" /\ 1 \in 1..(Len(Ops) + 1)
        BY <1>5, OpsInOrder DEF EndPass
      <3>2. ControlOK'
        BY <2>2, <3>1 DEF Typed, LocalOK, ControlOK, callVars
      <3> QED BY <2>2, <3>1, <3>2 DEF Typed, LocalOK, callVars
    <2> QED BY <1>5, <2>1, <2>2 DEF EndPass
  <1>6. ASSUME Decide(p) PROVE LocalOK'
    <2>1. cursor[p] \in DOMAIN Ops
      BY <1>6 DEF Decide, Typed, LocalOK, ControlOK
    <2>2. ASSUME Advance(p) PROVE LocalOK'
      BY <2>1, <2>2, AdvanceTyped DEF Typed
    <2>3. ASSUME /\ pc' = [pc EXCEPT ![p] = "prepare"]
                 /\ UNCHANGED <<callVars, loopVars, draft, base, retries>>
          PROVE  LocalOK'
      <3>1. ControlOK'
        BY <2>1, <2>3 DEF Typed, LocalOK, ControlOK, callVars, loopVars
      <3> QED BY <2>3, <3>1 DEF Typed, LocalOK, Control, callVars, loopVars
    <2> QED BY <1>6, <2>2, <2>3 DEF Decide, Goto
  <1>7. LocalOK'
    BY <1>3, <1>4, <1>5, <1>6
  <1> QED BY <1>1, <1>7, IdleStoreTyped, IdleDrawnTyped, IdleRemoteTyped DEF Typed

LEMMA ObserveTyped ==
  ASSUME Typed, NEW p \in Process, Observe(p)
  PROVE  Typed'
  <1>1. /\ cursor[p] \in DOMAIN Ops
        /\ UNCHANGED <<storeVars, dispatches, remoteVars>>
    BY DEF Observe, Typed, LocalOK, ControlOK
  <1>2. PICK view \in ViewsOf(At(p)) :
          LET status == Classify(At(p), view,
                          Receipts(SubSeq(journal, 1, base[p]), At(p)) # {})
          IN \E out \in (IF status = "Satisfied" THEN Output ELSE {NoOutput}) :
               Record(p, [tag |-> "ObservationRecorded", id |-> FreshId(p),
                          op |-> At(p), view |-> view, status |-> status,
                          out |-> out])
    BY DEF Observe
  <1> DEFINE status == Classify(At(p), view,
                         Receipts(SubSeq(journal, 1, base[p]), At(p)) # {})
  <1>3. view \in View /\ status \in ObservationStatus
    BY ClassifyTyped DEF ViewsOf, View
  <1> HIDE DEF status
  <1>4. PICK out \in (IF status = "Satisfied" THEN Output ELSE {NoOutput}) :
          Record(p, [tag |-> "ObservationRecorded", id |-> FreshId(p),
                     op |-> At(p), view |-> view, status |-> status,
                     out |-> out])
    BY <1>2 DEF status
  <1> DEFINE event == [tag |-> "ObservationRecorded", id |-> FreshId(p),
                       op |-> At(p), view |-> view, status |-> status,
                       out |-> out]
  <1>5. Draw(p)
    BY <1>4 DEF Record
  <1>6. event \in Event
    BY <1>1, <1>3, <1>4, <1>5, AtTyped, FreshIdTyped DEF Typed, Event, ObservationEvent
  <1>7. dispatches' \in [Process -> Nat]
    BY <1>1 DEF Typed, LocalOK
  <1>8. LocalOK'
    BY <1>1, <1>4, <1>6, <1>7, RecordTyped DEF Typed
  <1> QED BY <1>1, <1>5, <1>8, FreshIdTyped, IdleStoreTyped, IdleRemoteTyped DEF Typed

LEMMA PrepareTyped ==
  ASSUME Typed, NEW p \in Process, Prepare(p)
  PROVE  Typed'
  <1>1. /\ cursor[p] \in DOMAIN Ops
        /\ UNCHANGED <<storeVars, remoteVars>>
    BY DEF Prepare, Typed, LocalOK, ControlOK
  <1>2. PICK req \in RequestsOf[At(p)], now \in Time :
          LET bases == LawfulBases(journal, At(p), req, now)
          IN \/ /\ \E basis \in bases :
                     draft' = [draft EXCEPT ![p] =
                       [tag |-> "DispatchStarted", id |-> FreshId(p), op |-> At(p),
                        request |-> req, at |-> now, basis |-> basis]]
                /\ pc' = [pc EXCEPT ![p] = "commit"]
                /\ base' = [base EXCEPT ![p] = Len(journal)]
                /\ Draw(p)
                /\ UNCHANGED <<callVars, loopVars, retries>>
             \/ Advance(p) /\ UNCHANGED drawn
    BY DEF Prepare, Goto
  <1>3. ASSUME Advance(p), UNCHANGED drawn PROVE LocalOK' /\ DrawnOK'
    BY <1>1, <1>3, AdvanceTyped, IdleDrawnTyped DEF Typed
  <1>4. ASSUME NEW basis \in LawfulBases(journal, At(p), req, now),
               draft' = [draft EXCEPT ![p] =
                 [tag |-> "DispatchStarted", id |-> FreshId(p), op |-> At(p),
                  request |-> req, at |-> now, basis |-> basis]],
               pc' = [pc EXCEPT ![p] = "commit"],
               base' = [base EXCEPT ![p] = Len(journal)],
               Draw(p),
               UNCHANGED <<callVars, loopVars, retries>>
        PROVE  LocalOK' /\ DrawnOK'
    <2> DEFINE event == [tag |-> "DispatchStarted", id |-> FreshId(p), op |-> At(p),
                         request |-> req, at |-> now, basis |-> basis]
    <2>1. At(p) \in Op
      BY <1>1, AtTyped
    <2>2. req \in Request
      BY <2>1, ReleaseAssumption
    <2>3. basis \in Basis
      BY <2>1, BasesTyped DEF Typed, StoreOK
    <2>4. FreshId(p) \in Id /\ DrawnOK'
      BY <1>4, FreshIdTyped DEF Typed
    <2>5. event \in StartEvent
      BY <2>1, <2>2, <2>3, <2>4 DEF StartEvent
    <2>6. draft' = [draft EXCEPT ![p] = event]
      BY <1>4
    <2> HIDE DEF event
    <2>7. event \in Event /\ Len(journal) \in Nat
      BY <2>5 DEF Event, Typed, StoreOK
    <2>8. ControlOK'
      BY <1>1, <1>4, <2>5, <2>6 DEF Typed, LocalOK, ControlOK, callVars, loopVars
    <2>9. LocalOK'
      BY <1>4, <2>6, <2>7, <2>8 DEF Typed, LocalOK, Control, callVars, loopVars
    <2> QED BY <2>4, <2>9
  <1>5. LocalOK' /\ DrawnOK'
    BY <1>2, <1>3, <1>4
  <1> QED BY <1>1, <1>5, IdleStoreTyped, IdleRemoteTyped DEF Typed

LEMMA CommitTyped ==
  ASSUME Typed, NEW p \in Process, Commit(p)
  PROVE  Typed'
  <1>1. /\ pc[p] = "commit"
        /\ cursor[p] \in DOMAIN Ops
        /\ draft[p] \in StartEvent /\ base[p] \in Nat
        /\ UNCHANGED <<drawn, remoteVars>>
    BY DEF Commit, Typed, LocalOK, ControlOK
  <1>2. PICK result \in AppendResult :
          /\ StoreAppend(base[p], draft[p], result)
          /\ \/ \E label \in {"send", "reconcile"} :
                  /\ pc' = [pc EXCEPT ![p] = label]
                  /\ UNCHANGED <<callVars, loopVars, draft, base, retries>>
             \/ Advance(p)
    BY DEF Commit, Goto
  <1>3. StoreOK'
    BY <1>1, <1>2, StoreAppendTyped DEF Typed, Event
  <1>4. ASSUME Advance(p) PROVE LocalOK'
    BY <1>1, <1>4, AdvanceTyped DEF Typed
  <1>5. ASSUME NEW label \in {"send", "reconcile"},
               pc' = [pc EXCEPT ![p] = label],
               UNCHANGED <<callVars, loopVars, draft, base, retries>>
        PROVE  LocalOK'
    <2>1. ControlOK'
      BY <1>1, <1>5 DEF Typed, LocalOK, ControlOK, callVars, loopVars
    <2> QED BY <1>5, <2>1 DEF Typed, LocalOK, Control, callVars, loopVars
  <1>6. LocalOK'
    BY <1>2, <1>4, <1>5
  <1> QED BY <1>1, <1>3, <1>6, IdleDrawnTyped, IdleRemoteTyped DEF Typed

LEMMA ReconcileTyped ==
  ASSUME Typed, NEW p \in Process, Reconcile(p)
  PROVE  Typed'
  <1>1. /\ pc[p] = "reconcile" /\ cursor[p] \in DOMAIN Ops
        /\ UNCHANGED <<storeVars, drawn, remoteVars>>
    BY DEF Reconcile, Typed, LocalOK, ControlOK
  <1>2. ASSUME Advance(p) PROVE LocalOK'
    BY <1>1, <1>2, AdvanceTyped DEF Typed
  <1>3. ASSUME pc' = [pc EXCEPT ![p] = "send"],
               UNCHANGED <<callVars, loopVars, draft, base, retries>>
        PROVE  LocalOK'
    <2>1. ControlOK'
      BY <1>1, <1>3 DEF Typed, LocalOK, ControlOK, callVars, loopVars
    <2> QED BY <1>3, <2>1 DEF Typed, LocalOK, Control, callVars, loopVars
  <1>4. LocalOK'
    BY <1>2, <1>3 DEF Reconcile, Goto
  <1> QED BY <1>1, <1>4, IdleStoreTyped, IdleDrawnTyped, IdleRemoteTyped DEF Typed

\* What a process that sends holds.
LEMMA SenderHolds ==
  ASSUME Typed, NEW p \in Process, pc[p] = "send"
  PROVE  /\ cursor[p] \in DOMAIN Ops
         /\ draft[p] \in StartEvent
         /\ draft[p].op \in Op /\ draft[p].id \in Id /\ draft[p].request \in Request
  BY DEF Typed, LocalOK, ControlOK, StartEvent

\* Whatever becomes of the request, the remote's state stays in its types.
LEMMA FateTyped ==
  ASSUME Typed, NEW p \in Process, pc[p] = "send",
         sends' = [sends EXCEPT ![draft[p].id] = @ + 1], UNCHANGED existing,
         Applied(p) \/ Travelling(p) \/ UNCHANGED <<wire, published>>
  PROVE  RemoteOK'
  <1>1. /\ [op |-> draft[p].op, dispatch |-> draft[p].id] \in [op : Op, dispatch : Id]
        /\ [op |-> draft[p].op, dispatch |-> draft[p].id, request |-> draft[p].request]
             \in Sent
    BY SenderHolds DEF Sent
  <1>2. sends' \in [Id -> Nat]
    BY SenderHolds DEF Typed, RemoteOK
  <1> QED BY <1>1, <1>2 DEF Typed, RemoteOK, Applied, Travelling

LEMMA TransmitTyped ==
  ASSUME Typed, NEW p \in Process, Transmit(p)
  PROVE  /\ pc[p] = "send"
         /\ sends' = [sends EXCEPT ![draft[p].id] = @ + 1]
         /\ dispatches' \in [Process -> Nat]
         /\ UNCHANGED storeVars /\ UNCHANGED existing
  BY DEF Transmit, Typed, LocalOK

LEMMA SentAndRecorded ==
  ASSUME Typed, NEW p \in Process, Transmit(p), NEW event \in Event,
         Record(p, event),
         Applied(p) \/ Travelling(p) \/ UNCHANGED <<wire, published>>
  PROVE  Typed'
  <1>1. RemoteOK'
    BY TransmitTyped, FateTyped
  <1>2. LocalOK'
    BY TransmitTyped, SenderHolds, RecordTyped DEF Typed
  <1>3. DrawnOK'
    BY FreshIdTyped DEF Record, Typed
  <1> QED BY <1>1, <1>2, <1>3, TransmitTyped, IdleStoreTyped DEF Typed

LEMMA SendTyped ==
  ASSUME Typed, NEW p \in Process, Send(p)
  PROVE  Typed'
  <1>1. ASSUME Accepted(p) PROVE Typed'
    <2>1. PICK status \in {"Satisfied", "Pending"} :
            /\ Applied(p) \/ Travelling(p) \/ UNCHANGED <<wire, published>>
            /\ \E out \in (IF status = "Satisfied" THEN Output ELSE {NoOutput}) :
                 Record(p, [tag |-> "ReceiptAccepted", id |-> FreshId(p),
                        dispatch |-> draft[p].id, status |-> status, out |-> out])
      BY <1>1 DEF Accepted
    <2>2. PICK out \in Output \cup {NoOutput} :
            Record(p, [tag |-> "ReceiptAccepted", id |-> FreshId(p),
                       dispatch |-> draft[p].id, status |-> status, out |-> out])
      BY <2>1
    <2>3. Transmit(p)
      BY <1>1 DEF Accepted
    <2>4. FreshId(p) \in Id /\ draft[p].id \in Id
      BY <2>2, <2>3, FreshIdTyped, SenderHolds, TransmitTyped DEF Record, Typed
    <2>5. [tag |-> "ReceiptAccepted", id |-> FreshId(p), dispatch |-> draft[p].id,
           status |-> status, out |-> out] \in Event
      BY <2>4 DEF Event, ReceiptEvent
    <2> QED BY <2>1, <2>2, <2>3, <2>5, SentAndRecorded
  <1>2. ASSUME Rejected(p) PROVE Typed'
    <2>1. /\ Transmit(p) /\ UNCHANGED <<wire, published>>
          /\ Record(p, [tag |-> "DispatchRejectedBeforeCommit", id |-> FreshId(p),
                        dispatch |-> draft[p].id])
      BY <1>2 DEF Rejected
    <2>2. FreshId(p) \in Id /\ draft[p].id \in Id
      BY <2>1, FreshIdTyped, SenderHolds, TransmitTyped DEF Record, Typed
    <2>3. [tag |-> "DispatchRejectedBeforeCommit", id |-> FreshId(p),
           dispatch |-> draft[p].id] \in Event
      BY <2>2 DEF Event, RejectionEvent
    <2> QED BY <2>1, <2>3, SentAndRecorded
  <1>3. ASSUME Uncertain(p) PROVE Typed'
    <2>1. /\ Transmit(p) /\ Fate(p)
          /\ Record(p, [tag |-> "DispatchError", id |-> FreshId(p), op |-> draft[p].op,
                        dispatch |-> draft[p].id, status |-> "Inconclusive"])
      BY <1>3 DEF Uncertain
    <2>2. FreshId(p) \in Id /\ draft[p].id \in Id /\ draft[p].op \in Op
      BY <2>1, FreshIdTyped, SenderHolds, TransmitTyped DEF Record, Typed
    <2>3. [tag |-> "DispatchError", id |-> FreshId(p), op |-> draft[p].op,
           dispatch |-> draft[p].id, status |-> "Inconclusive"] \in Event
      BY <2>2 DEF Event, DispatchErrorEvent
    <2> QED BY <2>1, <2>3, SentAndRecorded DEF Fate
  <1>4. ASSUME UnknownErrorCodec(p) PROVE Typed'
    <2>1. RemoteOK'
      BY <1>4, FateTyped DEF UnknownErrorCodec, Fate
    <2>2. LocalOK' /\ UNCHANGED storeVars /\ UNCHANGED drawn
      BY <1>4, ReturnTyped DEF UnknownErrorCodec, Typed
    <2> QED BY <2>1, <2>2, IdleStoreTyped, IdleDrawnTyped DEF Typed
  <1> QED BY <1>1, <1>2, <1>3, <1>4 DEF Send

\* A call that fails or dies.
LEMMA EndTyped ==
  ASSUME Typed, NEW p \in Process, ProviderFails(p) \/ Crash(p)
  PROVE  Typed'
  <1>1. Return(p) /\ UNCHANGED <<storeVars, drawn, remoteVars>>
    BY DEF ProviderFails, Crash
  <1> QED BY <1>1, ReturnTyped, IdleStoreTyped, IdleDrawnTyped, IdleRemoteTyped DEF Typed

LEMMA LandTyped ==
  ASSUME Typed, NEW x \in inflight, Land(x)
  PROVE  Typed'
  <1>1. x.event \in Event
    BY DEF Typed, StoreOK
  <1>2. StoreOK'
    BY <1>1 DEF Land, Typed, StoreOK
  <1>3. LocalOK'
    BY DEF Land, Typed, LocalOK, ControlOK, callVars, loopVars
  <1>4. UNCHANGED drawn /\ UNCHANGED remoteVars
    BY DEF Land
  <1> QED BY <1>2, <1>3, <1>4, IdleDrawnTyped, IdleRemoteTyped DEF Typed

LEMMA DeliverTyped ==
  ASSUME Typed, NEW x \in wire, Deliver(x)
  PROVE  Typed'
  <1>1. [op |-> x.op, dispatch |-> x.dispatch] \in [op : Op, dispatch : Id]
    BY DEF Typed, RemoteOK, Sent
  <1>2. RemoteOK'
    BY <1>1 DEF Deliver, Typed, RemoteOK
  <1>3. LocalOK'
    BY DEF Deliver, Typed, LocalOK, ControlOK, callVars, loopVars
  <1>4. UNCHANGED storeVars /\ UNCHANGED drawn
    BY DEF Deliver
  <1> QED BY <1>2, <1>3, <1>4, IdleStoreTyped, IdleDrawnTyped DEF Typed

LEMMA IdleTyped ==
  ASSUME Typed, UNCHANGED vars
  PROVE  Typed'
  BY DEF vars, Typed, StoreOK, LocalOK, ControlOK, DrawnOK, RemoteOK

LEMMA InitTyped ==
  ASSUME Init
  PROVE  Typed
  <1>1. 1 \in 1..(Len(Ops) + 1) /\ 0 \in 0..MaxRetry
    BY OpsInOrder, Bounds
  <1>2. StoreOK
    BY DEF Init, StoreOK
  <1>3. LocalOK
    BY <1>1 DEF Init, LocalOK, ControlOK, Control, DutyKind
  <1>4. DrawnOK
    BY Bounds DEF Init, DrawnOK
  <1>5. RemoteOK
    BY ReleaseAssumption DEF Init, RemoteOK
  <1> QED BY <1>2, <1>3, <1>4, <1>5 DEF Typed

LEMMA NextTyped ==
  ASSUME Typed, [Next]_vars
  PROVE  Typed'
  <1>1. ASSUME NEW p \in Process, Begin(p) PROVE Typed'
    BY <1>1, BeginRunTyped, BeginObserveTyped, BeginAcceptRiskTyped,
       BeginSupersedeTyped DEF Begin
  <1>2. ASSUME NEW p \in Process, Step(p) PROVE Typed'
    BY <1>2, LoopTyped, ObserveTyped, PrepareTyped, EndTyped, CommitTyped,
       ReconcileTyped, SendTyped, ReadForFactTyped, AppendFactTyped DEF Step
  <1>3. ASSUME NEW p \in Process, Crash(p) PROVE Typed'
    BY <1>3, EndTyped
  <1>4. ASSUME Environment PROVE Typed'
    BY <1>4, LandTyped, DeliverTyped DEF Environment
  <1>5. ASSUME UNCHANGED vars PROVE Typed'
    BY <1>5, IdleTyped
  <1> QED BY <1>1, <1>2, <1>3, <1>4, <1>5 DEF Next, Rest

\* Every reachable state is of the types TypeOK names, and where a process
\* stands fixes what it holds: an executor about to send always holds a typed
\* DispatchStarted, whatever raced or crashed before (Release.ts:204-418).
THEOREM TypeCorrect == Spec => [](TypeOK /\ ControlOK)
  <1>1. Init => Typed
    BY InitTyped
  <1>2. Typed /\ [Next]_vars => Typed'
    BY NextTyped
  <1>3. Typed => TypeOK /\ ControlOK
    BY StateParts DEF Typed
  <1> QED BY <1>1, <1>2, <1>3, PTL DEF Spec

-----------------------------------------------------------------------------
(* The history *)

Drafting == {"commit", "reconcile", "send", "record", "append"}

\* AdmissibleInv, regrouped by what changes together.
HistoryOK ==
  /\ Admissible(journal)
  /\ \A i \in DOMAIN journal : IdDrawn(journal[i].id)
  /\ \A w \in inflight : IdDrawn(w.event.id) /\ LegalAt(w.rev, w.event)

HolderOK(p) ==
  /\ pc[p] \in Drafting => IdDrawn(draft[p].id)
  /\ pc[p] \in {"commit", "append"} => LegalAt(base[p], draft[p])

Sound == Typed /\ HistoryOK /\ \A p \in Process : HolderOK(p)

LEMMA SoundParts == AdmissibleInv <=> Sound
  BY StateParts DEF AdmissibleInv, Sound, Typed, HistoryOK, HolderOK, Drafting,
                    IdentitiesDrawn, WaitingLegal, HistoryAdmissible

-----------------------------------------------------------------------------
(* Identities *)

LEMMA IdParts ==
  ASSUME NEW id \in Id
  PROVE  id[1] \in Process /\ id[2] \in Nat
  <1>1. PICK p \in Process : id \in {<<p, n>> : n \in 1..MaxSerial[p]}
    BY ReleaseAssumption
  <1>2. PICK n \in 1..MaxSerial[p] : id = <<p, n>>
    BY <1>1
  <1>3. n \in Nat
    BY Bounds
  <1> QED BY <1>2, <1>3

LEMMA EventIds ==
  ASSUME NEW e \in Event
  PROVE  e.id \in Id
  BY DEF Event, StartEvent, ReceiptEvent, RejectionEvent, ObservationEvent,
         DispatchErrorEvent, RiskEvent, SupersededEvent

\* Identities are only ever drawn.
LEMMA StaysDrawn ==
  ASSUME DrawnOK, NEW p \in Process, Draw(p) \/ UNCHANGED drawn,
         NEW id \in Id, IdDrawn(id)
  PROVE  IdDrawn(id)'
  <1>1. drawn[id[1]] \in Nat /\ drawn'[id[1]] \in Nat /\ drawn'[id[1]] >= drawn[id[1]]
    BY IdParts DEF DrawnOK, Draw
  <1>2. id[2] \in Nat /\ id[2] <= drawn[id[1]]
    BY IdParts DEF IdDrawn
  <1> QED BY <1>1, <1>2 DEF IdDrawn

LEMMA FreshDrawn ==
  ASSUME DrawnOK, NEW p \in Process, Draw(p), NEW id, id = FreshId(p)
  PROVE  IdDrawn(id)' /\ ~IdDrawn(id)
  <1>1. drawn[p] \in Nat /\ drawn'[p] = drawn[p] + 1
    BY DEF DrawnOK, Draw
  <1>2. id[1] = p /\ id[2] = drawn[p] + 1
    BY DEF FreshId
  <1> QED BY <1>1, <1>2 DEF IdDrawn

\* A fresh identity is recorded nowhere.
LEMMA FreshUnrecorded ==
  ASSUME Typed, HistoryOK, NEW p \in Process, Draw(p)
  PROVE  FreshId(p) \notin Ids(journal)
  BY FreshDrawn DEF Typed, HistoryOK, Ids

-----------------------------------------------------------------------------
(* The history under one append *)

Grown ==
  journal' = journal \/ \E e \in Event : journal' = Append(journal, e)

LEMMA LegalStaysLegal ==
  ASSUME journal \in Seq(Event), Grown,
         NEW rev \in Nat, NEW event, LegalAt(rev, event)
  PROVE  LegalAt(rev, event)'
  <1>1. rev \in 0..Len(journal) /\ LegalAppend(SubSeq(journal, 1, rev), event)
    BY DEF LegalAt
  <1>2. rev <= Len(journal') /\ SubSeq(journal', 1, rev) = SubSeq(journal, 1, rev)
    BY <1>1, PrefixOfAppend DEF Grown
  <1> QED BY <1>1, <1>2 DEF LegalAt

\* At the end of the history, legal after the prefix is legal after it all.
LEMMA LegalAtEnd ==
  ASSUME journal \in Seq(Event), NEW event
  PROVE  LegalAt(Len(journal), event) <=> LegalAppend(journal, event)
  <1>1. Len(journal) \in Nat /\ Len(journal) <= Len(journal)
    OBVIOUS
  <1> QED BY <1>1, WholePrefix DEF LegalAt

LEMMA WrittenKeeps ==
  ASSUME StoreOK, HistoryOK, NEW event \in Event, IdDrawn(event.id),
         LegalAt(Len(journal), event), journal' = Append(journal, event),
         inflight' \subseteq inflight, UNCHANGED drawn
  PROVE  HistoryOK'
  <1>1. Admissible(journal')
    BY LegalAtEnd, AppendAdmissible DEF StoreOK, HistoryOK
  <1>2. ASSUME NEW i \in DOMAIN journal' PROVE IdDrawn(journal[i].id)'
    <2>1. CASE i \in DOMAIN journal
      BY <2>1 DEF StoreOK, HistoryOK, IdDrawn
    <2>2. CASE i = Len(journal) + 1
      BY <2>2 DEF StoreOK, IdDrawn
    <2> QED BY <2>1, <2>2 DEF StoreOK
  <1>3. ASSUME NEW w \in inflight' PROVE IdDrawn(w.event.id)' /\ LegalAt(w.rev, w.event)'
    <2>1. w \in inflight /\ w.rev \in Nat /\ w.event \in Event
      BY DEF StoreOK
    <2>2. IdDrawn(w.event.id)'
      BY <2>1 DEF HistoryOK, IdDrawn
    <2>3. LegalAt(w.rev, w.event)'
      BY <2>1, LegalStaysLegal DEF StoreOK, HistoryOK, Grown
    <2> QED BY <2>2, <2>3
  <1> QED BY <1>1, <1>2, <1>3 DEF HistoryOK

LEMMA StoreAppendKeeps ==
  ASSUME StoreOK, HistoryOK, NEW rev \in Nat, NEW event \in Event,
         IdDrawn(event.id), LegalAt(rev, event), NEW result,
         StoreAppend(rev, event, result), UNCHANGED drawn
  PROVE  HistoryOK' /\ Grown
  <1>1. CASE rev = Len(journal) /\ Written(event)
    <2>1. /\ journal' = Append(journal, event) /\ UNCHANGED inflight
          /\ LegalAt(Len(journal), event)
      BY <1>1 DEF Written
    <2> QED BY <2>1, WrittenKeeps DEF Grown
  <1>2. CASE UNCHANGED storeVars
    BY <1>2 DEF storeVars, HistoryOK, IdDrawn, LegalAt, Grown
  <1>3. CASE /\ inflight' = inflight \cup {[rev |-> rev, event |-> event]}
             /\ UNCHANGED journal
    BY <1>3 DEF HistoryOK, IdDrawn, LegalAt, Grown
  <1> QED BY <1>1, <1>2, <1>3 DEF StoreAppend

LEMMA StoreIdleKeeps ==
  ASSUME Typed, HistoryOK, NEW p \in Process, UNCHANGED storeVars,
         Draw(p) \/ UNCHANGED drawn
  PROVE  HistoryOK'
  <1>1. journal' = journal /\ inflight' = inflight
    BY DEF storeVars
  <1>2. ASSUME NEW i \in DOMAIN journal PROVE IdDrawn(journal[i].id)'
    <2>1. journal[i].id \in Id /\ IdDrawn(journal[i].id)
      BY EventIds DEF Typed, StoreOK, HistoryOK
    <2> DEFINE id == journal[i].id
    <2>2. (id' = id) /\ id \in Id /\ IdDrawn(id)
      BY <1>1, <2>1
    <2> QED BY <2>2, StaysDrawn DEF Typed, IdDrawn
  <1>3. ASSUME NEW w \in inflight PROVE IdDrawn(w.event.id)' /\ LegalAt(w.rev, w.event)'
    <2>1. w.event.id \in Id /\ IdDrawn(w.event.id) /\ LegalAt(w.rev, w.event)
      BY EventIds DEF Typed, StoreOK, HistoryOK
    <2> QED BY <1>1, <2>1, StaysDrawn DEF Typed, LegalAt
  <1> QED BY <1>1, <1>2, <1>3 DEF HistoryOK

-----------------------------------------------------------------------------
(* A step of one process leaves what the others hold.                      *)

Frame(p) ==
  \A q \in Process \ {p} :
    pc'[q] = pc[q] /\ draft'[q] = draft[q] /\ base'[q] = base[q]

LEMMA ReturnFrames ==
  ASSUME Typed, NEW p \in Process, Return(p)
  PROVE  Frame(p) /\ pc'[p] = "idle"
  BY DEF Typed, LocalOK, Return, Goto, Frame

LEMMA AdvanceFrames ==
  ASSUME Typed, NEW p \in Process, Advance(p)
  PROVE  Frame(p) /\ pc'[p] = "consider"
  BY DEF Typed, LocalOK, Advance, Goto, Frame

LEMMA AfterFactFrames ==
  ASSUME Typed, NEW p \in Process, AfterFact(p)
  PROVE  Frame(p) /\ pc'[p] \in {"idle", "consider", "decide"}
  <1>1. CASE duty[p] = "Run" /\ draft[p].tag = "ObservationRecorded"
    <2>1. /\ pc' = [pc EXCEPT ![p] = "decide"]
          /\ draft' = [draft EXCEPT ![p] = NoDraft]
          /\ base' = [base EXCEPT ![p] = 0]
      BY <1>1 DEF AfterFact, Goto
    <2> QED BY <2>1 DEF Typed, LocalOK, Frame
  <1>2. CASE duty[p] \in {"Risk", "Supersede"}
    <2>1. Return(p)
      BY <1>2 DEF AfterFact
    <2> QED BY <2>1, ReturnFrames
  <1>3. CASE /\ ~(duty[p] = "Run" /\ draft[p].tag = "ObservationRecorded")
             /\ duty[p] \notin {"Risk", "Supersede"}
    <2>1. Advance(p)
      BY <1>3 DEF AfterFact
    <2> QED BY <2>1, AdvanceFrames
  <1> QED BY <1>1, <1>2, <1>3

LEMMA RecordFrames ==
  ASSUME Typed, NEW p \in Process, NEW event, Record(p, event)
  PROVE  /\ Frame(p) /\ pc'[p] = "record" /\ draft'[p] = event
         /\ Draw(p)
  BY DEF Typed, LocalOK, Record, Goto, Frame

\* What the store did, what was drawn, and what p holds now is all that counts.
LEMMA OneProcessMoved ==
  ASSUME Sound, Typed', NEW p \in Process, Frame(p),
         Grown, Draw(p) \/ UNCHANGED drawn,
         HistoryOK', HolderOK(p)'
  PROVE  Sound'
  <1>1. ASSUME NEW q \in Process, q # p PROVE HolderOK(q)'
    <2>1. /\ pc'[q] = pc[q] /\ draft'[q] = draft[q] /\ base'[q] = base[q]
          /\ HolderOK(q) /\ base[q] \in Nat
          /\ pc[q] \in Drafting => draft[q] \in Event
      BY <1>1 DEF Frame, Sound, Typed, LocalOK, ControlOK, Drafting, Event
    <2>2. ASSUME pc[q] \in Drafting PROVE IdDrawn(draft[q].id)'
      <3>1. draft[q].id \in Id /\ IdDrawn(draft[q].id)
        BY <2>1, <2>2, EventIds DEF HolderOK
      <3> QED BY <2>1, <3>1, StaysDrawn DEF Sound, Typed, IdDrawn
    <2>3. ASSUME pc[q] \in {"commit", "append"} PROVE LegalAt(base[q], draft[q])'
      <3>1. LegalAt(base[q], draft[q]) /\ base[q] \in Nat
        BY <2>1, <2>3 DEF HolderOK
      <3> QED BY <2>1, <3>1, LegalStaysLegal DEF Sound, Typed, StoreOK, LegalAt
    <2> QED BY <2>1, <2>2, <2>3 DEF HolderOK
  <1> QED BY <1>1 DEF Sound

\* Most steps leave the store alone and the process without a draft.
LEMMA ProcessWithoutDraft ==
  ASSUME Sound, Typed', NEW p \in Process, Frame(p), pc'[p] \notin Drafting,
         UNCHANGED storeVars, UNCHANGED drawn
  PROVE  Sound'
  <1>1. HistoryOK'
    BY StoreIdleKeeps DEF Sound
  <1>2. HolderOK(p)'
    BY DEF HolderOK, Drafting
  <1> QED BY <1>1, <1>2, OneProcessMoved DEF Grown, storeVars

\* A step that hands a fresh fact to appendFact.
LEMMA FactRecorded ==
  ASSUME Sound, Typed', NEW p \in Process, NEW event, event.id = FreshId(p),
         Record(p, event), UNCHANGED storeVars
  PROVE  Sound'
  <1>1. /\ Frame(p) /\ pc'[p] = "record" /\ draft'[p] = event
        /\ Draw(p)
    BY RecordFrames DEF Sound
  <1>2. HistoryOK'
    BY <1>1, StoreIdleKeeps DEF Sound
  <1>3. HolderOK(p)'
    <2>1. IdDrawn(event.id)'
      BY <1>1, FreshDrawn DEF Sound, Typed, IdDrawn
    <2> QED BY <1>1, <2>1 DEF HolderOK, IdDrawn
  <1> QED BY <1>1, <1>2, <1>3, OneProcessMoved DEF Grown, storeVars

LEMMA BeginSound ==
  ASSUME Sound, Typed', NEW p \in Process, Begin(p)
  PROVE  Sound'
  <1>1. ASSUME BeginRun(p) \/ BeginObserve(p) PROVE Sound'
    <2>1. /\ pc' = [pc EXCEPT ![p] = "consider"]
          /\ UNCHANGED <<storeVars, draft, base, drawn>>
      BY <1>1 DEF BeginRun, BeginObserve, Goto
    <2>2. Frame(p) /\ pc'[p] \notin Drafting
      BY <2>1 DEF Sound, Typed, LocalOK, Frame, Drafting
    <2> QED BY <2>1, <2>2, ProcessWithoutDraft
  <1>2. ASSUME BeginAcceptRisk(p) \/ BeginSupersede(p) PROVE Sound'
    <2>1. PICK event : event.id = FreshId(p) /\ draft' = [draft EXCEPT ![p] = event]
      BY <1>2 DEF BeginAcceptRisk, BeginSupersede
    <2>2. /\ pc' = [pc EXCEPT ![p] = "record"]
          /\ Draw(p) /\ UNCHANGED <<storeVars, base>>
      BY <1>2 DEF BeginAcceptRisk, BeginSupersede, Goto
    <2>3. Frame(p) /\ pc'[p] = "record" /\ draft'[p] = event
      BY <2>1, <2>2 DEF Sound, Typed, LocalOK, Frame
    <2>4. HistoryOK'
      BY <2>2, StoreIdleKeeps DEF Sound
    <2>5. IdDrawn(event.id)'
      BY <2>1, <2>2, FreshDrawn DEF Sound, Typed, IdDrawn
    <2>6. HolderOK(p)'
      BY <2>3, <2>5 DEF HolderOK, IdDrawn
    <2> QED BY <2>2, <2>3, <2>4, <2>6, OneProcessMoved DEF Grown, storeVars
  <1> QED BY <1>1, <1>2 DEF Begin

LEMMA LoopSound ==
  ASSUME Sound, Typed', NEW p \in Process,
         \/ Consider(p) \/ ConsiderObservation(p) \/ EndPass(p) \/ Decide(p)
         \/ ProviderFails(p) \/ Crash(p)
  PROVE  Sound'
  <1>1. UNCHANGED storeVars /\ UNCHANGED drawn
    BY DEF Consider, ConsiderObservation, EndPass, Decide, ProviderFails, Crash
  <1>2. ASSUME Return(p) \/ Advance(p) PROVE Sound'
    <2>1. Frame(p) /\ pc'[p] \notin Drafting
      BY <1>2, ReturnFrames, AdvanceFrames DEF Sound, Drafting
    <2> QED BY <1>1, <2>1, ProcessWithoutDraft
  <1>3. ASSUME NEW label \in {"observe", "prepare", "consider"},
               pc' = [pc EXCEPT ![p] = label],
               UNCHANGED draft,
               base' = [base EXCEPT ![p] = Len(journal)] \/ UNCHANGED base
        PROVE  Sound'
    <2>1. Frame(p) /\ pc'[p] \notin Drafting
      BY <1>3 DEF Sound, Typed, LocalOK, Frame, Drafting
    <2> QED BY <1>1, <2>1, ProcessWithoutDraft
  <1>4. ASSUME pc[p] = "consider", UNCHANGED <<pc, draft, base>> PROVE Sound'
    <2>1. Frame(p) /\ pc'[p] \notin Drafting
      BY <1>4 DEF Frame, Drafting
    <2> QED BY <1>1, <2>1, ProcessWithoutDraft
  <1>5. ASSUME Consider(p) PROVE Sound'
    BY <1>2, <1>3, <1>4, <1>5 DEF Consider, Goto
  <1>6. ASSUME ConsiderObservation(p) PROVE Sound'
    BY <1>2, <1>3, <1>6 DEF ConsiderObservation, Goto
  <1>7. ASSUME EndPass(p) PROVE Sound'
    BY <1>2, <1>4, <1>7 DEF EndPass
  <1>8. ASSUME Decide(p) PROVE Sound'
    BY <1>2, <1>3, <1>8 DEF Decide, Goto
  <1> QED BY <1>2, <1>5, <1>6, <1>7, <1>8 DEF ProviderFails, Crash

LEMMA ObserveSound ==
  ASSUME Sound, Typed', NEW p \in Process, Observe(p)
  PROVE  Sound'
  <1>1. PICK event : event.id = FreshId(p) /\ Record(p, event)
    BY DEF Observe
  <1> QED BY <1>1, FactRecorded DEF Observe

\* A start decided on the history as it is, under a fresh identity, is legal.
LEMMA PrepareSound ==
  ASSUME Sound, Typed', NEW p \in Process, Prepare(p)
  PROVE  Sound'
  <1>1. UNCHANGED storeVars
    BY DEF Prepare
  <1>2. ASSUME Advance(p), UNCHANGED drawn PROVE Sound'
    BY <1>1, <1>2, AdvanceFrames, ProcessWithoutDraft DEF Sound, Drafting
  <1>3. ASSUME NEW event,
               event.tag = "DispatchStarted", event.id = FreshId(p),
               event.basis \in LawfulBases(journal, event.op, event.request, event.at),
               draft' = [draft EXCEPT ![p] = event],
               pc' = [pc EXCEPT ![p] = "commit"],
               base' = [base EXCEPT ![p] = Len(journal)],
               Draw(p)
        PROVE  Sound'
    <2>1. /\ Frame(p) /\ pc'[p] = "commit" /\ draft'[p] = event
          /\ base'[p] = Len(journal)
      BY <1>3 DEF Sound, Typed, LocalOK, Frame
    <2>2. LegalAppend(journal, event)
      BY <1>3, FreshUnrecorded DEF Sound, LegalAppend, LegalStart, LegalSelection, Selects
    <2>3. LegalAt(Len(journal), event)
      BY <2>2, LegalAtEnd DEF Sound, Typed, StoreOK
    <2>4. IdDrawn(event.id)'
      BY <1>3, FreshDrawn DEF Sound, Typed, IdDrawn
    <2>5. HolderOK(p)'
      BY <1>1, <2>1, <2>3, <2>4 DEF HolderOK, IdDrawn, LegalAt, storeVars
    <2>6. HistoryOK'
      BY <1>1, <1>3, StoreIdleKeeps DEF Sound
    <2> QED BY <1>1, <1>3, <2>1, <2>5, <2>6, OneProcessMoved DEF Grown, storeVars
  <1>4. ASSUME NEW req, NEW now, NEW basis \in LawfulBases(journal, At(p), req, now),
               draft' = [draft EXCEPT ![p] =
                 [tag |-> "DispatchStarted", id |-> FreshId(p), op |-> At(p),
                  request |-> req, at |-> now, basis |-> basis]],
               pc' = [pc EXCEPT ![p] = "commit"],
               base' = [base EXCEPT ![p] = Len(journal)],
               Draw(p)
        PROVE  Sound'
    <2> DEFINE event == [tag |-> "DispatchStarted", id |-> FreshId(p), op |-> At(p),
                         request |-> req, at |-> now, basis |-> basis]
    <2>1. /\ event.tag = "DispatchStarted" /\ event.id = FreshId(p)
          /\ event.basis \in LawfulBases(journal, event.op, event.request, event.at)
          /\ draft' = [draft EXCEPT ![p] = event]
      BY <1>4
    <2> HIDE DEF event
    <2> QED BY <1>3, <1>4, <2>1
  <1> QED BY <1>2, <1>4 DEF Prepare, Goto

LEMMA CommitSound ==
  ASSUME Sound, Typed', NEW p \in Process, Commit(p)
  PROVE  Sound'
  <1>1. /\ pc[p] = "commit" /\ UNCHANGED drawn
        /\ draft[p] \in Event /\ base[p] \in Nat
        /\ IdDrawn(draft[p].id) /\ LegalAt(base[p], draft[p])
    BY DEF Commit, Sound, Typed, LocalOK, ControlOK, HolderOK, Drafting, Event
  <1>2. PICK result \in AppendResult :
          /\ StoreAppend(base[p], draft[p], result)
          /\ \/ \E label \in {"send", "reconcile"} :
                  pc' = [pc EXCEPT ![p] = label] /\ UNCHANGED <<draft, base>>
             \/ Advance(p)
    BY DEF Commit, Goto
  <1>3. HistoryOK' /\ Grown
    BY <1>1, <1>2, StoreAppendKeeps DEF Sound, Typed
  <1>4. Frame(p) /\ HolderOK(p)'
    <2>1. ASSUME Advance(p) PROVE Frame(p) /\ HolderOK(p)'
      BY <2>1, AdvanceFrames DEF Sound, HolderOK, Drafting
    <2>2. ASSUME NEW label \in {"send", "reconcile"},
                 pc' = [pc EXCEPT ![p] = label], UNCHANGED <<draft, base>>
          PROVE  Frame(p) /\ HolderOK(p)'
      BY <1>1, <2>2 DEF Sound, Typed, LocalOK, Frame, HolderOK, IdDrawn
    <2> QED BY <1>2, <2>1, <2>2
  <1> QED BY <1>1, <1>3, <1>4, OneProcessMoved

LEMMA ReconcileSound ==
  ASSUME Sound, Typed', NEW p \in Process, Reconcile(p)
  PROVE  Sound'
  <1>1. pc[p] = "reconcile" /\ UNCHANGED storeVars /\ UNCHANGED drawn
    BY DEF Reconcile
  <1>2. ASSUME Advance(p) PROVE Sound'
    BY <1>1, <1>2, AdvanceFrames, ProcessWithoutDraft DEF Sound, Drafting
  <1>3. ASSUME pc' = [pc EXCEPT ![p] = "send"], UNCHANGED <<draft, base>>
        PROVE  Sound'
    <2>1. Frame(p) /\ HolderOK(p)'
      BY <1>1, <1>3 DEF Sound, Typed, LocalOK, Frame, HolderOK, IdDrawn, Drafting
    <2>2. HistoryOK'
      BY <1>1, StoreIdleKeeps DEF Sound
    <2> QED BY <1>1, <2>1, <2>2, OneProcessMoved DEF Grown, storeVars
  <1> QED BY <1>2, <1>3 DEF Reconcile, Goto

LEMMA SendSound ==
  ASSUME Sound, Typed', NEW p \in Process, Send(p)
  PROVE  Sound'
  <1>1. UNCHANGED storeVars
    BY DEF Send, Accepted, Rejected, Uncertain, UnknownErrorCodec, Transmit
  <1>2. ASSUME Accepted(p) \/ Rejected(p) \/ Uncertain(p) PROVE Sound'
    <2>1. PICK event : event.id = FreshId(p) /\ Record(p, event)
      BY <1>2 DEF Accepted, Rejected, Uncertain
    <2> QED BY <1>1, <2>1, FactRecorded
  <1>3. ASSUME UnknownErrorCodec(p) PROVE Sound'
    <2>1. Frame(p) /\ pc'[p] \notin Drafting /\ UNCHANGED drawn
      BY <1>3, ReturnFrames DEF UnknownErrorCodec, Sound, Drafting
    <2> QED BY <1>1, <2>1, ProcessWithoutDraft
  <1> QED BY <1>2, <1>3 DEF Send

\* A fact is appended at the revision it was validated at.
LEMMA ReadForFactSound ==
  ASSUME Sound, Typed', NEW p \in Process, ReadForFact(p)
  PROVE  Sound'
  <1>1. pc[p] = "record" /\ UNCHANGED storeVars /\ UNCHANGED drawn
    BY DEF ReadForFact
  <1>2. ASSUME AfterFact(p) \/ Return(p) PROVE Sound'
    <2>1. Frame(p) /\ pc'[p] \notin Drafting
      BY <1>2, AfterFactFrames, ReturnFrames DEF Sound, Drafting
    <2> QED BY <1>1, <2>1, ProcessWithoutDraft
  <1>3. ASSUME LegalAppend(journal, draft[p]),
               pc' = [pc EXCEPT ![p] = "append"],
               base' = [base EXCEPT ![p] = Len(journal)],
               UNCHANGED draft
        PROVE  Sound'
    <2>1. /\ Frame(p) /\ pc'[p] = "append" /\ draft'[p] = draft[p]
          /\ base'[p] = Len(journal)
      BY <1>3 DEF Sound, Typed, LocalOK, Frame
    <2>2. LegalAt(Len(journal), draft[p])
      BY <1>3, LegalAtEnd DEF Sound, Typed, StoreOK
    <2>3. HolderOK(p)'
      BY <1>1, <2>1, <2>2 DEF Sound, HolderOK, IdDrawn, LegalAt, Drafting, storeVars
    <2>4. HistoryOK'
      BY <1>1, StoreIdleKeeps DEF Sound
    <2> QED BY <1>1, <2>1, <2>3, <2>4, OneProcessMoved DEF Grown, storeVars
  <1> QED BY <1>2, <1>3 DEF ReadForFact, Goto

LEMMA AppendFactSound ==
  ASSUME Sound, Typed', NEW p \in Process, AppendFact(p)
  PROVE  Sound'
  <1>1. /\ pc[p] = "append" /\ UNCHANGED drawn
        /\ draft[p] \in Event /\ base[p] \in Nat
        /\ IdDrawn(draft[p].id) /\ LegalAt(base[p], draft[p])
    BY DEF AppendFact, Sound, Typed, LocalOK, ControlOK, HolderOK, Drafting
  <1>2. PICK result \in AppendResult :
          /\ StoreAppend(base[p], draft[p], result)
          /\ \/ AfterFact(p) \/ Return(p)
             \/ pc' = [pc EXCEPT ![p] = "record"] /\ UNCHANGED <<draft, base>>
    BY DEF AppendFact, Goto
  <1>3. HistoryOK' /\ Grown
    BY <1>1, <1>2, StoreAppendKeeps DEF Sound, Typed
  <1>4. Frame(p) /\ HolderOK(p)'
    <2>1. ASSUME AfterFact(p) \/ Return(p) PROVE Frame(p) /\ HolderOK(p)'
      BY <2>1, AfterFactFrames, ReturnFrames DEF Sound, HolderOK, Drafting
    <2>2. ASSUME pc' = [pc EXCEPT ![p] = "record"], UNCHANGED <<draft, base>>
          PROVE  Frame(p) /\ HolderOK(p)'
      BY <1>1, <2>2 DEF Sound, Typed, LocalOK, Frame, HolderOK, IdDrawn
    <2> QED BY <1>2, <2>1, <2>2
  <1> QED BY <1>1, <1>3, <1>4, OneProcessMoved

\* A step of no process: the store or the remote moves by itself.
LEMMA EnvironmentSound ==
  ASSUME Sound, Typed', UNCHANGED <<pc, draft, base, drawn>>, HistoryOK', Grown
  PROVE  Sound'
  <1>1. ASSUME NEW q \in Process PROVE HolderOK(q)'
    <2>1. HolderOK(q) /\ base[q] \in Nat
      BY DEF Sound, Typed, LocalOK
    <2>2. pc[q] \in {"commit", "append"} => LegalAt(base[q], draft[q])'
      BY <2>1, LegalStaysLegal DEF HolderOK, Sound, Typed, StoreOK, LegalAt
    <2> QED BY <2>1, <2>2 DEF HolderOK, IdDrawn
  <1> QED BY <1>1 DEF Sound

LEMMA LandSound ==
  ASSUME Sound, Typed', NEW x \in inflight, Land(x)
  PROVE  Sound'
  <1>1. /\ x.rev \in Nat /\ x.event \in Event
        /\ IdDrawn(x.event.id) /\ LegalAt(x.rev, x.event)
    BY DEF Sound, Typed, StoreOK, HistoryOK
  <1>2. inflight' \subseteq inflight /\ UNCHANGED <<pc, draft, base, drawn>>
    BY DEF Land
  <1>3. CASE x.rev = Len(journal) /\ journal' = Append(journal, x.event)
    <2>1. HistoryOK'
      BY <1>1, <1>2, <1>3, WrittenKeeps DEF Sound, Typed
    <2> QED BY <1>1, <1>2, <1>3, <2>1, EnvironmentSound DEF Grown
  <1>4. CASE journal' = journal
    <2>1. HistoryOK'
      BY <1>2, <1>4 DEF Sound, HistoryOK, IdDrawn, LegalAt
    <2> QED BY <1>2, <1>4, <2>1, EnvironmentSound DEF Grown
  <1> QED BY <1>3, <1>4 DEF Land

LEMMA DeliverSound ==
  ASSUME Sound, Typed', NEW x \in wire, Deliver(x)
  PROVE  Sound'
  <1>1. UNCHANGED <<journal, inflight, pc, draft, base, drawn>>
    BY DEF Deliver, storeVars
  <1>2. HistoryOK'
    BY <1>1 DEF Sound, HistoryOK, IdDrawn, LegalAt
  <1> QED BY <1>1, <1>2, EnvironmentSound DEF Grown

LEMMA IdleSound ==
  ASSUME Sound, Typed', UNCHANGED vars
  PROVE  Sound'
  <1>1. UNCHANGED <<journal, inflight, pc, draft, base, drawn>>
    BY DEF vars
  <1>2. HistoryOK'
    BY <1>1 DEF Sound, HistoryOK, IdDrawn, LegalAt
  <1> QED BY <1>1, <1>2, EnvironmentSound DEF Grown

LEMMA InitSound ==
  ASSUME Init
  PROVE  Sound
  <1>1. HistoryOK
    BY DEF Init, HistoryOK, Admissible
  <1>2. \A p \in Process : HolderOK(p)
    BY DEF Init, HolderOK, Drafting
  <1> QED BY <1>1, <1>2, InitTyped DEF Sound

LEMMA NextSound ==
  ASSUME Sound, [Next]_vars
  PROVE  Sound'
  <1>1. Typed'
    BY NextTyped DEF Sound
  <1>2. ASSUME NEW p \in Process, Begin(p) PROVE Sound'
    BY <1>1, <1>2, BeginSound
  <1>3. ASSUME NEW p \in Process, Step(p) PROVE Sound'
    BY <1>1, <1>3, LoopSound, ObserveSound, PrepareSound, CommitSound,
       ReconcileSound, SendSound, ReadForFactSound, AppendFactSound DEF Step
  <1>4. ASSUME NEW p \in Process, Crash(p) PROVE Sound'
    BY <1>1, <1>4, LoopSound
  <1>5. ASSUME Environment PROVE Sound'
    BY <1>1, <1>5, LandSound, DeliverSound DEF Environment
  <1>6. ASSUME UNCHANGED vars PROVE Sound'
    BY <1>1, <1>6, IdleSound
  <1> QED BY <1>2, <1>3, <1>4, <1>5, <1>6 DEF Next, Rest

-----------------------------------------------------------------------------
(* Theorems *)

\* What waits to be appended would leave the history admissible, in every state.
LEMMA JournalSound == Spec => []AdmissibleInv
  <1>1. Init => Sound
    BY InitSound
  <1>2. Sound /\ [Next]_vars => Sound'
    BY NextSound
  <1>3. Sound => AdmissibleInv
    BY SoundParts
  <1> QED BY <1>1, <1>2, <1>3, PTL DEF Spec

\* Whatever interleaving of processes, crashes, lost answers and late landings,
\* the stored history is one Host.read admits (Host.ts:143-171, Release.ts:33-58,
\* 263-321).
THEOREM JournalAdmissible == Spec => []HistoryAdmissible
  <1>1. AdmissibleInv => HistoryAdmissible
    BY DEF AdmissibleInv
  <1> QED BY <1>1, JournalSound, PTL

\* No start and no accepted risk follows a supersession in the journal
\* (Decision.ts:62, 90-91, 188-189).
THEOREM SupersessionIsFinal == Spec => []SupersessionFinal
  <1>1. AdmissibleInv => SupersessionFinal
    BY SupersededHistory DEF AdmissibleInv, TypeOK, HistoryAdmissible, SupersessionFinal
  <1> QED BY <1>1, JournalSound, PTL

\* A start after an unresolved one repeats its protected request or spends an
\* accepted risk (Decision.ts:99-127).
THEOREM UncertaintyIsKept == Spec => []UncertaintyHolds
  <1>1. AdmissibleInv => UncertaintyHolds
    BY UncertainHistory DEF AdmissibleInv, TypeOK, HistoryAdmissible, UncertaintyHolds
  <1> QED BY <1>1, JournalSound, PTL

LEMMA StartsBeforeAsPrefix ==
  ASSUME journal \in Seq(Event), NEW i \in DOMAIN journal
  PROVE  StartsBefore(i) = StartIds(SubSeq(journal, 1, i - 1), journal[i].op)
  <1> DEFINE h == SubSeq(journal, 1, i - 1)
  <1>1. /\ DOMAIN h = 1..(i - 1)
        /\ \A s \in 1..(i - 1) : s \in DOMAIN journal /\ h[s] = journal[s]
    BY i - 1 \in 0..Len(journal), PrefixOfHistory
  <1>2. Starts(h, journal[i].op) = {s \in Starts(journal, journal[i].op) : s < i}
    BY <1>1 DEF Starts
  <1> HIDE DEF h
  <1> QED BY <1>1, <1>2 DEF StartsBefore, StartIds, Starts, h

\* An operator's decision buys one dispatch: of its request, for the attempts it
\* was taken on, before it expires (Decision.ts:99-128, 185-209).
THEOREM RiskIsSpentOnce == Spec => []RiskSpentOnce
  <1>1. AdmissibleInv => RiskSpentOnce
    <2> SUFFICES ASSUME AdmissibleInv, NEW i \in DOMAIN journal,
                        journal[i].tag = "DispatchStarted",
                        journal[i].basis.kind = "AcceptedRisk"
                 PROVE  /\ \A k \in DOMAIN journal :
                             journal[k].tag = "DispatchStarted"
                               /\ journal[k].basis = journal[i].basis => k = i
                        /\ \E r \in Risks(journal, journal[i].op) :
                             /\ r < i
                             /\ journal[r].decision = journal[i].basis.decision
                             /\ journal[r].request = journal[i].request
                             /\ journal[r].prior = StartsBefore(i)
                             /\ journal[r].expires >= journal[i].at
      BY DEF RiskSpentOnce
    <2>1. journal \in Seq(Event) /\ Admissible(journal)
      BY DEF AdmissibleInv, TypeOK, HistoryAdmissible
    <2>2. \A k \in DOMAIN journal :
             journal[k].tag = "DispatchStarted"
               /\ journal[k].basis = journal[i].basis => k = i
      BY <2>1, SpentOnce
    <2>3. StartsBefore(i) = StartIds(SubSeq(journal, 1, i - 1), journal[i].op)
      BY <2>1, StartsBeforeAsPrefix
    <2> QED BY <2>1, <2>2, <2>3, RiskOfStart
  <1> QED BY <1>1, JournalSound, PTL

\* A dispatch has one outcome, and an acceptance ends the attempts of its
\* operation (Decision.ts:72-73, 90-91, 167-184).
THEOREM OutcomeIsFinal == Spec => []OutcomeFinal
  <1>1. AdmissibleInv => OutcomeFinal
    <2> SUFFICES ASSUME AdmissibleInv PROVE OutcomeFinal
      OBVIOUS
    <2>1. journal \in Seq(Event) /\ Admissible(journal)
      BY DEF AdmissibleInv, TypeOK, HistoryAdmissible
    <2>2. ASSUME NEW d PROVE Cardinality(TerminalEvidence(journal, d)) <= 1
      <3>1. CASE TerminalEvidence(journal, d) = {}
        BY <3>1, FS_EmptySet
      <3>2. CASE TerminalEvidence(journal, d) # {}
        <4>1. PICK i \in TerminalEvidence(journal, d) : TRUE
          BY <3>2
        <4>2. TerminalEvidence(journal, d) = {i}
          BY <2>1, <4>1, OutcomeUnique
        <4>3. Cardinality({i}) = 1
          BY FS_Singleton
        <4> QED BY <4>2, <4>3
      <3> QED BY <3>1, <3>2
    <2>3. ASSUME NEW r \in DOMAIN journal, NEW s \in DOMAIN journal,
                 NEW t \in DOMAIN journal, journal[r].tag = "ReceiptAccepted",
                 s \in StartsOf(journal, journal[r].dispatch),
                 t \in Starts(journal, journal[s].op)
          PROVE  t < r
      BY <2>1, <2>3, NoStartAfterReceipt
    <2> QED BY <2>2, <2>3 DEF OutcomeFinal
  <1> QED BY <1>1, JournalSound, PTL

\* Any number of processes preparing concurrently select one output
\* (Journal.ts:40-67).
THEOREM PreparationSelectsOnce ==
  ASSUME Scope = "PreparationScope"
  PROVE  Spec => []OneSelection
  <1>1. AdmissibleInv => OneSelection
    <2> SUFFICES ASSUME AdmissibleInv PROVE OneSelection
      OBVIOUS
    <2>1. journal \in Seq(Event) /\ Admissible(journal)
      BY DEF AdmissibleInv, TypeOK, HistoryAdmissible
    <2>2. ASSUME NEW i \in DOMAIN journal, NEW k \in DOMAIN journal, i < k,
                 Selects(journal[i]), Selects(journal[k])
          PROVE  /\ journal[i].tag = journal[k].tag
                 /\ journal[i].out = journal[k].out
      <3> DEFINE h == SubSeq(journal, 1, k - 1)
      <3>1. i \in DOMAIN h /\ h[i] = journal[i]
        BY <2>1, <2>2, k - 1 \in 0..Len(journal), i \in 1..(k - 1), PrefixOfHistory
      <3>2. LegalSelection(h, journal[k])
        BY <2>1, LegalAfterPrefix DEF LegalAppend
      <3> QED BY <2>2, <3>1, <3>2 DEF LegalSelection
    <2>3. ASSUME NEW i \in DOMAIN journal, NEW k \in DOMAIN journal
          PROVE  i < k \/ i = k \/ k < i
      BY <2>1
    <2> QED BY <2>2, <2>3 DEF OneSelection
  <1> QED BY <1>1, JournalSound, PTL

\* No error, absence or observation recorded later makes an accepted operation
\* look unattempted, rejected or uncertain (Decision.ts:60-81).
THEOREM AcceptancesAreRemembered == Spec => []AcceptanceRemembered
  <1>1. TypeOK => AcceptanceRemembered
    BY AcceptedIsFinishing DEF TypeOK, AcceptanceRemembered
  <1> QED BY <1>1, JournalSound, PTL DEF AdmissibleInv

\* The journal changes by an append and no other way.
LEMMA JournalGrows ==
  ASSUME Sound, [Next]_vars
  PROVE  Grown
  <1>1. ASSUME NEW p \in Process, pc[p] \in Drafting, NEW rev, NEW result,
               StoreAppend(rev, draft[p], result)
        PROVE  Grown
    <2>1. draft[p] \in Event
      BY <1>1 DEF Sound, Typed, LocalOK, ControlOK, Drafting, Event
    <2> QED BY <1>1, <2>1 DEF StoreAppend, Written, storeVars, Grown
  <1>2. ASSUME NEW p \in Process, AppendFact(p) \/ Commit(p) PROVE Grown
    BY <1>1, <1>2 DEF AppendFact, Commit, Drafting
  <1>3. ASSUME NEW p \in Process,
               \/ Begin(p) \/ Crash(p)
               \/ Step(p) /\ ~AppendFact(p) /\ ~Commit(p)
        PROVE  Grown
    BY <1>3 DEF Begin, BeginRun, BeginObserve, BeginAcceptRisk, BeginSupersede, Crash,
                Step, Consider, ConsiderObservation, EndPass, Observe, Decide, Prepare,
                ProviderFails, Reconcile, Send, Accepted, Rejected, Uncertain,
                UnknownErrorCodec, Transmit, ReadForFact, storeVars, Grown
  <1>4. ASSUME Environment PROVE Grown
    BY <1>4 DEF Environment, Land, Deliver, Sound, Typed, StoreOK, storeVars, Grown
  <1>5. ASSUME UNCHANGED vars PROVE Grown
    BY <1>5 DEF vars, Grown
  <1> QED BY <1>2, <1>3, <1>4, <1>5 DEF Next, Rest

\* A selected preparation stays selected until its plan is superseded: what
\* satisfied it stays in the history (Decision.ts:62-68).
THEOREM SelectionIsSticky ==
  ASSUME Scope = "PreparationScope"
  PROVE  Spec => SelectionSticky
  <1>1. Sound /\ [Next]_vars =>
          [\A o \in Op :
             OperationStatus(journal, o) = "Satisfied"
               => OperationStatus(journal', o) \in {"Satisfied", "Superseded"}]_journal
    <2> SUFFICES ASSUME Sound, [Next]_vars, journal' # journal, NEW o \in Op,
                        OperationStatus(journal, o) = "Satisfied"
                 PROVE  OperationStatus(journal', o) \in {"Satisfied", "Superseded"}
      OBVIOUS
    <2>1. journal \in Seq(Event)
      BY DEF Sound, Typed, StoreOK
    <2>2. PICK e \in Event : journal' = Append(journal, e)
      BY JournalGrows DEF Grown
    <2>3. PICK i : i \in SatisfiedAmong(journal,
                           Observations(journal, o) \cup Receipts(journal, o))
      BY <2>1, SatisfiedHasEvidence
    <2>4. i \in SatisfiedAmong(journal',
                   Observations(journal', o) \cup Receipts(journal', o))
      BY <2>1, <2>2, <2>3, EvidenceStays
    <2> QED BY <2>4 DEF OperationStatus
  <1>2. AdmissibleInv => Sound
    BY SoundParts
  <1>3. Spec => []Sound
    BY <1>2, JournalSound, PTL
  <1> QED BY <1>1, <1>3, PTL DEF Spec, SelectionSticky

-----------------------------------------------------------------------------
(* The authority to send: a DispatchStarted is sent at most once, and only *)
(* after it is durable.  ExecutorInv is the invariant.  A process sends    *)
(* under an identity it drew itself, which no other process can write; so  *)
(* finding that identity recorded proves that its own start was appended,  *)
(* and the start it holds was never sent before.                           *)

Starting == {"commit", "reconcile", "send"}

OwnedAt(p) == pc[p] \in Drafting => draft[p].id[1] = p

UnsentAt(p) ==
  pc[p] \in Starting =>
    /\ sends[draft[p].id] = 0
    /\ NamesStart(draft[p].id)
    /\ pc[p] = "send" => Recorded(draft[p].id)

Licensed ==
  /\ Sound
  /\ \A p \in Process : OwnedAt(p) /\ UnsentAt(p)
  /\ OneSendPerStart

LEMMA LicensedParts == ExecutorInv <=> Licensed
  BY SoundParts DEF ExecutorInv, Licensed, OwnedAt, UnsentAt, DraftsOwned,
                    StartsUnsent, Drafting, Starting

\* What a step of p may do to the store and to the count of sends.
StoreFrame(p) ==
  \/ UNCHANGED storeVars
  \/ /\ pc[p] \in Drafting
     /\ journal' = journal \/ journal' = Append(journal, draft[p])
     /\ inflight' \subseteq inflight \cup {[rev |-> base[p], event |-> draft[p]]}

SendsFrame(p) ==
  \/ UNCHANGED sends
  \/ pc[p] = "send" /\ sends' = [sends EXCEPT ![draft[p].id] = @ + 1]

\* An identity p does not write under names what it named.
LEMMA NamesStay ==
  ASSUME Licensed, NEW p \in Process, StoreFrame(p), NEW id,
         pc[p] \in Drafting => draft[p].id # id, NamesStart(id)
  PROVE  NamesStart(id)' /\ (Recorded(id) => Recorded(id)')
  <1>1. journal \in Seq(Event)
    BY DEF Licensed, Sound, Typed, StoreOK
  <1>2. CASE UNCHANGED storeVars
    BY <1>2 DEF storeVars, NamesStart, Recorded, Ids
  <1>3. CASE /\ pc[p] \in Drafting
             /\ journal' = journal \/ journal' = Append(journal, draft[p])
             /\ inflight' \subseteq inflight \cup {[rev |-> base[p], event |-> draft[p]]}
    <2>1. draft[p] \in Event
      BY <1>3 DEF Licensed, Sound, Typed, LocalOK, ControlOK, Drafting, Event
    <2>2. ASSUME NEW i \in DOMAIN journal', journal'[i].id = id
          PROVE  journal'[i].tag = "DispatchStarted"
      BY <1>1, <1>3, <2>1, <2>2 DEF NamesStart
    <2>3. ASSUME NEW w \in inflight', w.event.id = id
          PROVE  w.event.tag = "DispatchStarted"
      BY <1>3, <2>3 DEF NamesStart
    <2>4. Recorded(id) => Recorded(id)'
      BY <1>1, <1>3, <2>1 DEF Recorded, Ids
    <2> QED BY <2>2, <2>3, <2>4 DEF NamesStart
  <1> QED BY <1>2, <1>3 DEF StoreFrame

LEMMA OneProcessSent ==
  ASSUME Licensed, Sound', NEW p \in Process, Frame(p), StoreFrame(p),
         SendsFrame(p), OwnedAt(p)', UnsentAt(p)', OneSendPerStart'
  PROVE  Licensed'
  <1>1. ASSUME NEW q \in Process, q # p PROVE OwnedAt(q)' /\ UnsentAt(q)'
    <2>1. /\ pc'[q] = pc[q] /\ draft'[q] = draft[q]
          /\ OwnedAt(q) /\ UnsentAt(q) /\ OwnedAt(p)
      BY <1>1 DEF Frame, Licensed
    <2>2. OwnedAt(q)'
      BY <2>1 DEF OwnedAt
    <2>3. ASSUME pc[q] \in Starting
          PROVE  /\ sends'[draft[q].id] = 0
                 /\ NamesStart(draft[q].id)'
                 /\ pc[q] = "send" => Recorded(draft[q].id)'
      <3> DEFINE id == draft[q].id
      <3>1. pc[q] \in Drafting /\ draft[q] \in Event
        BY <2>3 DEF Starting, Drafting, Licensed, Sound, Typed, LocalOK, ControlOK, Event
      <3>2. id[1] = q /\ id \in Id
        BY <2>1, <3>1, EventIds DEF OwnedAt
      <3>3. pc[p] \in Drafting => draft[p].id # id
        BY <1>1, <2>1, <3>2 DEF OwnedAt
      <3>4. sends[id] = 0 /\ NamesStart(id) /\ (pc[q] = "send" => Recorded(id))
        BY <2>1, <2>3 DEF UnsentAt
      <3>5. id' = id
        BY <2>1
      <3>6. sends'[id] = 0
        BY <3>2, <3>3, <3>4 DEF SendsFrame, Drafting, Licensed, Sound, Typed, RemoteOK
      <3>7. NamesStart(id)' /\ (Recorded(id) => Recorded(id)')
        <4>1. ASSUME NEW d, d = id
              PROVE  NamesStart(d)' /\ (Recorded(d) => Recorded(d)')
          BY <3>3, <3>4, <4>1, NamesStay
        <4> QED BY <3>5, <4>1
      <3> QED BY <2>1, <3>4, <3>5, <3>6, <3>7
    <2> QED BY <2>1, <2>2, <2>3 DEF UnsentAt
  <1> QED BY <1>1 DEF Licensed

\* What was recorded as started stays so.
LEMMA StartsStay ==
  ASSUME Licensed, NEW p \in Process, StoreFrame(p), NEW d,
         StartsOf(journal, d) # {}
  PROVE  StartsOf(journal', d) # {}
  <1>1. journal \in Seq(Event) /\ (pc[p] \in Drafting => draft[p] \in Event)
    BY DEF Licensed, Sound, Typed, StoreOK, LocalOK, ControlOK, Drafting, Event
  <1>2. PICK i \in DOMAIN journal : journal[i].tag = "DispatchStarted" /\ journal[i].id = d
    BY DEF StartsOf
  <1>3. i \in DOMAIN journal' /\ journal'[i] = journal[i]
    BY <1>1 DEF StoreFrame, storeVars
  <1> QED BY <1>2, <1>3 DEF StartsOf

LEMMA NothingSent ==
  ASSUME Licensed, NEW p \in Process, StoreFrame(p), UNCHANGED sends
  PROVE  OneSendPerStart'
  <1>1. ASSUME NEW d \in Id
        PROVE  sends'[d] <= 1 /\ (sends'[d] > 0 => StartsOf(journal', d) # {})
    BY StartsStay DEF Licensed, OneSendPerStart
  <1> QED BY <1>1 DEF OneSendPerStart

\* Steps that leave the process without a draft, or with a fact of its own.
LEMMA NoStartHeld ==
  ASSUME Licensed, Sound', NEW p \in Process, Frame(p), StoreFrame(p),
         UNCHANGED sends,
         \/ pc'[p] \notin Drafting
         \/ pc'[p] \in {"record", "append"} /\ draft'[p].id[1] = p
  PROVE  Licensed'
  <1>1. OwnedAt(p)' /\ UnsentAt(p)'
    BY DEF OwnedAt, UnsentAt, Starting, Drafting
  <1> QED BY <1>1, NothingSent, OneProcessSent DEF SendsFrame

LEMMA FreshIsOwn ==
  ASSUME NEW p
  PROVE  FreshId(p)[1] = p
  BY DEF FreshId

-----------------------------------------------------------------------------
(* One lemma per kind of step *)

LEMMA BeginLicensed ==
  ASSUME Licensed, Sound', NEW p \in Process, Begin(p)
  PROVE  Licensed'
  <1>1. UNCHANGED storeVars /\ UNCHANGED sends
    BY DEF Begin, BeginRun, BeginObserve, BeginAcceptRisk, BeginSupersede, remoteVars
  <1>2. CASE BeginRun(p) \/ BeginObserve(p)
    <2>1. /\ pc' = [pc EXCEPT ![p] = "consider"]
          /\ UNCHANGED <<draft, base>>
      BY <1>2 DEF BeginRun, BeginObserve, Goto
    <2>2. Frame(p) /\ pc'[p] \notin Drafting
      BY <2>1 DEF Licensed, Sound, Typed, LocalOK, Frame, Drafting
    <2> QED BY <1>1, <2>2, NoStartHeld DEF StoreFrame
  <1>3. CASE BeginAcceptRisk(p) \/ BeginSupersede(p)
    <2>1. PICK event : event.id = FreshId(p) /\ draft' = [draft EXCEPT ![p] = event]
      BY <1>3 DEF BeginAcceptRisk, BeginSupersede
    <2>2. pc' = [pc EXCEPT ![p] = "record"] /\ UNCHANGED base
      BY <1>3 DEF BeginAcceptRisk, BeginSupersede, Goto
    <2>3. Frame(p) /\ pc'[p] = "record" /\ draft'[p].id[1] = p
      BY <2>1, <2>2, FreshIsOwn DEF Licensed, Sound, Typed, LocalOK, Frame
    <2> QED BY <1>1, <2>3, NoStartHeld DEF StoreFrame
  <1> QED BY <1>2, <1>3 DEF Begin

LEMMA LoopLicensed ==
  ASSUME Licensed, Sound', NEW p \in Process,
         \/ Consider(p) \/ ConsiderObservation(p) \/ EndPass(p) \/ Decide(p)
         \/ ProviderFails(p) \/ Crash(p)
  PROVE  Licensed'
  <1>1. UNCHANGED storeVars /\ UNCHANGED sends
    BY DEF Consider, ConsiderObservation, EndPass, Decide, ProviderFails, Crash,
           remoteVars
  <1>2. ASSUME Return(p) \/ Advance(p) PROVE Licensed'
    <2>1. Frame(p) /\ pc'[p] \notin Drafting
      BY <1>2, ReturnFrames, AdvanceFrames DEF Licensed, Sound, Drafting
    <2> QED BY <1>1, <2>1, NoStartHeld DEF StoreFrame
  <1>3. ASSUME NEW label \in {"observe", "prepare", "consider"},
               pc' = [pc EXCEPT ![p] = label],
               UNCHANGED draft,
               base' = [base EXCEPT ![p] = Len(journal)] \/ UNCHANGED base
        PROVE  Licensed'
    <2>1. Frame(p) /\ pc'[p] \notin Drafting
      BY <1>3 DEF Licensed, Sound, Typed, LocalOK, Frame, Drafting
    <2> QED BY <1>1, <2>1, NoStartHeld DEF StoreFrame
  <1>4. ASSUME pc[p] = "consider", UNCHANGED <<pc, draft, base>> PROVE Licensed'
    <2>1. Frame(p) /\ pc'[p] \notin Drafting
      BY <1>4 DEF Frame, Drafting
    <2> QED BY <1>1, <2>1, NoStartHeld DEF StoreFrame
  <1>5. ASSUME Consider(p) PROVE Licensed'
    BY <1>2, <1>3, <1>4, <1>5 DEF Consider, Goto
  <1>6. ASSUME ConsiderObservation(p) PROVE Licensed'
    BY <1>2, <1>3, <1>6 DEF ConsiderObservation, Goto
  <1>7. ASSUME EndPass(p) PROVE Licensed'
    BY <1>2, <1>4, <1>7 DEF EndPass
  <1>8. ASSUME Decide(p) PROVE Licensed'
    BY <1>2, <1>3, <1>8 DEF Decide, Goto
  <1> QED BY <1>2, <1>5, <1>6, <1>7, <1>8 DEF ProviderFails, Crash

LEMMA ObserveLicensed ==
  ASSUME Licensed, Sound', NEW p \in Process, Observe(p)
  PROVE  Licensed'
  <1>1. PICK event : event.id = FreshId(p) /\ Record(p, event)
    BY DEF Observe
  <1>2. Frame(p) /\ pc'[p] = "record" /\ draft'[p].id[1] = p
    BY <1>1, RecordFrames, FreshIsOwn DEF Licensed, Sound
  <1>3. UNCHANGED storeVars /\ UNCHANGED sends
    BY DEF Observe, remoteVars
  <1> QED BY <1>2, <1>3, NoStartHeld DEF StoreFrame

\* A fresh identity names nothing yet, and nothing was sent under it.
LEMMA PrepareLicensed ==
  ASSUME Licensed, Sound', NEW p \in Process, Prepare(p)
  PROVE  Licensed'
  <1>1. UNCHANGED storeVars /\ UNCHANGED sends
    BY DEF Prepare, remoteVars
  <1>2. ASSUME Advance(p) PROVE Licensed'
    BY <1>1, <1>2, AdvanceFrames, NoStartHeld DEF Licensed, Sound, Drafting, StoreFrame
  <1>3. ASSUME NEW event, event.id = FreshId(p),
               draft' = [draft EXCEPT ![p] = event],
               pc' = [pc EXCEPT ![p] = "commit"],
               base' = [base EXCEPT ![p] = Len(journal)],
               Draw(p)
        PROVE  Licensed'
    <2> DEFINE id == event.id
    <2>1. Frame(p) /\ pc'[p] = "commit" /\ draft'[p] = event
      BY <1>3 DEF Licensed, Sound, Typed, LocalOK, Frame
    <2>2. id \in Id /\ id[1] = p /\ ~IdDrawn(id)
      BY <1>3, FreshIdTyped, FreshIsOwn, FreshDrawn DEF Licensed, Sound, Typed
    <2>3. \A i \in DOMAIN journal : journal[i].id # id
      BY <2>2 DEF Licensed, Sound, HistoryOK
    <2>4. \A w \in inflight : w.event.id # id
      BY <2>2 DEF Licensed, Sound, HistoryOK
    <2>5. sends[id] = 0
      <3>1. sends[id] \in Nat /\ (sends[id] > 0 => StartsOf(journal, id) # {})
        BY <2>2 DEF Licensed, Sound, Typed, RemoteOK, OneSendPerStart
      <3>2. StartsOf(journal, id) = {}
        BY <2>3 DEF StartsOf
      <3> QED BY <3>1, <3>2
    <2>6. OwnedAt(p)' /\ UnsentAt(p)'
      BY <1>1, <2>1, <2>2, <2>3, <2>4, <2>5
         DEF OwnedAt, UnsentAt, NamesStart, Starting, storeVars
    <2> QED BY <1>1, <2>1, <2>6, NothingSent, OneProcessSent DEF StoreFrame, SendsFrame
  <1>4. ASSUME NEW req, NEW now, NEW basis,
               draft' = [draft EXCEPT ![p] =
                 [tag |-> "DispatchStarted", id |-> FreshId(p), op |-> At(p),
                  request |-> req, at |-> now, basis |-> basis]],
               pc' = [pc EXCEPT ![p] = "commit"],
               base' = [base EXCEPT ![p] = Len(journal)],
               Draw(p)
        PROVE  Licensed'
    <2> DEFINE event == [tag |-> "DispatchStarted", id |-> FreshId(p), op |-> At(p),
                         request |-> req, at |-> now, basis |-> basis]
    <2>1. event.id = FreshId(p) /\ draft' = [draft EXCEPT ![p] = event]
      BY <1>4
    <2> HIDE DEF event
    <2> QED BY <1>3, <1>4, <2>1
  <1> QED BY <1>2, <1>4 DEF Prepare, Goto

\* What the store contract lets an append do.
LEMMA AppendFrames ==
  ASSUME NEW p \in Process, pc[p] \in Drafting, NEW result,
         StoreAppend(base[p], draft[p], result)
  PROVE  /\ StoreFrame(p)
         /\ result = "Appended" => journal' = Append(journal, draft[p])
  BY DEF StoreAppend, StoreFrame, Written, storeVars

\* Only an append known to have been applied hands the authority on.
LEMMA CommitLicensed ==
  ASSUME Licensed, Sound', NEW p \in Process, Commit(p)
  PROVE  Licensed'
  <1>1. /\ pc[p] = "commit" /\ UNCHANGED sends
        /\ draft[p] \in StartEvent /\ draft[p].id[1] = p
        /\ sends[draft[p].id] = 0 /\ NamesStart(draft[p].id)
    BY DEF Commit, remoteVars, Licensed, Sound, Typed, LocalOK, ControlOK, OwnedAt,
           UnsentAt, Drafting, Starting
  <1>2. PICK result \in AppendResult :
          /\ StoreAppend(base[p], draft[p], result)
          /\ \/ /\ result = "Appended"
                /\ pc' = [pc EXCEPT ![p] = "send"] /\ UNCHANGED <<draft, base>>
             \/ pc' = [pc EXCEPT ![p] = "reconcile"] /\ UNCHANGED <<draft, base>>
             \/ Advance(p)
    BY DEF Commit, Goto
  <1>3. StoreFrame(p) /\ (result = "Appended" => journal' = Append(journal, draft[p]))
    BY <1>1, <1>2, AppendFrames DEF Drafting
  <1>4. ASSUME Advance(p) PROVE Licensed'
    BY <1>1, <1>3, <1>4, AdvanceFrames, NoStartHeld DEF Licensed, Sound, Drafting
  <1>5. ASSUME NEW label \in {"send", "reconcile"},
               label = "send" => result = "Appended",
               pc' = [pc EXCEPT ![p] = label], UNCHANGED <<draft, base>>
        PROVE  Licensed'
    <2>1. Frame(p) /\ pc'[p] = label /\ draft'[p] = draft[p]
      BY <1>5 DEF Licensed, Sound, Typed, LocalOK, Frame
    <2>2. /\ journal \in Seq(Event) /\ draft[p] \in Event
          /\ draft[p].tag = "DispatchStarted"
      BY <1>1 DEF Licensed, Sound, Typed, StoreOK, Event, StartEvent
    <2>3. NamesStart(draft[p].id)'
      <3>1. ASSUME NEW i \in DOMAIN journal', journal'[i].id = draft[p].id
            PROVE  journal'[i].tag = "DispatchStarted"
        BY <1>1, <1>3, <2>2, <3>1 DEF StoreFrame, NamesStart, storeVars
      <3>2. ASSUME NEW w \in inflight', w.event.id = draft[p].id
            PROVE  w.event.tag = "DispatchStarted"
        BY <1>1, <1>3, <2>2, <3>2 DEF StoreFrame, NamesStart, storeVars
      <3> QED BY <2>1, <3>1, <3>2 DEF NamesStart
    <2>4. label = "send" => Recorded(draft[p].id)'
      <3>1. ASSUME journal' = Append(journal, draft[p])
            PROVE  \E i \in DOMAIN journal' : journal'[i].id = draft[p].id
        <4>1. Len(journal) + 1 \in DOMAIN journal' /\ journal'[Len(journal) + 1] = draft[p]
          BY <2>2, <3>1
        <4> QED BY <4>1
      <3> QED BY <1>3, <1>5, <2>1, <3>1 DEF Recorded, Ids
    <2>5. OwnedAt(p)' /\ UnsentAt(p)'
      BY <1>1, <2>1, <2>3, <2>4 DEF OwnedAt, UnsentAt, NamesStart, Recorded
    <2> QED BY <1>1, <1>3, <2>1, <2>5, NothingSent, OneProcessSent DEF SendsFrame
  <1> QED BY <1>2, <1>4, <1>5

LEMMA ReconcileLicensed ==
  ASSUME Licensed, Sound', NEW p \in Process, Reconcile(p)
  PROVE  Licensed'
  <1>1. /\ pc[p] = "reconcile" /\ UNCHANGED storeVars /\ UNCHANGED sends
        /\ draft[p].id[1] = p
        /\ sends[draft[p].id] = 0 /\ NamesStart(draft[p].id)
    BY DEF Reconcile, remoteVars, Licensed, OwnedAt, UnsentAt, Drafting, Starting
  <1>2. ASSUME Advance(p) PROVE Licensed'
    BY <1>1, <1>2, AdvanceFrames, NoStartHeld DEF Licensed, Sound, Drafting, StoreFrame
  <1>3. ASSUME Recorded(draft[p].id), pc' = [pc EXCEPT ![p] = "send"],
               UNCHANGED <<draft, base>>
        PROVE  Licensed'
    <2>1. Frame(p) /\ pc'[p] = "send" /\ draft' = draft
      BY <1>3 DEF Licensed, Sound, Typed, LocalOK, Frame
    <2>2. OwnedAt(p)' /\ UnsentAt(p)'
      BY <1>1, <1>3, <2>1 DEF OwnedAt, UnsentAt, NamesStart, Recorded, storeVars
    <2> QED BY <1>1, <2>1, <2>2, NothingSent, OneProcessSent DEF StoreFrame, SendsFrame
  <1> QED BY <1>2, <1>3 DEF Reconcile, Owned, Goto

\* A send that is made is the first of its start, which is in the journal.
LEMMA SendIsFirst ==
  ASSUME Licensed, NEW p \in Process, pc[p] = "send", UNCHANGED storeVars,
         sends' = [sends EXCEPT ![draft[p].id] = @ + 1]
  PROVE  OneSendPerStart'
  <1> DEFINE id == draft[p].id
  <1>1. id \in Id /\ sends \in [Id -> Nat]
    BY SenderHolds DEF Licensed, Sound, Typed, RemoteOK
  <1>2. sends[id] = 0 /\ NamesStart(id) /\ Recorded(id)
    BY DEF Licensed, UnsentAt, Starting
  <1>3. StartsOf(journal, id) # {}
    <2>1. PICK i \in DOMAIN journal : journal[i].id = id
      BY <1>2 DEF Recorded, Ids
    <2>2. i \in StartsOf(journal, id)
      BY <1>2, <2>1 DEF NamesStart, StartsOf
    <2> QED BY <2>2
  <1>4. ASSUME NEW d \in Id
        PROVE  sends'[d] <= 1 /\ (sends'[d] > 0 => StartsOf(journal', d) # {})
    BY <1>1, <1>2, <1>3, <1>4 DEF Licensed, OneSendPerStart, storeVars
  <1> QED BY <1>4 DEF OneSendPerStart

LEMMA SendLicensed ==
  ASSUME Licensed, Sound', NEW p \in Process, Send(p)
  PROVE  Licensed'
  <1>1. /\ pc[p] = "send" /\ UNCHANGED storeVars
        /\ sends' = [sends EXCEPT ![draft[p].id] = @ + 1]
    BY DEF Send, Accepted, Rejected, Uncertain, UnknownErrorCodec, Transmit
  <1>2. /\ Frame(p)
        /\ \/ pc'[p] \notin Drafting
           \/ pc'[p] = "record" /\ draft'[p].id[1] = p
    <2>1. CASE Accepted(p) \/ Rejected(p) \/ Uncertain(p)
      <3>1. PICK event : event.id = FreshId(p) /\ Record(p, event)
        BY <2>1 DEF Accepted, Rejected, Uncertain
      <3> QED BY <3>1, RecordFrames, FreshIsOwn DEF Licensed, Sound
    <2>2. CASE UnknownErrorCodec(p)
      BY <2>2, ReturnFrames DEF UnknownErrorCodec, Licensed, Sound, Drafting
    <2> QED BY <2>1, <2>2 DEF Send
  <1>3. OwnedAt(p)' /\ UnsentAt(p)'
    BY <1>2 DEF OwnedAt, UnsentAt, Starting, Drafting
  <1> QED BY <1>1, <1>2, <1>3, SendIsFirst, OneProcessSent DEF StoreFrame, SendsFrame

LEMMA FactLicensed ==
  ASSUME Licensed, Sound', NEW p \in Process, ReadForFact(p) \/ AppendFact(p)
  PROVE  Licensed'
  <1>1. pc[p] \in {"record", "append"} /\ UNCHANGED sends /\ draft[p].id[1] = p
    BY DEF ReadForFact, AppendFact, remoteVars, Licensed, OwnedAt, Drafting
  <1>2. StoreFrame(p)
    BY <1>1, AppendFrames DEF ReadForFact, AppendFact, StoreFrame, Drafting
  <1>3. ASSUME AfterFact(p) \/ Return(p) PROVE Licensed'
    <2>1. Frame(p) /\ pc'[p] \notin Drafting
      BY <1>3, AfterFactFrames, ReturnFrames DEF Licensed, Sound, Drafting
    <2> QED BY <1>1, <1>2, <2>1, NoStartHeld
  <1>4. ASSUME NEW label \in {"record", "append"}, NEW revision,
               pc' = [pc EXCEPT ![p] = label],
               base' = [base EXCEPT ![p] = revision] \/ UNCHANGED base,
               UNCHANGED draft
        PROVE  Licensed'
    <2>1. Frame(p) /\ pc'[p] = label /\ draft' = draft
      BY <1>4 DEF Licensed, Sound, Typed, LocalOK, Frame
    <2> QED BY <1>1, <1>2, <2>1, NoStartHeld
  <1>5. CASE ReadForFact(p)
    BY <1>3, <1>4, <1>5 DEF ReadForFact, Goto
  <1>6. CASE AppendFact(p)
    BY <1>3, <1>4, <1>6 DEF AppendFact, Goto
  <1> QED BY <1>5, <1>6

\* A late landing writes what an append wrote down to land.
LEMMA LandLicensed ==
  ASSUME Licensed, Sound', NEW x \in inflight, Land(x)
  PROVE  Licensed'
  <1>1. /\ journal \in Seq(Event) /\ x.event \in Event
        /\ journal' = journal \/ journal' = Append(journal, x.event)
        /\ inflight' \subseteq inflight
        /\ UNCHANGED <<pc, draft, sends>>
    BY DEF Land, remoteVars, Licensed, Sound, Typed, StoreOK
  <1>2. ASSUME NEW id, NamesStart(id)
        PROVE  NamesStart(id)' /\ (Recorded(id) => Recorded(id)')
    <2>1. ASSUME NEW i \in DOMAIN journal', journal'[i].id = id
          PROVE  journal'[i].tag = "DispatchStarted"
      BY <1>1, <1>2, <2>1 DEF NamesStart
    <2>2. Recorded(id) => Recorded(id)'
      BY <1>1 DEF Recorded, Ids
    <2> QED BY <1>1, <1>2, <2>1, <2>2 DEF NamesStart
  <1>3. ASSUME NEW p \in Process PROVE OwnedAt(p)' /\ UnsentAt(p)'
    <2>1. OwnedAt(p) /\ UnsentAt(p)
      BY DEF Licensed
    <2> DEFINE id == draft[p].id
    <2>2. id' = id
      BY <1>1
    <2>3. NamesStart(id) => NamesStart(id)' /\ (Recorded(id) => Recorded(id)')
      <3>1. ASSUME NEW d, d = id, NamesStart(d)
            PROVE  NamesStart(d)' /\ (Recorded(d) => Recorded(d)')
        BY <1>2, <3>1
      <3> QED BY <2>2, <3>1
    <2> QED BY <1>1, <2>1, <2>2, <2>3 DEF OwnedAt, UnsentAt
  <1>4. ASSUME NEW d \in Id
        PROVE  sends'[d] <= 1 /\ (sends'[d] > 0 => StartsOf(journal', d) # {})
    <2>1. StartsOf(journal, d) # {} => StartsOf(journal', d) # {}
      <3>1. StartsOf(journal, d) \subseteq StartsOf(journal', d)
        BY <1>1 DEF StartsOf
      <3> QED BY <3>1
    <2> QED BY <1>1, <2>1 DEF Licensed, OneSendPerStart
  <1> QED BY <1>3, <1>4 DEF Licensed, OneSendPerStart

LEMMA StillLicensed ==
  ASSUME Licensed, Sound', UNCHANGED <<journal, inflight, pc, draft, sends>>
  PROVE  Licensed'
  BY DEF Licensed, OwnedAt, UnsentAt, NamesStart, Recorded, OneSendPerStart

LEMMA InitLicensed ==
  ASSUME Init
  PROVE  Licensed
  BY InitSound DEF Init, Licensed, OwnedAt, UnsentAt, Drafting, Starting, OneSendPerStart

LEMMA NextLicensed ==
  ASSUME Licensed, [Next]_vars
  PROVE  Licensed'
  <1>1. Sound'
    BY NextSound DEF Licensed
  <1>2. ASSUME NEW p \in Process, Begin(p) PROVE Licensed'
    BY <1>1, <1>2, BeginLicensed
  <1>3. ASSUME NEW p \in Process, Step(p) PROVE Licensed'
    BY <1>1, <1>3, LoopLicensed, ObserveLicensed, PrepareLicensed, CommitLicensed,
       ReconcileLicensed, SendLicensed, FactLicensed DEF Step
  <1>4. ASSUME NEW p \in Process, Crash(p) PROVE Licensed'
    BY <1>1, <1>4, LoopLicensed
  <1>5. ASSUME NEW x \in inflight, Land(x) PROVE Licensed'
    BY <1>1, <1>5, LandLicensed
  <1>6. ASSUME NEW x \in wire, Deliver(x) PROVE Licensed'
    BY <1>1, <1>6, StillLicensed DEF Deliver, storeVars
  <1>7. ASSUME UNCHANGED vars PROVE Licensed'
    BY <1>1, <1>7, StillLicensed DEF vars
  <1> QED BY <1>2, <1>3, <1>4, <1>5, <1>6, <1>7 DEF Next, Environment, Rest

\* Nothing a process can still do, after any race, crash or lost answer, sends a
\* second time or sends early (Release.ts:263-321).
THEOREM ExecutorIsSound == Spec => []ExecutorInv
  <1>1. Init => Licensed
    BY InitLicensed
  <1>2. Licensed /\ [Next]_vars => Licensed'
    BY NextLicensed
  <1>3. Licensed => ExecutorInv
    BY LicensedParts
  <1> QED BY <1>1, <1>2, <1>3, PTL DEF Spec

\* A dispatch is sent at most once and only after its start is durable, over a
\* store that races, answers ambiguously and lands late (Release.ts:304-321).
THEOREM SendsOnce == Spec => []OneSendPerStart
  <1>1. ExecutorInv => OneSendPerStart
    BY DEF ExecutorInv
  <1> QED BY <1>1, ExecutorIsSound, PTL

-----------------------------------------------------------------------------
(***************************************************************************)
(* The journal and the remote: what the one says of the other is so, for   *)
(* any number of processes, any plan and any bounds.  EffectInv is the     *)
(* invariant.  Every event recorded or still to be recorded was true when  *)
(* it was built, and stays so because the remote only gains effects, a     *)
(* dispatch is sent once, and an identity names one event.                 *)
(*                                                                         *)
(* An operation's effects are then counted by its starts.  Of two starts   *)
(* that spent no accepted risk the later one was lawful only because the   *)
(* earlier was rejected, which has no effect, or because both repeat one   *)
(* protected request, which the remote applies once.                       *)
(***************************************************************************)

\* EffectInv, in the parts a step changes together.
Truthful ==
  /\ Licensed
  /\ OneEventPerIdentity /\ EvidenceTrue /\ EffectsStarted
  /\ DependenciesReady /\ DependenciesPublished /\ ProtectedOnce

LEMMA TruthfulParts == EffectInv <=> Truthful
  BY LicensedParts DEF EffectInv, Truthful

LEMMA ToldByDraft ==
  ASSUME NEW p \in Process, pc[p] \in Drafting
  PROVE  draft[p] \in Told
  BY DEF Told, Drafting

LEMMA ToldByJournal ==
  ASSUME NEW i \in DOMAIN journal
  PROVE  journal[i] \in Told
  BY DEF Told

LEMMA ToldKinds ==
  ASSUME NEW e \in Told
  PROVE  \/ \E i \in DOMAIN journal : e = journal[i]
         \/ \E w \in inflight : e = w.event
         \/ \E p \in Process : pc[p] \in Drafting /\ e = draft[p]
  BY DEF Told, Drafting

\* What is told is typed, and its identity was drawn.
LEMMA ToldTyped ==
  ASSUME Licensed, NEW e \in Told
  PROVE  e \in Event /\ IdDrawn(e.id)
  <1>1. ASSUME NEW i \in DOMAIN journal, e = journal[i] PROVE e \in Event /\ IdDrawn(e.id)
    BY <1>1 DEF Licensed, Sound, HistoryOK, Typed, StoreOK
  <1>2. ASSUME NEW w \in inflight, e = w.event PROVE e \in Event /\ IdDrawn(e.id)
    BY <1>2 DEF Licensed, Sound, HistoryOK, Typed, StoreOK
  <1>3. ASSUME NEW p \in Process, pc[p] \in Drafting, e = draft[p]
        PROVE  e \in Event /\ IdDrawn(e.id)
    BY <1>3 DEF Licensed, Sound, HolderOK, Typed, LocalOK, ControlOK, Drafting, Event
  <1> QED BY <1>1, <1>2, <1>3, ToldKinds

-----------------------------------------------------------------------------
(* What a step may do to what is told.                                     *)

\* A process keeps its event, drops it, or builds a fresh one.
Keeps(p) ==
  \/ pc'[p] \notin Drafting
  \/ pc[p] \in Drafting /\ draft'[p] = draft[p]

Drafts(p) == pc'[p] \in Drafting /\ Draw(p) /\ draft'[p].id = FreshId(p)

Moves(p) == Frame(p) /\ StoreFrame(p) /\ (Keeps(p) \/ Drafts(p))

\* Only a fresh event is told for the first time.
LEMMA ToldGrows ==
  ASSUME Licensed, NEW p \in Process, Moves(p), NEW e \in Told'
  PROVE  e \in Told \/ (Drafts(p) /\ e = draft'[p])
  <1>1. journal \in Seq(Event) /\ (pc[p] \in Drafting => draft[p] \in Event)
    BY DEF Licensed, Sound, Typed, StoreOK, LocalOK, ControlOK, Drafting, Event
  <1>2. ASSUME NEW i \in DOMAIN journal', e = journal'[i] PROVE e \in Told
    <2>1. CASE i \in DOMAIN journal /\ journal'[i] = journal[i]
      BY <1>2, <2>1, ToldByJournal
    <2>2. CASE pc[p] \in Drafting /\ journal'[i] = draft[p]
      BY <1>2, <2>2, ToldByDraft
    <2> QED BY <1>1, <1>2, <2>1, <2>2 DEF Moves, StoreFrame, storeVars
  <1>3. ASSUME NEW w \in inflight', e = w.event PROVE e \in Told
    <2>1. CASE w \in inflight
      BY <1>3, <2>1 DEF Told
    <2>2. CASE pc[p] \in Drafting /\ w = [rev |-> base[p], event |-> draft[p]]
      BY <1>3, <2>2, ToldByDraft
    <2> QED BY <1>3, <2>1, <2>2 DEF Moves, StoreFrame, storeVars
  <1>4. ASSUME NEW q \in Process, pc'[q] \in Drafting, e = draft'[q]
        PROVE  e \in Told \/ (Drafts(p) /\ e = draft'[p])
    <2>1. CASE q # p
      BY <1>4, <2>1, ToldByDraft DEF Moves, Frame
    <2>2. CASE q = p
      BY <1>4, <2>2, ToldByDraft DEF Moves, Keeps
    <2> QED BY <2>1, <2>2
  <1>5. \/ \E i \in DOMAIN journal' : e = journal'[i]
        \/ \E w \in inflight' : e = w.event
        \/ \E q \in Process : pc'[q] \in Drafting /\ e = draft'[q]
    BY DEF Told, Drafting
  <1> QED BY <1>2, <1>3, <1>4, <1>5

-----------------------------------------------------------------------------
(* What a step may do to the remote.                                       *)

\* A process sends the start it holds, if it sends.
RemoteFrame(p) ==
  /\ existing' = existing
  /\ \/ UNCHANGED <<sends, wire, published>>
     \/ /\ pc[p] = "send" /\ UNCHANGED storeVars
        /\ sends' = [sends EXCEPT ![draft[p].id] = @ + 1]
        /\ Applied(p) \/ Travelling(p) \/ UNCHANGED <<wire, published>>

\* The remote and the journal only gain, and what gains an effect was not sent.
Progress ==
  /\ existing' = existing /\ published \subseteq published'
  /\ Grown
  /\ \A d \in Id : sends[d] > 0 => sends'[d] > 0
  /\ \A x \in Effects' : x \in Effects \/ sends[x.dispatch] = 0

\* The start a sender holds is the one the journal recorded under its identity.
LEMMA HeldStarted ==
  ASSUME Truthful, NEW p \in Process, pc[p] = "send"
  PROVE  /\ sends[draft[p].id] = 0
         /\ StartedFor(draft[p].op, draft[p].id)
         /\ StartedWith(draft[p].op, draft[p].id, draft[p].request)
  <1>1. sends[draft[p].id] = 0 /\ Recorded(draft[p].id) /\ pc[p] \in Drafting
    BY DEF Truthful, Licensed, UnsentAt, Starting, Drafting
  <1>2. PICK i \in DOMAIN journal : journal[i].id = draft[p].id
    BY <1>1 DEF Recorded, Ids
  <1>3. journal[i] = draft[p]
    BY <1>1, <1>2, ToldByDraft, ToldByJournal DEF Truthful, OneEventPerIdentity
  <1>4. draft[p].tag = "DispatchStarted"
    BY SenderHolds DEF Truthful, Licensed, Sound, StartEvent
  <1> QED BY <1>1, <1>2, <1>3, <1>4 DEF StartedFor, StartedWith, StartsOf

\* What the step may add to the remote.
LEMMA EffectOfStep ==
  ASSUME Licensed, NEW p \in Process, RemoteFrame(p)
  PROVE  /\ published \subseteq published'
         /\ \A x \in Effects' : \/ x \in Effects
                                \/ /\ pc[p] = "send" /\ sends'[draft[p].id] > 0
                                   /\ x = [op |-> draft[p].op, dispatch |-> draft[p].id]
         /\ \A y \in wire' : \/ y \in wire
                             \/ /\ pc[p] = "send"
                                /\ y = [op |-> draft[p].op, dispatch |-> draft[p].id,
                                        request |-> draft[p].request]
  <1>1. CASE UNCHANGED <<sends, wire, published>>
    BY <1>1 DEF Effects
  <1>2. ASSUME pc[p] = "send", sends' = [sends EXCEPT ![draft[p].id] = @ + 1]
        PROVE  sends'[draft[p].id] > 0
    BY <1>2, SenderHolds DEF Licensed, Sound, Typed, RemoteOK
  <1>3. CASE pc[p] = "send" /\ sends'[draft[p].id] > 0 /\ Applied(p)
    BY <1>3 DEF Applied, Effects
  <1>4. CASE pc[p] = "send" /\ sends'[draft[p].id] > 0 /\ Travelling(p)
    <2> DEFINE new == [op |-> draft[p].op, dispatch |-> draft[p].id,
                       request |-> draft[p].request]
    <2>1. wire' = wire \cup {new} /\ published' = published
      BY <1>4 DEF Travelling
    <2>2. new.op = draft[p].op /\ new.dispatch = draft[p].id
      OBVIOUS
    <2>3. ASSUME NEW x \in Effects'
          PROVE  x \in Effects \/ x = [op |-> draft[p].op, dispatch |-> draft[p].id]
      <3> HIDE DEF new
      <3> QED BY <2>1, <2>2 DEF Effects
    <2> QED BY <1>4, <2>1, <2>3
  <1>5. CASE UNCHANGED <<wire, published>>
    BY <1>5 DEF Effects
  <1> QED BY <1>1, <1>2, <1>3, <1>4, <1>5 DEF RemoteFrame

LEMMA StepProgress ==
  ASSUME Truthful, NEW p \in Process, Moves(p), RemoteFrame(p)
  PROVE  Progress
  <1>1. Licensed
    BY DEF Truthful
  <1>2. Grown
    <2>1. pc[p] \in Drafting => draft[p] \in Event
      BY <1>1 DEF Licensed, Sound, Typed, LocalOK, ControlOK, Drafting, Event
    <2> QED BY <2>1 DEF Moves, StoreFrame, storeVars, Grown
  <1>3. ASSUME NEW d \in Id PROVE sends[d] > 0 => sends'[d] > 0
    BY <1>1 DEF RemoteFrame, Licensed, Sound, Typed, RemoteOK
  <1>4. ASSUME NEW x \in Effects' PROVE x \in Effects \/ sends[x.dispatch] = 0
    BY <1>1, EffectOfStep, HeldStarted
  <1>5. existing' = existing /\ published \subseteq published'
    BY <1>1, EffectOfStep DEF RemoteFrame
  <1> QED BY <1>2, <1>3, <1>4, <1>5 DEF Progress

-----------------------------------------------------------------------------
(* What progress keeps.                                                    *)

LEMMA PresentStays ==
  ASSUME Progress, NEW o, Present(o)
  PROVE  Present(o)'
  BY DEF Progress, Present

LEMMA StartedStays ==
  ASSUME Truthful, Progress, NEW o, NEW d
  PROVE  /\ StartedFor(o, d) => StartedFor(o, d)'
         /\ \A req : StartedWith(o, d, req) => StartedWith(o, d, req)'
  <1>1. journal \in Seq(Event)
    BY DEF Truthful, Licensed, Sound, Typed, StoreOK
  <1>2. ASSUME NEW i \in DOMAIN journal
        PROVE  i \in DOMAIN journal' /\ journal'[i] = journal[i]
    BY <1>1 DEF Progress, Grown
  <1> QED BY <1>2 DEF StartedFor, StartedWith, StartsOf

\* What an event told stays true of the remote.
LEMMA VouchedStays ==
  ASSUME Truthful, Progress, NEW e \in Told
  PROVE  Vouched(e)'
  <1>1. Vouched(e) /\ e \in Event
    BY ToldTyped DEF Truthful, EvidenceTrue
  <1>2. ASSUME e.tag = "ObservationRecorded", e.status = "Satisfied"
        PROVE  Present(e.op)'
    BY <1>1, <1>2, PresentStays DEF Vouched
  <1>3. ASSUME e.tag = "ReceiptAccepted", e.status = "Satisfied"
        PROVE  \E o \in Op : StartedFor(o, e.dispatch)' /\ Present(o)'
    BY <1>1, <1>3, PresentStays, StartedStays DEF Vouched
  <1>4. ASSUME e.tag = "DispatchRejectedBeforeCommit"
        PROVE  sends'[e.dispatch] > 0 /\ \A x \in Effects' : x.dispatch # e.dispatch
    <2>1. e.dispatch \in Id
      BY <1>1, <1>4 DEF Event, StartEvent, ReceiptEvent, RejectionEvent,
         ObservationEvent, DispatchErrorEvent, RiskEvent, SupersededEvent
    <2>2. sends[e.dispatch] > 0 /\ \A x \in Effects : x.dispatch # e.dispatch
      BY <1>1, <1>4 DEF Vouched
    <2>3. sends'[e.dispatch] > 0
      BY <2>1, <2>2 DEF Progress
    <2>4. ASSUME NEW x \in Effects' PROVE x.dispatch # e.dispatch
      <3>1. x \in Effects \/ sends[x.dispatch] = 0
        BY DEF Progress
      <3> QED BY <2>2, <3>1
    <2> QED BY <2>3, <2>4
  <1> QED BY <1>2, <1>3, <1>4 DEF Vouched

-----------------------------------------------------------------------------
(* A step that progresses, and tells nothing but what is so, keeps all of  *)
(* EffectInv.                                                              *)

\* At most one effect is applied at a time, of a request the journal names and
\* the remote had to accept.
OneApplied ==
  \/ published' = published
  \/ \E o \in Op, d \in Id, req \in Request :
       /\ published' = published \cup {[op |-> o, dispatch |-> d]}
       /\ StartedWith(o, d, req)
       /\ CanApply(o, req)

LEMMA ProtectedStays ==
  ASSUME Truthful, Licensed', Progress, OneApplied
  PROVE  ProtectedOnce'
  <1> SUFFICES ASSUME NEW o \in Op,
                      NEW s \in DOMAIN journal', NEW t \in DOMAIN journal',
                      journal'[s].tag = "DispatchStarted", journal'[s].op = o,
                      journal'[t].tag = "DispatchStarted", journal'[t].op = o,
                      journal'[s].request \in Protected,
                      journal'[t].request \in Protected,
                      [op |-> o, dispatch |-> journal'[s].id] \in published',
                      [op |-> o, dispatch |-> journal'[t].id] \in published'
               PROVE  s = t
    BY DEF ProtectedOnce, ProtectedEffects, Starts
  <1>1. /\ journal \in Seq(Event) /\ journal' \in Seq(Event)
        /\ Admissible(journal')
    BY DEF Truthful, Licensed, Sound, Typed, StoreOK, HistoryOK
  <1>2. ASSUME NEW i \in DOMAIN journal
        PROVE  i \in DOMAIN journal' /\ journal'[i] = journal[i]
    BY <1>1 DEF Progress, Grown
  <1>3. ASSUME NEW i \in DOMAIN journal', NEW k \in DOMAIN journal',
               journal'[i].id = journal'[k].id
        PROVE  i = k
    <2>1. \A j \in Seq(Event) : Admissible(j) =>
            \A m, n \in DOMAIN j : j[m].id = j[n].id => m = n
      BY IdsUnique
    <2> QED BY <1>1, <1>3, <2>1
  \* A start with an effect is an old one.
  <1>4. ASSUME NEW i \in DOMAIN journal', journal'[i].op = o,
               [op |-> o, dispatch |-> journal'[i].id] \in published
        PROVE  i \in DOMAIN journal
    <2>1. [op |-> o, dispatch |-> journal'[i].id] \in Effects
      BY <1>4 DEF Effects
    <2>2. StartedFor(o, journal'[i].id)
      BY <2>1 DEF Truthful, EffectsStarted
    <2>3. PICK k \in DOMAIN journal : journal[k].id = journal'[i].id
      BY <2>2 DEF StartedFor, StartsOf
    <2> QED BY <1>2, <1>3, <2>3
  <1>5. CASE /\ [op |-> o, dispatch |-> journal'[s].id] \in published
             /\ [op |-> o, dispatch |-> journal'[t].id] \in published
    <2>1. s \in ProtectedEffects(o) /\ t \in ProtectedEffects(o)
      BY <1>2, <1>4, <1>5 DEF ProtectedEffects, Starts
    <2> QED BY <2>1 DEF Truthful, ProtectedOnce
  <1>6. ASSUME NEW i \in DOMAIN journal', NEW k \in DOMAIN journal',
               journal'[i].tag = "DispatchStarted",
               journal'[i].request \in Protected,
               [op |-> o, dispatch |-> journal'[i].id] \in published' \ published,
               [op |-> o, dispatch |-> journal'[k].id] \in published'
        PROVE  i = k
    <2>1. PICK a \in Op, d \in Id, req \in Request :
            /\ published' = published \cup {[op |-> a, dispatch |-> d]}
            /\ StartedWith(a, d, req)
            /\ CanApply(a, req)
      BY <1>6 DEF OneApplied
    <2>2. a = o /\ d = journal'[i].id
      BY <1>6, <2>1
    <2>3. PICK m \in DOMAIN journal : journal[m].id = d /\ journal[m].request = req
      BY <2>1 DEF StartedWith, StartsOf
    <2>4. m = i /\ req \in Protected
      BY <1>2, <1>3, <1>6, <2>2, <2>3
    <2>5. ~\E x \in published : x.op = o
      BY <2>1, <2>2, <2>4 DEF CanApply, Present
    <2>6. [op |-> o, dispatch |-> journal'[k].id] \notin published
      BY <2>5
    <2>7. journal'[k].id = d
      BY <1>6, <2>1, <2>6
    <2> QED BY <1>3, <2>2, <2>7
  <1> QED BY <1>5, <1>6

\* A step of p, in the terms the proof needs.
Contract(p) ==
  /\ Moves(p) /\ RemoteFrame(p)
  /\ Drafts(p) => Vouched(draft[p])'
  /\ pc'[p] \in Starting =>
       \/ pc[p] \in Starting /\ draft'[p] = draft[p]
       \/ \A d \in DependsOn[draft'[p].op] : Present(d)

LEMMA ContractKeeps ==
  ASSUME Truthful, Licensed', NEW p \in Process, Contract(p)
  PROVE  Truthful'
  <1>1. Licensed /\ Moves(p) /\ RemoteFrame(p) /\ Progress
    BY StepProgress DEF Truthful, Contract
  <1>2. OneEventPerIdentity'
    <2> SUFFICES ASSUME NEW e \in Told', NEW f \in Told', e.id = f.id PROVE e = f
      BY DEF OneEventPerIdentity
    <2>1. ASSUME NEW x, x = draft'[p], Drafts(p), NEW y \in Told PROVE x.id # y.id
      <3>1. IdDrawn(y.id) /\ x.id = FreshId(p)
        BY <1>1, <2>1, ToldTyped DEF Drafts
      <3>2. ~IdDrawn(x.id)
        BY <1>1, <2>1, <3>1, FreshDrawn DEF Drafts, Licensed, Sound, Typed
      <3> QED BY <3>1, <3>2
    <2>2. CASE e \in Told /\ f \in Told
      BY <2>2 DEF Truthful, OneEventPerIdentity
    <2> QED BY <1>1, <2>1, <2>2, ToldGrows
  <1>3. EvidenceTrue'
    <2> SUFFICES ASSUME NEW e \in Told' PROVE Vouched(e)'
      BY DEF EvidenceTrue
    <2>1. CASE e \in Told
      BY <1>1, <2>1, VouchedStays
    <2>2. CASE Drafts(p) /\ e = draft'[p]
      BY <2>2 DEF Contract, Vouched
    <2> QED BY <1>1, <2>1, <2>2, ToldGrows
  <1>4. EffectsStarted'
    <2>1. ASSUME NEW x \in Effects'
          PROVE  sends'[x.dispatch] > 0 /\ StartedFor(x.op, x.dispatch)'
      <3>1. CASE x \in Effects
        <4>1. x.dispatch \in Id
          BY <1>1, <3>1 DEF Effects, Licensed, Sound, Typed, RemoteOK, Sent
        <4>2. sends[x.dispatch] > 0 /\ StartedFor(x.op, x.dispatch)
          BY <3>1 DEF Truthful, EffectsStarted
        <4> QED BY <1>1, <4>1, <4>2, StartedStays DEF Progress
      <3>2. CASE /\ pc[p] = "send" /\ sends'[draft[p].id] > 0
                 /\ x = [op |-> draft[p].op, dispatch |-> draft[p].id]
        <4>1. StartedFor(x.op, x.dispatch)
          BY <3>2, HeldStarted
        <4> QED BY <1>1, <3>2, <4>1, StartedStays
      <3> QED BY <1>1, <3>1, <3>2, EffectOfStep
    <2>2. ASSUME NEW y \in wire' PROVE StartedWith(y.op, y.dispatch, y.request)'
      <3>1. StartedWith(y.op, y.dispatch, y.request)
        <4>1. CASE y \in wire
          BY <4>1 DEF Truthful, EffectsStarted
        <4>2. CASE /\ pc[p] = "send"
                   /\ y = [op |-> draft[p].op, dispatch |-> draft[p].id,
                           request |-> draft[p].request]
          BY <4>2, HeldStarted
        <4> QED BY <1>1, <4>1, <4>2, EffectOfStep
      <3> QED BY <1>1, <3>1, StartedStays
    <2> QED BY <2>1, <2>2 DEF EffectsStarted
  <1>5. DependenciesReady'
    <2> SUFFICES ASSUME NEW q \in Process, pc'[q] \in Starting,
                        NEW d \in DependsOn[draft'[q].op]
                 PROVE  Present(d)'
      BY DEF DependenciesReady, Starting
    <2>1. Present(d)
      <3>1. CASE q # p
        BY <1>1, <3>1 DEF Moves, Frame, Truthful, DependenciesReady, Starting
      <3>2. CASE q = p
        BY <3>2 DEF Contract, Truthful, DependenciesReady, Starting
      <3> QED BY <3>1, <3>2
    <2> QED BY <1>1, <2>1, PresentStays
  <1>6. DependenciesPublished'
    <2> SUFFICES ASSUME NEW x \in Effects', NEW d \in DependsOn[x.op] PROVE Present(d)'
      BY DEF DependenciesPublished
    <2>1. Present(d)
      <3>1. CASE x \in Effects
        BY <3>1 DEF Truthful, DependenciesPublished
      <3>2. CASE /\ pc[p] = "send"
                 /\ x = [op |-> draft[p].op, dispatch |-> draft[p].id]
        BY <3>2 DEF Truthful, DependenciesReady
      <3> QED BY <1>1, <3>1, <3>2, EffectOfStep
    <2> QED BY <1>1, <2>1, PresentStays
  <1>7. ProtectedOnce'
    <2>1. OneApplied
      <3>1. CASE Applied(p) /\ pc[p] = "send"
        BY <1>1, <3>1, HeldStarted, SenderHolds
           DEF Applied, OneApplied, Licensed, Sound
      <3>2. CASE published' = published
        BY <3>2 DEF OneApplied
      <3> QED BY <1>1, <3>1, <3>2 DEF RemoteFrame, Travelling
    <2> QED BY <1>1, <2>1, ProtectedStays
  <1> QED BY <1>2, <1>3, <1>4, <1>5, <1>6, <1>7 DEF Truthful

-----------------------------------------------------------------------------
(* One lemma per kind of step *)

LEMMA KeptContract ==
  ASSUME Licensed, NEW p \in Process, Frame(p), StoreFrame(p),
         UNCHANGED remoteVars, UNCHANGED drawn,
         \/ pc'[p] \notin Drafting
         \/ /\ pc[p] \in Drafting /\ draft'[p] = draft[p]
            /\ pc'[p] \in Starting => pc[p] \in Starting
  PROVE  Contract(p)
  <1>1. ~Draw(p)
    BY DEF Draw, Licensed, Sound, Typed, DrawnOK
  <1>2. Moves(p) /\ RemoteFrame(p)
    BY DEF Moves, Keeps, RemoteFrame, remoteVars
  <1> QED BY <1>1, <1>2 DEF Contract, Drafts, Starting, Drafting

LEMMA FreshContract ==
  ASSUME Licensed, NEW p \in Process, Frame(p), UNCHANGED storeVars, Draw(p),
         RemoteFrame(p), pc'[p] \in Drafting,
         NEW event, event.id = FreshId(p), draft'[p] = event, Vouched(event)',
         pc'[p] \in Starting => \A d \in DependsOn[event.op] : Present(d)
  PROVE  Contract(p)
  <1>1. Moves(p)
    BY DEF Moves, Drafts, StoreFrame
  <1>2. Vouched(draft[p])'
    BY DEF Vouched
  <1> QED BY <1>1, <1>2 DEF Contract

\* A start, a decision, a supersession or an error claims nothing of the remote.
LEMMA NothingClaimed ==
  ASSUME NEW event,
         event.tag \in {"DispatchStarted", "DispatchError", "RiskAccepted",
                        "PlanSuperseded"}
  PROVE  Vouched(event)'
  BY DEF Vouched

LEMMA BeginContract ==
  ASSUME Truthful, NEW p \in Process, Begin(p)
  PROVE  Contract(p)
  <1>1. Licensed /\ UNCHANGED storeVars /\ UNCHANGED remoteVars
    BY DEF Truthful, Begin, BeginRun, BeginObserve, BeginAcceptRisk, BeginSupersede
  <1>2. CASE BeginRun(p) \/ BeginObserve(p)
    <2>1. pc' = [pc EXCEPT ![p] = "consider"] /\ UNCHANGED <<draft, base, drawn>>
      BY <1>2 DEF BeginRun, BeginObserve, Goto
    <2>2. Frame(p) /\ pc'[p] \notin Drafting
      BY <1>1, <2>1 DEF Licensed, Sound, Typed, LocalOK, Frame, Drafting
    <2> QED BY <1>1, <2>1, <2>2, KeptContract DEF StoreFrame
  <1>3. CASE BeginAcceptRisk(p) \/ BeginSupersede(p)
    <2>1. PICK event :
            /\ event.id = FreshId(p) /\ event.tag \in {"RiskAccepted", "PlanSuperseded"}
            /\ draft' = [draft EXCEPT ![p] = event]
      BY <1>3 DEF BeginAcceptRisk, BeginSupersede
    <2>2. pc' = [pc EXCEPT ![p] = "record"] /\ UNCHANGED base /\ Draw(p)
      BY <1>3 DEF BeginAcceptRisk, BeginSupersede, Goto
    <2>3. Frame(p) /\ pc'[p] = "record" /\ draft'[p] = event
      BY <1>1, <2>1, <2>2 DEF Licensed, Sound, Typed, LocalOK, Frame
    <2>4. Vouched(event)'
      BY <2>1, NothingClaimed
    <2> QED BY <1>1, <2>1, <2>2, <2>3, <2>4, FreshContract
            DEF RemoteFrame, remoteVars, Drafting, Starting
  <1> QED BY <1>2, <1>3 DEF Begin

LEMMA LoopContract ==
  ASSUME Truthful, NEW p \in Process,
         \/ Consider(p) \/ ConsiderObservation(p) \/ EndPass(p) \/ Decide(p)
         \/ ProviderFails(p) \/ Crash(p)
  PROVE  Contract(p)
  <1>1. Licensed /\ UNCHANGED storeVars /\ UNCHANGED remoteVars /\ UNCHANGED drawn
    BY DEF Truthful, Consider, ConsiderObservation, EndPass, Decide, ProviderFails,
           Crash
  <1>2. ASSUME Return(p) \/ Advance(p) PROVE Contract(p)
    <2>1. Frame(p) /\ pc'[p] \notin Drafting
      BY <1>1, <1>2, ReturnFrames, AdvanceFrames DEF Licensed, Sound, Drafting
    <2> QED BY <1>1, <2>1, KeptContract DEF StoreFrame
  <1>3. ASSUME NEW label \in {"observe", "prepare", "consider"},
               pc' = [pc EXCEPT ![p] = label],
               UNCHANGED draft,
               base' = [base EXCEPT ![p] = Len(journal)] \/ UNCHANGED base
        PROVE  Contract(p)
    <2>1. Frame(p) /\ pc'[p] \notin Drafting
      BY <1>1, <1>3 DEF Licensed, Sound, Typed, LocalOK, Frame, Drafting
    <2> QED BY <1>1, <2>1, KeptContract DEF StoreFrame
  <1>4. ASSUME pc[p] = "consider", UNCHANGED <<pc, draft, base>> PROVE Contract(p)
    <2>1. Frame(p) /\ pc'[p] \notin Drafting
      BY <1>4 DEF Frame, Drafting
    <2> QED BY <1>1, <2>1, KeptContract DEF StoreFrame
  <1>5. ASSUME Consider(p) PROVE Contract(p)
    BY <1>2, <1>3, <1>4, <1>5 DEF Consider, Goto
  <1>6. ASSUME ConsiderObservation(p) PROVE Contract(p)
    BY <1>2, <1>3, <1>6 DEF ConsiderObservation, Goto
  <1>7. ASSUME EndPass(p) PROVE Contract(p)
    BY <1>2, <1>4, <1>7 DEF EndPass
  <1>8. ASSUME Decide(p) PROVE Contract(p)
    BY <1>2, <1>3, <1>8 DEF Decide, Goto
  <1> QED BY <1>2, <1>5, <1>6, <1>7, <1>8 DEF ProviderFails, Crash

\* What is seen present is present.
LEMMA ObserveContract ==
  ASSUME Truthful, NEW p \in Process, Observe(p)
  PROVE  Contract(p)
  <1>1. Licensed /\ UNCHANGED storeVars /\ UNCHANGED remoteVars
    BY DEF Truthful, Observe
  <1>2. PICK view \in ViewsOf(At(p)), accepted \in BOOLEAN, out \in Output \cup {NoOutput} :
          Record(p, [tag |-> "ObservationRecorded", id |-> FreshId(p),
                     op |-> At(p), view |-> view,
                     status |-> Classify(At(p), view, accepted), out |-> out])
    BY DEF Observe
  <1> DEFINE event == [tag |-> "ObservationRecorded", id |-> FreshId(p),
                       op |-> At(p), view |-> view,
                       status |-> Classify(At(p), view, accepted), out |-> out]
  <1>3. /\ Frame(p) /\ pc'[p] = "record" /\ draft'[p] = event /\ Draw(p)
    BY <1>1, <1>2, RecordFrames DEF Licensed, Sound
  <1>4. event.status = "Satisfied" => Present(event.op)
    BY DEF Classify, ViewsOf
  <1>5. PICK e : e = event
    OBVIOUS
  <1>6. Vouched(e)'
    BY <1>1, <1>4, <1>5 DEF Vouched, Present, remoteVars
  <1>7. e.id = FreshId(p) /\ draft'[p] = e
    BY <1>3, <1>5
  <1> HIDE DEF event
  <1> QED BY <1>1, <1>3, <1>6, <1>7, FreshContract
          DEF RemoteFrame, remoteVars, Drafting, Starting

\* The journal calls satisfied only what is at the remote.
LEMMA SatisfiedPresent ==
  ASSUME Truthful, NEW o \in Op, OperationStatus(journal, o) = "Satisfied"
  PROVE  Present(o)
  <1>1. journal \in Seq(Event) /\ Admissible(journal)
    BY DEF Truthful, Licensed, Sound, Typed, StoreOK, HistoryOK
  <1>2. PICK i : i \in SatisfiedAmong(journal,
                         Observations(journal, o) \cup Receipts(journal, o))
    BY <1>1, SatisfiedHasEvidence
  <1>3. i \in DOMAIN journal /\ journal[i] \in Event /\ journal[i].status = "Satisfied"
    BY <1>1, <1>2 DEF SatisfiedAmong, Observations, Receipts, EvidenceOf
  <1>4. Vouched(journal[i])
    BY <1>3, ToldByJournal DEF Truthful, EvidenceTrue
  <1>5. CASE i \in Observations(journal, o)
    <2>1. journal[i].op = o /\ journal[i].tag \in {"ObservationRecorded", "DispatchError"}
      BY <1>5 DEF Observations
    <2>2. journal[i].tag # "DispatchError"
      BY <1>3 DEF Event, StartEvent, ReceiptEvent, RejectionEvent, ObservationEvent,
                  DispatchErrorEvent, RiskEvent, SupersededEvent
    <2> QED BY <1>3, <1>4, <2>1, <2>2 DEF Vouched
  <1>6. CASE i \in Receipts(journal, o)
    <2>1. /\ journal[i].tag = "ReceiptAccepted"
          /\ \E s \in Starts(journal, o) : journal[s].id = journal[i].dispatch
      BY <1>6 DEF Receipts, EvidenceOf
    <2>2. PICK s \in DOMAIN journal : journal[s].op = o /\ journal[s].id = journal[i].dispatch
      BY <2>1 DEF Starts
    <2>3. PICK k \in Op : StartedFor(k, journal[i].dispatch) /\ Present(k)
      BY <1>3, <1>4, <2>1 DEF Vouched
    <2>4. PICK t \in DOMAIN journal : journal[t].op = k /\ journal[t].id = journal[i].dispatch
      BY <2>3 DEF StartedFor, StartsOf
    <2>5. s = t
      BY <1>1, <2>2, <2>4, IdsUnique
    <2> QED BY <2>2, <2>3, <2>4, <2>5
  <1> QED BY <1>2, <1>5, <1>6 DEF SatisfiedAmong

\* A start is decided once what it depends on is published.
LEMMA PrepareContract ==
  ASSUME Truthful, NEW p \in Process, Prepare(p)
  PROVE  Contract(p)
  <1>1. Licensed /\ UNCHANGED storeVars /\ UNCHANGED remoteVars
    BY DEF Truthful, Prepare
  <1>2. ASSUME Advance(p), UNCHANGED drawn PROVE Contract(p)
    <2>1. Frame(p) /\ pc'[p] \notin Drafting
      BY <1>1, <1>2, AdvanceFrames DEF Licensed, Sound, Drafting
    <2> QED BY <1>1, <1>2, <2>1, KeptContract DEF StoreFrame
  <1>3. ASSUME NEW req, NEW now,
               LawfulBases(journal, At(p), req, now) # {},
               NEW event, event.id = FreshId(p), event.op = At(p),
               event.tag = "DispatchStarted",
               draft' = [draft EXCEPT ![p] = event],
               pc' = [pc EXCEPT ![p] = "commit"],
               base' = [base EXCEPT ![p] = Len(journal)],
               Draw(p)
        PROVE  Contract(p)
    <2>1. Frame(p) /\ pc'[p] = "commit" /\ draft'[p] = event
      BY <1>1, <1>3 DEF Licensed, Sound, Typed, LocalOK, Frame
    <2>2. DependenciesSatisfied(journal, At(p))
      BY <1>3 DEF LawfulBases, MayPrepare
    <2>3. At(p) \in Op
      BY <1>1, AtTyped DEF Prepare, Licensed, Sound, Typed, LocalOK, ControlOK
    <2>4. ASSUME NEW d \in DependsOn[At(p)] PROVE Present(d)
      <3>1. d \in Op /\ OperationStatus(journal, d) = "Satisfied"
        BY <2>2, <2>3, DecisionAssumption DEF DependenciesSatisfied
      <3> QED BY <3>1, SatisfiedPresent
    <2>5. Vouched(event)'
      BY <1>3, NothingClaimed
    <2> QED BY <1>1, <1>3, <2>1, <2>4, <2>5, FreshContract
            DEF RemoteFrame, remoteVars, Drafting
  <1>4. ASSUME NEW req, NEW now, NEW basis \in LawfulBases(journal, At(p), req, now),
               draft' = [draft EXCEPT ![p] =
                 [tag |-> "DispatchStarted", id |-> FreshId(p), op |-> At(p),
                  request |-> req, at |-> now, basis |-> basis]],
               pc' = [pc EXCEPT ![p] = "commit"],
               base' = [base EXCEPT ![p] = Len(journal)],
               Draw(p)
        PROVE  Contract(p)
    <2> DEFINE event == [tag |-> "DispatchStarted", id |-> FreshId(p), op |-> At(p),
                         request |-> req, at |-> now, basis |-> basis]
    <2>1. /\ event.id = FreshId(p) /\ event.op = At(p) /\ event.tag = "DispatchStarted"
          /\ draft' = [draft EXCEPT ![p] = event]
          /\ LawfulBases(journal, At(p), req, now) # {}
      BY <1>4
    <2> HIDE DEF event
    <2> QED BY <1>3, <1>4, <2>1
  <1> QED BY <1>2, <1>4 DEF Prepare, Goto

LEMMA CommitContract ==
  ASSUME Truthful, NEW p \in Process, Commit(p)
  PROVE  Contract(p)
  <1>1. /\ Licensed /\ UNCHANGED drawn /\ UNCHANGED remoteVars
        /\ pc[p] = "commit" /\ pc[p] \in Drafting /\ pc[p] \in Starting
    BY DEF Truthful, Commit, Drafting, Starting
  <1>2. PICK result \in AppendResult :
          /\ StoreAppend(base[p], draft[p], result)
          /\ \/ \E label \in {"send", "reconcile"} :
                  pc' = [pc EXCEPT ![p] = label] /\ UNCHANGED <<draft, base>>
             \/ Advance(p)
    BY DEF Commit, Goto
  <1>3. StoreFrame(p)
    BY <1>1, <1>2, AppendFrames
  <1>4. ASSUME Advance(p) PROVE Frame(p) /\ pc'[p] \notin Drafting
    BY <1>1, <1>4, AdvanceFrames DEF Licensed, Sound, Drafting
  <1>5. ASSUME NEW label, pc' = [pc EXCEPT ![p] = label], UNCHANGED <<draft, base>>
        PROVE  Frame(p) /\ draft'[p] = draft[p]
    BY <1>1, <1>5 DEF Licensed, Sound, Typed, LocalOK, Frame
  <1> QED BY <1>1, <1>2, <1>3, <1>4, <1>5, KeptContract

LEMMA ReconcileContract ==
  ASSUME Truthful, NEW p \in Process, Reconcile(p)
  PROVE  Contract(p)
  <1>1. /\ Licensed /\ UNCHANGED drawn /\ UNCHANGED storeVars /\ UNCHANGED remoteVars
        /\ pc[p] = "reconcile" /\ pc[p] \in Drafting /\ pc[p] \in Starting
    BY DEF Truthful, Reconcile, Drafting, Starting
  <1>2. ASSUME Advance(p) PROVE Frame(p) /\ pc'[p] \notin Drafting
    BY <1>1, <1>2, AdvanceFrames DEF Licensed, Sound, Drafting
  <1>3. ASSUME pc' = [pc EXCEPT ![p] = "send"], UNCHANGED <<draft, base>>
        PROVE  Frame(p) /\ draft'[p] = draft[p]
    BY <1>1, <1>3 DEF Licensed, Sound, Typed, LocalOK, Frame
  <1> QED BY <1>1, <1>2, <1>3, KeptContract DEF Reconcile, Goto, StoreFrame

LEMMA FactContract ==
  ASSUME Truthful, NEW p \in Process, ReadForFact(p) \/ AppendFact(p)
  PROVE  Contract(p)
  <1>1. /\ Licensed /\ UNCHANGED drawn /\ UNCHANGED remoteVars
        /\ pc[p] \in {"record", "append"} /\ pc[p] \in Drafting
    BY DEF Truthful, ReadForFact, AppendFact, Drafting
  <1>2. StoreFrame(p)
    BY <1>1, AppendFrames DEF ReadForFact, AppendFact, StoreFrame
  <1>3. ASSUME AfterFact(p) \/ Return(p) PROVE Contract(p)
    <2>1. Frame(p) /\ pc'[p] \notin Drafting
      BY <1>1, <1>3, AfterFactFrames, ReturnFrames DEF Licensed, Sound, Drafting
    <2> QED BY <1>1, <1>2, <2>1, KeptContract
  <1>4. ASSUME NEW label \in {"record", "append"}, NEW revision,
               pc' = [pc EXCEPT ![p] = label],
               base' = [base EXCEPT ![p] = revision] \/ UNCHANGED base,
               UNCHANGED draft
        PROVE  Contract(p)
    <2>1. Frame(p) /\ pc'[p] \notin Starting /\ draft' = draft
      BY <1>1, <1>4 DEF Licensed, Sound, Typed, LocalOK, Frame, Starting
    <2> QED BY <1>1, <1>2, <2>1, KeptContract
  <1>5. CASE ReadForFact(p)
    BY <1>3, <1>4, <1>5 DEF ReadForFact, Goto
  <1>6. CASE AppendFact(p)
    BY <1>3, <1>4, <1>6 DEF AppendFact, Goto
  <1> QED BY <1>5, <1>6

\* What a send records of its outcome is so at the remote.
LEMMA SendContract ==
  ASSUME Truthful, NEW p \in Process, Send(p)
  PROVE  Contract(p)
  <1>1. /\ Licensed /\ UNCHANGED storeVars /\ existing' = existing
        /\ pc[p] = "send" /\ pc[p] \in Drafting
        /\ sends' = [sends EXCEPT ![draft[p].id] = @ + 1]
        /\ Applied(p) \/ Travelling(p) \/ UNCHANGED <<wire, published>>
    BY DEF Truthful, Send, Accepted, Rejected, Uncertain, UnknownErrorCodec, Transmit,
           Fate, Drafting
  <1>2. RemoteFrame(p)
    BY <1>1 DEF RemoteFrame
  <1>3. PICK o \in Op, d \in Id : o = draft[p].op /\ d = draft[p].id
    BY <1>1, SenderHolds DEF Licensed, Sound
  <1>4. sends[d] = 0 /\ StartedFor(o, d)
    BY <1>1, <1>3, HeldStarted
  <1>5. ASSUME NEW event, event.id = FreshId(p), Record(p, event), Vouched(event)'
        PROVE  Contract(p)
    <2>1. Frame(p) /\ pc'[p] = "record" /\ draft'[p] = event /\ Draw(p)
      BY <1>1, <1>5, RecordFrames DEF Licensed, Sound
    <2> QED BY <1>1, <1>2, <1>5, <2>1, FreshContract DEF Drafting, Starting
  <1>6. ASSUME Accepted(p) PROVE Contract(p)
    <2>1. PICK status \in {"Satisfied", "Pending"}, out \in Output \cup {NoOutput} :
            /\ \/ Applied(p)
               \/ status = "Pending"
               \/ Present(o) /\ UNCHANGED <<wire, published>>
            /\ Record(p, [tag |-> "ReceiptAccepted", id |-> FreshId(p),
                          dispatch |-> d, status |-> status, out |-> out])
      BY <1>3, <1>6 DEF Accepted
    <2>2. PICK event : event = [tag |-> "ReceiptAccepted", id |-> FreshId(p),
                                dispatch |-> d, status |-> status, out |-> out]
      OBVIOUS
    <2>3. StartedFor(o, d)'
      BY <1>1, <1>4 DEF StartedFor, StartsOf, storeVars
    <2>4. status = "Satisfied" => Present(o)'
      <3>1. CASE Applied(p)
        <4>1. [op |-> o, dispatch |-> d] \in published'
          BY <1>3, <3>1 DEF Applied
        <4> QED BY <4>1 DEF Present
      <3>2. CASE Present(o) /\ UNCHANGED <<wire, published>>
        BY <1>1, <3>2 DEF Present
      <3> QED BY <2>1, <3>1, <3>2
    <2>5. Vouched(event)'
      BY <2>2, <2>3, <2>4 DEF Vouched
    <2> QED BY <1>5, <2>1, <2>2, <2>5
  <1>7. ASSUME Rejected(p) PROVE Contract(p)
    <2>1. PICK event : event = [tag |-> "DispatchRejectedBeforeCommit",
                                id |-> FreshId(p), dispatch |-> d]
      OBVIOUS
    <2>2. Record(p, event) /\ UNCHANGED <<wire, published>>
      BY <1>3, <1>7, <2>1 DEF Rejected
    <2>3. sends'[d] > 0
      BY <1>1, <1>3 DEF Licensed, Sound, Typed, RemoteOK
    <2>4. ASSUME NEW x \in Effects' PROVE x.dispatch # d
      <3>1. sends[x.dispatch] > 0
        BY <2>2 DEF Effects, Truthful, EffectsStarted
      <3> QED BY <1>4, <3>1
    <2>5. Vouched(event)'
      BY <2>1, <2>3, <2>4 DEF Vouched
    <2> QED BY <1>5, <2>1, <2>2, <2>5
  <1>8. ASSUME Uncertain(p) PROVE Contract(p)
    <2>1. PICK event : event = [tag |-> "DispatchError", id |-> FreshId(p), op |-> o,
                                dispatch |-> d, status |-> "Inconclusive"]
      OBVIOUS
    <2>2. Record(p, event)
      BY <1>3, <1>8, <2>1 DEF Uncertain
    <2>3. Vouched(event)'
      BY <2>1, NothingClaimed
    <2> QED BY <1>5, <2>1, <2>2, <2>3
  <1>9. ASSUME UnknownErrorCodec(p) PROVE Contract(p)
    <2>1. Frame(p) /\ pc'[p] \notin Drafting
      BY <1>1, <1>9, ReturnFrames DEF UnknownErrorCodec, Licensed, Sound, Drafting
    <2>2. Moves(p)
      BY <1>1, <2>1 DEF Moves, Keeps, StoreFrame
    <2> QED BY <1>2, <2>1, <2>2 DEF Contract, Drafts, Drafting, Starting
  <1> QED BY <1>6, <1>7, <1>8, <1>9 DEF Send

-----------------------------------------------------------------------------
(* Steps of no process *)

\* A late landing tells nothing new.
LEMMA LandTruthful ==
  ASSUME Truthful, Licensed', NEW w \in inflight, Land(w)
  PROVE  Truthful'
  <1>1. /\ journal \in Seq(Event) /\ w.event \in Event
        /\ journal' = journal \/ journal' = Append(journal, w.event)
        /\ inflight' \subseteq inflight
        /\ UNCHANGED <<pc, draft, sends, wire, published, existing>>
    BY DEF Land, remoteVars, Truthful, Licensed, Sound, Typed, StoreOK
  <1>2. ASSUME NEW e \in Told' PROVE e \in Told
    BY <1>1 DEF Told
  <1>3. Progress /\ OneApplied
    BY <1>1 DEF Progress, Grown, Effects, OneApplied
  <1>4. EvidenceTrue' /\ OneEventPerIdentity'
    BY <1>2, <1>3, VouchedStays DEF EvidenceTrue, OneEventPerIdentity, Truthful
  <1>5. EffectsStarted'
    <2>1. ASSUME NEW x \in Effects
          PROVE  sends'[x.dispatch] > 0 /\ StartedFor(x.op, x.dispatch)'
      BY <1>1, <1>3, StartedStays DEF Truthful, EffectsStarted
    <2>2. ASSUME NEW y \in wire PROVE StartedWith(y.op, y.dispatch, y.request)'
      BY <1>3, StartedStays DEF Truthful, EffectsStarted
    <2> QED BY <1>1, <2>1, <2>2 DEF EffectsStarted, Effects
  <1>6. DependenciesReady' /\ DependenciesPublished'
    BY <1>1 DEF Truthful, DependenciesReady, DependenciesPublished, Effects, Present
  <1>7. ProtectedOnce'
    BY <1>3, ProtectedStays
  <1> QED BY <1>4, <1>5, <1>6, <1>7 DEF Truthful

\* A delayed request that arrives was already counted as one that may.
LEMMA DeliverTruthful ==
  ASSUME Truthful, Licensed', NEW y \in wire, Deliver(y)
  PROVE  Truthful'
  <1>1. /\ UNCHANGED <<journal, inflight, pc, draft, sends, existing>>
        /\ wire' = wire \ {y}
        /\ \/ published' = published
           \/ /\ published' = published \cup {[op |-> y.op, dispatch |-> y.dispatch]}
              /\ CanApply(y.op, y.request)
    BY DEF Deliver, storeVars
  <1>2. Told' = Told
    BY <1>1 DEF Told
  <1>3. Effects' \subseteq Effects
    BY <1>1 DEF Effects
  <1>4. Progress
    BY <1>1, <1>3 DEF Progress, Grown
  <1>5. y.op \in Op /\ y.dispatch \in Id /\ y.request \in Request
    BY DEF Truthful, Licensed, Sound, Typed, RemoteOK, Sent
  <1>6. OneApplied
    BY <1>1, <1>5 DEF OneApplied, Truthful, EffectsStarted
  <1>7. EvidenceTrue' /\ OneEventPerIdentity'
    BY <1>2, <1>4, VouchedStays DEF EvidenceTrue, OneEventPerIdentity, Truthful
  <1>8. EffectsStarted'
    BY <1>1, <1>3 DEF Truthful, EffectsStarted, StartedFor, StartedWith, StartsOf
  <1>9. DependenciesReady' /\ DependenciesPublished'
    BY <1>1, <1>3, <1>4, PresentStays DEF Truthful, DependenciesReady, DependenciesPublished
  <1>10. ProtectedOnce'
    BY <1>4, <1>6, ProtectedStays
  <1> QED BY <1>7, <1>8, <1>9, <1>10 DEF Truthful

LEMMA IdleTruthful ==
  ASSUME Truthful, Licensed', UNCHANGED vars
  PROVE  Truthful'
  <1>1. UNCHANGED <<journal, inflight, pc, draft, sends, wire, published, existing>>
    BY DEF vars
  <1>2. Told' = Told /\ Effects' = Effects
    BY <1>1 DEF Told, Effects
  <1>3. OneEventPerIdentity' /\ EffectsStarted' /\ ProtectedOnce'
    BY <1>1, <1>2 DEF Truthful, OneEventPerIdentity, EffectsStarted, StartedFor,
                      StartedWith, StartsOf, ProtectedOnce, ProtectedEffects, Starts
  <1>4. EvidenceTrue' /\ DependenciesReady' /\ DependenciesPublished'
    BY <1>1, <1>2 DEF Truthful, EvidenceTrue, Vouched, StartedFor, StartsOf, Present,
                      DependenciesReady, DependenciesPublished
  <1> QED BY <1>3, <1>4 DEF Truthful

LEMMA InitTruthful ==
  ASSUME Init
  PROVE  Truthful
  <1>1. Told = {} /\ Effects = {} /\ wire = {} /\ published = {}
    BY DEF Init, Told, Effects
  <1>2. ProtectedOnce
    BY <1>1 DEF ProtectedOnce, ProtectedEffects
  <1>3. DependenciesReady
    BY DEF Init, DependenciesReady
  <1> QED BY <1>1, <1>2, <1>3, InitLicensed
          DEF Truthful, OneEventPerIdentity, EvidenceTrue, EffectsStarted,
              DependenciesPublished

LEMMA NextTruthful ==
  ASSUME Truthful, [Next]_vars
  PROVE  Truthful'
  <1>1. Licensed'
    BY NextLicensed DEF Truthful
  <1>2. ASSUME NEW p \in Process, Begin(p) \/ Step(p) \/ Crash(p) PROVE Truthful'
    <2>1. Contract(p)
      BY <1>2, BeginContract, LoopContract, ObserveContract, PrepareContract,
         CommitContract, ReconcileContract, SendContract, FactContract DEF Step
    <2> QED BY <1>1, <2>1, ContractKeeps
  <1>3. ASSUME Environment PROVE Truthful'
    BY <1>1, <1>3, LandTruthful, DeliverTruthful DEF Environment
  <1>4. ASSUME UNCHANGED vars PROVE Truthful'
    BY <1>1, <1>4, IdleTruthful
  <1> QED BY <1>2, <1>3, <1>4 DEF Next, Rest

-----------------------------------------------------------------------------
(* Counting the effects of an operation by its starts.                     *)

\* The starts of o that had an effect.
Effective(o) ==
  {s \in Starts(journal, o) : [op |-> o, dispatch |-> journal[s].id] \in published}

SpentRisk(s) == journal[s].basis.kind = "AcceptedRisk"

LEMMA EffectiveParts ==
  ASSUME Truthful, NEW o \in Op, NEW s \in Effective(o)
  PROVE  /\ s \in DOMAIN journal /\ journal[s] \in StartEvent
         /\ journal[s].tag = "DispatchStarted" /\ journal[s].op = o
         /\ [op |-> o, dispatch |-> journal[s].id] \in Effects
  BY DEF Effective, Effects, Starts, Truthful, Licensed, Sound, Typed, StoreOK, Event,
         StartEvent, ReceiptEvent, RejectionEvent, ObservationEvent, DispatchErrorEvent,
         RiskEvent, SupersededEvent

\* Of two starts that had an effect, the later one spent an accepted risk: it
\* did not follow a rejection, which has no effect, nor an acceptance, and the
\* remote applies a protected request once.
LEMMA LaterSpentRisk ==
  ASSUME Truthful, NEW o \in Op, NEW s \in Effective(o), NEW t \in Effective(o), s < t
  PROVE  SpentRisk(t)
  <1>1. journal \in Seq(Event) /\ Admissible(journal)
    BY DEF Truthful, Licensed, Sound, Typed, StoreOK, HistoryOK
  <1>2. /\ s \in DOMAIN journal /\ t \in DOMAIN journal
        /\ journal[s].tag = "DispatchStarted" /\ journal[t].tag = "DispatchStarted"
        /\ journal[s].op = o /\ journal[t].op = o
        /\ [op |-> o, dispatch |-> journal[s].id] \in Effects
    BY EffectiveParts
  <1>3. ASSUME NEW k \in TerminalEvidence(journal, journal[s].id), k < t PROVE FALSE
    <2>1. k \in DOMAIN journal /\ journal[k].dispatch = journal[s].id
      BY DEF TerminalEvidence
    <2>2. CASE journal[k].tag = "ReceiptAccepted"
      <3>1. s \in StartsOf(journal, journal[k].dispatch) /\ t \in Starts(journal, journal[s].op)
        BY <1>2, <2>1 DEF StartsOf, Starts
      <3>2. t < k
        BY <1>1, <2>1, <2>2, <3>1, NoStartAfterReceipt
      <3> QED BY <1>1, <1>2, <1>3, <2>1, <3>2
    <2>3. CASE journal[k].tag = "DispatchRejectedBeforeCommit"
      <3>1. Vouched(journal[k])
        BY <2>1, ToldByJournal DEF Truthful, EvidenceTrue
      <3> QED BY <1>2, <2>1, <2>3, <3>1 DEF Vouched
    <2> QED BY <2>2, <2>3 DEF TerminalEvidence
  <1>4. \/ journal[t].request = journal[s].request /\ journal[s].request \in Protected
        \/ SpentRisk(t)
    BY <1>1, <1>2, <1>3, UncertainHistory DEF SpentRisk
  <1>5. ASSUME journal[t].request = journal[s].request, journal[s].request \in Protected
        PROVE  FALSE
    <2>1. s \in ProtectedEffects(o) /\ t \in ProtectedEffects(o)
      BY <1>5 DEF ProtectedEffects, Effective
    <2>2. s = t
      BY <2>1 DEF Truthful, ProtectedOnce
    <2> QED BY <1>1, <1>2, <2>2
  <1> QED BY <1>4, <1>5

\* So all but one did, each a decision of its own.
LEMMA EffectiveCount ==
  ASSUME Truthful, NEW o \in Op
  PROVE  /\ IsFiniteSet(Effective(o)) /\ IsFiniteSet(Consumed(journal, o))
         /\ Cardinality(Effective(o)) <= 1 + Cardinality(Consumed(journal, o))
  <1>1. journal \in Seq(Event) /\ Admissible(journal)
    BY DEF Truthful, Licensed, Sound, Typed, StoreOK, HistoryOK
  <1>2. IsFiniteSet(DOMAIN journal)
    BY <1>1, FS_Interval, DOMAIN journal = 1..Len(journal), Len(journal) \in Nat
  <1>3. Effective(o) \in SUBSET DOMAIN journal
    BY DEF Effective, Starts
  <1>4. IsFiniteSet(Effective(o))
    BY <1>2, <1>3, FS_Subset
  <1> DEFINE spent == {s \in Starts(journal, o) : SpentRisk(s)}
             risky == {s \in Effective(o) : SpentRisk(s)}
             decisionOf == [s \in spent |-> journal[s].basis.decision]
             own == [s \in risky |-> journal[s].basis.decision]
             used == Consumed(journal, o)
  <1>5. IsFiniteSet(used)
    <2>1. used = {journal[s].basis.decision : s \in spent}
      BY DEF Consumed, SpentRisk
    <2>2. spent \in SUBSET DOMAIN journal
      BY DEF Starts
    <2>3. IsFiniteSet(spent)
      BY <1>2, <2>2, FS_Subset
    <2>4. decisionOf \in Surjection(spent, used)
      BY <2>1 DEF Surjection
    <2> QED BY <2>3, <2>4, FS_Surjection
  <1>6. own \in Injection(risky, used)
    <2>1. ASSUME NEW s \in risky PROVE own[s] \in used
      BY DEF Consumed, SpentRisk, Effective
    <2>2. ASSUME NEW s \in risky, NEW t \in risky, own[s] = own[t] PROVE s = t
      <3>1. /\ journal[s].basis \in Basis /\ journal[t].basis \in Basis
            /\ s \in DOMAIN journal /\ t \in DOMAIN journal
            /\ journal[s].tag = "DispatchStarted" /\ journal[t].tag = "DispatchStarted"
            /\ journal[s].basis.kind = "AcceptedRisk"
            /\ journal[t].basis.kind = "AcceptedRisk"
        BY EffectiveParts DEF SpentRisk, StartEvent
      <3>2. journal[s].basis = journal[t].basis
        BY <2>2, <3>1 DEF Basis
      <3> QED BY <1>1, <3>1, <3>2, SpentOnce
    <2> QED BY <2>1, <2>2 DEF Injection, IsInjective
  <1>7. IsFiniteSet(risky) /\ Cardinality(risky) <= Cardinality(used)
    BY <1>5, <1>6, FS_Injection
  <1>8. ASSUME NEW s \in Effective(o) \ risky, NEW t \in Effective(o) \ risky
        PROVE  s = t
    <2>1. ~(s < t) /\ ~(t < s)
      BY LaterSpentRisk
    <2> QED BY <1>1, <1>3, <2>1
  <1>9. \E s : Effective(o) \in SUBSET (risky \cup {s})
    BY <1>8
  <1>10. PICK s : Effective(o) \in SUBSET (risky \cup {s})
    BY <1>9
  <1>11. /\ IsFiniteSet(risky \cup {s})
         /\ Cardinality(risky \cup {s}) <= Cardinality(risky) + 1
    <2>1. Cardinality(risky) \in Nat
      BY <1>7, FS_CardinalityType
    <2>2. /\ IsFiniteSet(risky \cup {s})
          /\ Cardinality(risky \cup {s})
               = IF s \in risky THEN Cardinality(risky) ELSE Cardinality(risky) + 1
      BY <1>7, FS_AddElement
    <2> HIDE DEF risky
    <2> QED BY <2>1, <2>2
  <1>12. Cardinality(Effective(o)) <= Cardinality(risky \cup {s})
    BY <1>10, <1>11, FS_Subset
  <1>13. /\ Cardinality(Effective(o)) \in Nat /\ Cardinality(risky) \in Nat
         /\ Cardinality(risky \cup {s}) \in Nat /\ Cardinality(used) \in Nat
    BY <1>4, <1>5, <1>7, <1>11, FS_CardinalityType
  <1> HIDE DEF risky, used
  <1>14. Cardinality(Effective(o)) <= 1 + Cardinality(used)
    BY <1>7, <1>11, <1>12, <1>13
  <1> QED BY <1>4, <1>5, <1>14 DEF used

\* Every effect of o is that of a start of o, and of one only.
LEMMA EffectsByStart ==
  ASSUME Truthful, NEW o \in Op
  PROVE  /\ IsFiniteSet({x \in published : x.op = o})
         /\ Cardinality({x \in published : x.op = o}) <= Cardinality(Effective(o))
  <1> DEFINE had == {x \in published : x.op = o}
             startOf == [x \in had |-> CHOOSE s \in Effective(o) : journal[s].id = x.dispatch]
  <1>1. ASSUME NEW x \in had
        PROVE  startOf[x] \in Effective(o) /\ journal[startOf[x]].id = x.dispatch
    <2>1. /\ x \in Effects /\ x.op = o
          /\ x = [op |-> o, dispatch |-> x.dispatch]
      BY DEF Effects, Truthful, Licensed, Sound, Typed, RemoteOK
    <2>2. StartedFor(o, x.dispatch)
      BY <2>1 DEF Truthful, EffectsStarted
    <2>3. PICK s \in StartsOf(journal, x.dispatch) : journal[s].op = o
      BY <2>2 DEF StartedFor
    <2>4. s \in Effective(o) /\ journal[s].id = x.dispatch
      BY <2>1, <2>3 DEF Effective, Starts, StartsOf
    <2> QED BY <2>4
  <1>2. startOf \in Injection(had, Effective(o))
    <2>1. ASSUME NEW x \in had, NEW y \in had, startOf[x] = startOf[y] PROVE x = y
      <3>1. x.dispatch = y.dispatch
        BY <1>1, <2>1
      <3> QED BY <3>1 DEF Truthful, Licensed, Sound, Typed, RemoteOK
    <2> QED BY <1>1, <2>1 DEF Injection, IsInjective
  <1> QED BY <1>2, EffectiveCount, FS_Injection

-----------------------------------------------------------------------------
(* Theorems *)

\* No loss, delay, crash or race lets the journal and the remote disagree in a
\* way a later decision relies on (Release.ts:60-139, 222-411; Provider.ts).
THEOREM EffectsAreTold == Spec => []EffectInv
  <1>1. Init => Truthful
    BY InitTruthful
  <1>2. Truthful /\ [Next]_vars => Truthful'
    BY NextTruthful
  <1>3. Truthful => EffectInv
    BY TruthfulParts
  <1> QED BY <1>1, <1>2, <1>3, PTL DEF Spec

\* The remote applies an operation at most once more than an operator accepted
\* the risk of (Release.ts:263-411, Decision.ts:83-128).
THEOREM EffectsAreLicensed == Spec => []EffectsLicensed
  <1>1. Truthful => EffectsLicensed
    <2> SUFFICES ASSUME Truthful, NEW o \in Op
                 PROVE  Cardinality({x \in published : x.op = o})
                          <= 1 + Cardinality(Consumed(journal, o))
      BY DEF EffectsLicensed
    <2> DEFINE had == {x \in published : x.op = o}
    <2>1. /\ IsFiniteSet(had) /\ IsFiniteSet(Effective(o))
          /\ IsFiniteSet(Consumed(journal, o))
          /\ Cardinality(had) <= Cardinality(Effective(o))
          /\ Cardinality(Effective(o)) <= 1 + Cardinality(Consumed(journal, o))
      BY EffectiveCount, EffectsByStart
    <2>2. /\ Cardinality(had) \in Nat /\ Cardinality(Effective(o)) \in Nat
          /\ Cardinality(Consumed(journal, o)) \in Nat
      BY <2>1, FS_CardinalityType
    <2> QED BY <2>1, <2>2
  <1>2. EffectInv => EffectsLicensed
    BY <1>1, TruthfulParts
  <1> QED BY <1>2, EffectsAreTold, PTL

\* Nothing reaches the remote before what it depends on is there, however stale
\* the history a start was decided on (Decision.ts:92-97, Release.ts:255-262).
THEOREM DependenciesArePublished == Spec => []DependenciesPublished
  <1>1. EffectInv => DependenciesPublished
    BY DEF EffectInv
  <1> QED BY <1>1, EffectsAreTold, PTL

\* What a report calls satisfied is at the remote (Decision.ts:55-81,
\* Release.ts:322-411).
THEOREM SatisfiedIsTrue == Spec => []SatisfiedIsPublished
  <1>1. EffectInv => SatisfiedIsPublished
    BY TruthfulParts, SatisfiedPresent DEF SatisfiedIsPublished
  <1> QED BY <1>1, EffectsAreTold, PTL
=============================================================================
