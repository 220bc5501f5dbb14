-------------------------- MODULE SqliteJournalProofs --------------------------
(***************************************************************************)
(* The SQLite journal implements the store contract, for any number of     *)
(* processes and events.                                                   *)
(***************************************************************************)
EXTENDS SqliteJournal, FiniteSetTheorems, TLAPS

USE SqliteJournalAssumption DEF CallRecord

\* The rows of a table without gaps are a history.
LEMMA TableIsHistory ==
  ASSUME TypeOK
  PROVE  /\ Rows \in Nat /\ DOMAIN table = 1..Rows
         /\ table \in Seq(Fact) /\ Len(table) = Rows
<1>1. Rows \in Nat
  BY FS_CardinalityType DEF TypeOK, Rows
<1> QED BY <1>1 DEF TypeOK

\* What one client's phase says of its call and of what it has read.
ClientOK(c) ==
  /\ phase[c] \in {"count", "insert", "commit"} => Existing(c) = {}
  /\ phase[c] \in {"insert", "commit"} => Expected(c)
  /\ phase[c] = "idle" <=> call[c] = NoCall
  /\ phase[c] # "idle" => call[c].floor <= Rows
  /\ phase[c] \in {"list", "fetch"} => call[c].kind = "Read"
  /\ phase[c] \in {"begin", "committed"} \cup InTransaction =>
       call[c].kind = "Append"
  /\ phase[c] # "fetch" => listed[c] = {} /\ fetched[c] = <<>>
  /\ phase[c] = "fetch" =>
       \E n \in call[c].floor..Rows :
         /\ listed[c] = 1..n
         /\ Len(fetched[c]) <= n
         /\ \A i \in 1..Len(fetched[c]) : fetched[c][i] = table[i]

Apart ==
  \A c, d \in Client :
    phase[c] \in InTransaction /\ phase[d] \in InTransaction => c = d

LEMMA TableInvMeans ==
  TableInv <=> TypeOK /\ Apart /\ \A c \in Client : ClientOK(c)
BY DEF TableInv, WritersApart, ReadersBehind, Apart, ClientOK

LEMMA TableInvInit == Init => TableInv
<1> SUFFICES ASSUME Init PROVE TableInv
  OBVIOUS
<1>1. DOMAIN table = {} /\ Rows = 0 /\ IsFiniteSet(DOMAIN table)
  BY FS_EmptySet DEF Init, Rows
<1> QED BY <1>1
  DEF Init, TableInv, TypeOK, WritersApart, ReadersBehind, Phase, InTransaction

\* Steps that commit nothing disturb one client.
LEMMA TableInvLocal ==
  ASSUME TableInv, NEW c \in Client, UNCHANGED table,
         phase' = [phase EXCEPT ![c] = phase'[c]], phase'[c] \in Phase,
         call' = [call EXCEPT ![c] = call'[c]], call'[c] \in CallRecord \cup {NoCall},
         listed' = [listed EXCEPT ![c] = listed'[c]], listed'[c] \in SUBSET Nat,
         fetched' = [fetched EXCEPT ![c] = fetched'[c]], fetched'[c] \in Seq(Fact),
         DOMAIN reply' = Client,
         phase'[c] \in InTransaction =>
           \/ phase[c] \in InTransaction
           \/ \A d \in Client : phase[d] \notin InTransaction,
         ClientOK(c)'
  PROVE  TableInv'
<1>1. TypeOK'
  BY DEF TableInv, TypeOK, Rows
<1>2. ASSUME NEW d \in Client, d # c
      PROVE  /\ phase'[d] = phase[d] /\ call'[d] = call[d]
             /\ listed'[d] = listed[d] /\ fetched'[d] = fetched[d]
  BY <1>2 DEF TableInv, TypeOK
<1>3. Apart'
  BY <1>2, TableInvMeans DEF Apart
<1>4. ASSUME NEW d \in Client PROVE ClientOK(d)'
  <2>1. CASE d = c
    BY <2>1
  <2>2. CASE d # c
    BY <1>2, <2>2, TableInvMeans DEF ClientOK, Existing, Expected, Rows
  <2> QED BY <2>1, <2>2
<1> QED BY <1>1, <1>3, <1>4 DEF TableInv, WritersApart, ReadersBehind, Apart, ClientOK

LEMMA TableInvClose ==
  ASSUME TableInv, NEW c \in Client, Close(c), DOMAIN reply' = Client
  PROVE  TableInv'
<1>1. /\ phase'[c] = "idle" /\ call'[c] = NoCall
      /\ listed'[c] = {} /\ fetched'[c] = <<>>
  BY DEF Close, Goto, TableInv, TypeOK
<1>2. ClientOK(c)'
  BY <1>1 DEF ClientOK, InTransaction
<1>3. /\ phase' = [phase EXCEPT ![c] = phase'[c]] /\ phase'[c] \in Phase
      /\ call' = [call EXCEPT ![c] = call'[c]]
      /\ listed' = [listed EXCEPT ![c] = listed'[c]] /\ listed'[c] \in SUBSET Nat
      /\ fetched' = [fetched EXCEPT ![c] = fetched'[c]] /\ fetched'[c] \in Seq(Fact)
      /\ phase'[c] \notin InTransaction /\ UNCHANGED table
  <2>1. /\ phase'[c] \in Phase /\ phase'[c] \notin InTransaction
        /\ listed'[c] \in SUBSET Nat /\ fetched'[c] \in Seq(Fact)
    BY <1>1 DEF Phase, InTransaction
  <2> QED BY <1>1, <2>1 DEF Close, Goto
<1> QED BY <1>1, <1>2, <1>3, TableInvLocal

\* An open call is one of the two kinds.
LEMMA CallOpen ==
  ASSUME TableInv, NEW c \in Client, phase[c] # "idle"
  PROVE  /\ call[c] \in CallRecord /\ call[c] # NoCall /\ call[c].floor \in Nat
         /\ call[c].kind = "Append" => call[c].rev \in Nat /\ call[c].fact \in Fact
BY TableInvMeans DEF TypeOK, ClientOK

\* What is committed is the event, behind everything that was there.
LEMMA CommitAppends ==
  ASSUME TableInv, NEW c \in Client, Commit(c)
  PROVE  /\ call[c].fact \in Fact /\ Rows = call[c].rev
         /\ table' = Append(table, call[c].fact)
         /\ IsFiniteSet(DOMAIN table') /\ Rows' = Rows + 1
         /\ table' \in [1..(Rows + 1) -> Fact]
<1>1. call[c].fact \in Fact /\ Rows = call[c].rev
  BY CallOpen, TableInvMeans DEF Commit, ClientOK, Expected, InTransaction
<1>2. /\ Rows \in Nat /\ DOMAIN table = 1..Rows
      /\ table \in Seq(Fact) /\ Len(table) = Rows
  BY TableIsHistory DEF TableInv
<1>3. DOMAIN table' = 1..(Rows + 1)
  BY <1>1, <1>2 DEF Commit
<1>4. table' = Append(table, call[c].fact)
  BY <1>1, <1>2 DEF Commit
<1>5. table' \in [1..(Rows + 1) -> Fact]
  BY <1>1, <1>2, <1>3 DEF Commit
<1>6. IsFiniteSet(DOMAIN table') /\ Rows' = Rows + 1
  BY <1>2, <1>3, FS_Interval DEF Rows
<1> QED BY <1>1, <1>4, <1>5, <1>6

LEMMA TableInvCommit ==
  ASSUME TableInv, NEW c \in Client, Commit(c)
  PROVE  TableInv'
<1>1. /\ Rows \in Nat /\ DOMAIN table = 1..Rows /\ table \in Seq(Fact)
  BY TableIsHistory DEF TableInv
<1>2. /\ Rows' = Rows + 1 /\ IsFiniteSet(DOMAIN table')
      /\ table' \in [1..(Rows + 1) -> Fact]
      /\ \A i \in 1..Rows : table'[i] = table[i]
  BY <1>1, CommitAppends
<1>3. /\ phase[c] = "commit" /\ phase' = [phase EXCEPT ![c] = "committed"]
      /\ UNCHANGED <<call, listed, fetched, reply>>
  BY DEF Commit, Goto
<1>4. TypeOK'
  BY <1>2, <1>3 DEF TableInv, TypeOK, Phase
<1>5. ASSUME NEW d \in Client PROVE phase'[d] \notin InTransaction
  BY <1>3, TableInvMeans DEF TypeOK, Apart, InTransaction
<1>6. ASSUME NEW d \in Client PROVE ClientOK(d)'
  <2>1. phase[d] # "idle" => call[d].floor \in Nat
    BY CallOpen
  <2>2. CASE d = c
    BY <1>1, <1>2, <1>3, <2>1, <2>2, TableInvMeans DEF TypeOK, ClientOK, InTransaction
  <2>3. CASE d # c
    <3>1. phase'[d] = phase[d] /\ phase[d] \notin InTransaction
      BY <1>3, <1>5, <2>3 DEF TableInv, TypeOK
    <3>2. ClientOK(d)
      BY TableInvMeans
    <3> QED BY <1>1, <1>2, <1>3, <2>1, <3>1, <3>2 DEF ClientOK, InTransaction
  <2> QED BY <2>2, <2>3
<1> QED BY <1>4, <1>5, <1>6 DEF TableInv, WritersApart, ReadersBehind, ClientOK

LEMMA TableInvStep == TableInv /\ [Next]_vars => TableInv'
<1> SUFFICES ASSUME TableInv, [Next]_vars PROVE TableInv'
  OBVIOUS
<1> USE DEF Goto
<1>1. CASE UNCHANGED vars
  BY <1>1 DEF vars, TableInv, TypeOK, WritersApart, ReadersBehind, Rows, Existing, Expected
<1>2. ASSUME NEW c \in Client, NEW asked \in CallRecord, NEW first, Begin(c, asked, first),
             asked.floor = Rows,
             \/ asked.kind = "Read" /\ first = "list"
             \/ asked.kind = "Append" /\ first = "begin"
      PROVE  TableInv'
  <2>1. /\ phase'[c] = first /\ call'[c] = asked /\ phase[c] = "idle"
        /\ listed'[c] = listed[c] /\ fetched'[c] = fetched[c]
        /\ UNCHANGED table /\ DOMAIN reply' = Client
    BY <1>2 DEF Begin, TableInv, TypeOK
  <2>2. listed'[c] = {} /\ fetched'[c] = <<>> /\ Rows \in Nat /\ Rows' = Rows
    BY <2>1, TableInvMeans, TableIsHistory DEF ClientOK, Rows
  <2>3. ClientOK(c)'
    BY <1>2, <2>1, <2>2 DEF ClientOK, InTransaction
  <2> QED
    BY <1>2, <2>1, <2>2, <2>3, TableInvLocal
       DEF Begin, TableInv, TypeOK, Phase, InTransaction
<1>3. ASSUME NEW c \in Client, Read(c) \/ AppendEvent(c) PROVE TableInv'
  <2>1. Rows \in Nat
    BY TableIsHistory DEF TableInv
  <2>2. CASE Read(c)
    BY <1>2, <2>1, <2>2 DEF Read
  <2>3. CASE AppendEvent(c)
    BY <1>2, <2>1, <2>3 DEF AppendEvent
  <2> QED BY <1>3, <2>2, <2>3
<1>4. ASSUME NEW c \in Client, ListRevisions(c) PROVE TableInv'
  <2>1. /\ phase'[c] = "fetch" /\ call'[c] = call[c] /\ phase[c] = "list"
        /\ listed'[c] = DOMAIN table /\ fetched'[c] = fetched[c]
        /\ UNCHANGED table /\ DOMAIN reply' = Client
    BY <1>4 DEF ListRevisions, TableInv, TypeOK
  <2>2. /\ Rows \in Nat /\ Rows' = Rows /\ listed'[c] = 1..Rows /\ fetched'[c] = <<>>
        /\ call[c].floor \in Nat /\ call[c].floor <= Rows
        /\ call[c].kind = "Read" /\ call[c] # NoCall
    BY <2>1, TableInvMeans, TableIsHistory, CallOpen DEF ClientOK, Rows
  <2>3. ClientOK(c)'
    BY <2>1, <2>2 DEF ClientOK, InTransaction
  <2>4. /\ phase' = [phase EXCEPT ![c] = phase'[c]] /\ phase'[c] \in Phase
        /\ call' = [call EXCEPT ![c] = call'[c]] /\ call'[c] \in CallRecord \cup {NoCall}
        /\ listed' = [listed EXCEPT ![c] = listed'[c]] /\ listed'[c] \in SUBSET Nat
        /\ fetched' = [fetched EXCEPT ![c] = fetched'[c]] /\ fetched'[c] \in Seq(Fact)
        /\ phase'[c] \notin InTransaction
    BY <1>4, <2>1, <2>2 DEF ListRevisions, TableInv, TypeOK, Phase, InTransaction
  <2> QED BY <2>1, <2>3, <2>4, TableInvLocal
<1>5. ASSUME NEW c \in Client, FetchRow(c) PROVE TableInv'
  <2>1. /\ phase'[c] = "fetch" /\ call'[c] = call[c] /\ phase[c] = "fetch"
        /\ listed'[c] = listed[c]
        /\ fetched'[c] = Append(fetched[c], table[Len(fetched[c]) + 1])
        /\ Len(fetched[c]) + 1 \in listed[c]
        /\ UNCHANGED table /\ DOMAIN reply' = Client
    BY <1>5 DEF FetchRow, NextRow, TableInv, TypeOK
  <2>2. PICK n \in call[c].floor..Rows :
          /\ listed[c] = 1..n
          /\ Len(fetched[c]) <= n
          /\ \A i \in 1..Len(fetched[c]) : fetched[c][i] = table[i]
    BY <2>1, TableInvMeans DEF ClientOK
  <2>3. /\ Rows \in Nat /\ Rows' = Rows /\ table \in [1..Rows -> Fact]
        /\ fetched[c] \in Seq(Fact) /\ call[c].floor \in Nat
    BY <2>1, TableIsHistory, CallOpen DEF TableInv, TypeOK, Rows
  <2>4. /\ fetched'[c] \in Seq(Fact) /\ Len(fetched'[c]) <= n
        /\ \A i \in 1..Len(fetched'[c]) : fetched'[c][i] = table[i]
    BY <2>1, <2>2, <2>3
  <2>5. ClientOK(c)'
    BY <2>1, <2>2, <2>3, <2>4, TableInvMeans DEF ClientOK, InTransaction
  <2> QED
    BY <1>5, <2>1, <2>4, <2>5, TableInvLocal
       DEF FetchRow, TableInv, TypeOK, Phase, InTransaction
\* An append on its way to its commit.
<1>6. ASSUME NEW c \in Client, NEW next, phase' = [phase EXCEPT ![c] = next],
             UNCHANGED <<table, call, listed, fetched, reply>>,
             \/ phase[c] = "begin" /\ next = "lookup"
                /\ \A d \in Client : phase[d] \notin InTransaction
             \/ phase[c] = "lookup" /\ next = "count" /\ Existing(c) = {}
             \/ phase[c] = "count" /\ next = "insert" /\ Expected(c)
             \/ phase[c] = "insert" /\ next = "commit"
      PROVE  TableInv'
  <2>1. /\ phase'[c] = next /\ call'[c] = call[c]
        /\ listed'[c] = listed[c] /\ fetched'[c] = fetched[c]
        /\ Existing(c)' = Existing(c) /\ Expected(c)' = Expected(c) /\ Rows' = Rows
    BY <1>6 DEF TableInv, TypeOK, Existing, Expected, Rows
  <2>2. ClientOK(c)'
    BY <1>6, <2>1, TableInvMeans DEF ClientOK, InTransaction
  <2> QED
    BY <1>6, <2>1, <2>2, TableInvLocal DEF TableInv, TypeOK, Phase, InTransaction
<1>7. ASSUME NEW c \in Client,
             BeginImmediate(c) \/ FindNone(c) \/ FindMatch(c) \/ Insert(c)
      PROVE  TableInv'
  BY <1>6, <1>7 DEF BeginImmediate, FindNone, FindMatch, Insert
<1>8. ASSUME NEW c \in Client,
             \/ ReturnHistory(c) \/ FindRecorded(c) \/ FindMismatch(c)
             \/ ReturnAppended(c) \/ Fail(c) \/ Crash(c)
      PROVE  TableInv'
  <2>1. Close(c) /\ DOMAIN reply' = Client
    BY <1>8 DEF ReturnHistory, FindRecorded, FindMismatch, ReturnAppended, Fail,
                Crash, Answer, TableInv, TypeOK
  <2> QED BY <2>1, TableInvClose
<1> QED
  BY <1>1, <1>3, <1>4, <1>5, <1>7, <1>8, TableInvCommit DEF Next, Step

\* A writer is alone from its look-up to its commit, and what a read has
\* fetched is the beginning of the table for good.
THEOREM TableIsKept == Spec => []TableInv
BY TableInvInit, TableInvStep, PTL DEF Spec

-----------------------------------------------------------------------------
(* The refinement *)

LEMMA RefinesInit == Init => Store!StoreInit
BY DEF Init, Store!StoreInit, AppliedCalls

LEMMA AppliedMeans ==
  ASSUME NEW c \in Client
  PROVE  AppliedCalls[c] <=> phase[c] = "committed"
BY DEF AppliedCalls

\* Closing a call is closing it in the contract.
LEMMA CloseRefines ==
  ASSUME TableInv, NEW c \in Client, Close(c)
  PROVE  Store!Closed(c)
<1>1. phase' = [phase EXCEPT ![c] = "idle"] /\ phase \in [Client -> Phase]
  BY DEF Close, Goto, TableInv, TypeOK
<1>2. AppliedCalls' = [AppliedCalls EXCEPT ![c] = FALSE]
  BY <1>1 DEF AppliedCalls
<1> QED BY <1>2 DEF Store!Closed, Close

\* An answer the contract finds truthful is an answer of the contract.
LEMMA AnswerRefines ==
  ASSUME TableInv, NEW c \in Client, phase[c] # "idle", NEW result \in Store!Result,
         Answer(c, result), Store!Truthful(c, result)
  PROVE  Store!Answer(c)
<1>1. reply' = [reply EXCEPT ![c] = result] /\ reply'[c] = result
  BY DEF Answer, TableInv, TypeOK
<1>2. call[c] # NoCall
  BY CallOpen
<1>3. Store!Closed(c)
  BY CloseRefines DEF Answer
<1> QED BY <1>1, <1>2, <1>3 DEF Store!Answer

LEMMA RefinesStep ==
  ASSUME TableInv, [Next]_vars
  PROVE  [Store!StoreNext]_(Store!storeVars)
<1>1. CASE UNCHANGED vars
  BY <1>1 DEF vars, Store!storeVars, AppliedCalls
<1>2. /\ Rows \in Nat /\ DOMAIN table = 1..Rows
      /\ table \in Seq(Fact) /\ Len(table) = Rows
  BY TableIsHistory DEF TableInv
<1>3. phase \in [Client -> Phase]
  BY DEF TableInv, TypeOK
\* Statements that commit nothing and answer nobody are not seen.
<1>4. ASSUME NEW c \in Client, NEW next, phase' = [phase EXCEPT ![c] = next],
             next # "committed", phase[c] # "committed"
      PROVE  UNCHANGED AppliedCalls
  BY <1>3, <1>4 DEF AppliedCalls
<1>5. ASSUME NEW c \in Client,
             \/ ListRevisions(c) \/ FetchRow(c) \/ BeginImmediate(c)
             \/ FindNone(c) \/ FindMatch(c) \/ Insert(c)
      PROVE  UNCHANGED Store!storeVars
  <2>1. UNCHANGED <<table, call, reply>>
    BY <1>5 DEF ListRevisions, FetchRow, BeginImmediate, FindNone, FindMatch, Insert
  <2>2. UNCHANGED AppliedCalls
    <3>1. CASE FetchRow(c)
      BY <3>1 DEF FetchRow, AppliedCalls
    <3>2. CASE ListRevisions(c)
      BY <1>4, <3>2 DEF ListRevisions, Goto
    <3>3. CASE BeginImmediate(c) \/ FindNone(c) \/ FindMatch(c) \/ Insert(c)
      BY <1>4, <3>3 DEF BeginImmediate, FindNone, FindMatch, Insert, Goto
    <3> QED BY <1>5, <3>1, <3>2, <3>3
  <2> QED BY <2>1, <2>2 DEF Store!storeVars
<1>6. ASSUME NEW c \in Client, NEW asked \in Store!ReadCall \cup Store!AppendCall,
             NEW first, Begin(c, asked, first), first # "committed", asked.floor = Rows
      PROVE  Store!Ask(c)
  <2>1. call' = [call EXCEPT ![c] = asked] /\ call'[c] = asked /\ call[c] = NoCall
    BY <1>6, TableInvMeans DEF Begin, TypeOK, ClientOK
  <2>2. UNCHANGED AppliedCalls
    BY <1>4, <1>6 DEF Begin, Goto
  <2> QED BY <1>2, <1>6, <2>1, <2>2 DEF Begin, Store!Ask
<1>7. ASSUME NEW c \in Client, Read(c) \/ AppendEvent(c) PROVE Store!Ask(c)
  <2>1. CASE Read(c)
    BY <1>2, <1>6, <2>1 DEF Read, Store!ReadCall
  <2>2. CASE AppendEvent(c)
    BY <1>2, <1>6, <2>2 DEF AppendEvent, Store!AppendCall
  <2> QED BY <1>7, <2>1, <2>2
<1>8. ASSUME NEW c \in Client, ReturnHistory(c) PROVE Store!Answer(c)
  <2>1. /\ phase[c] = "fetch" /\ call[c].kind = "Read"
        /\ Answer(c, [tag |-> "History", events |-> fetched[c]])
        /\ ~RowsLeft(c) /\ call[c].floor \in Nat /\ fetched[c] \in Seq(Fact)
    BY <1>8, TableInvMeans, CallOpen DEF ReturnHistory, ClientOK, TypeOK
  <2>2. PICK n \in call[c].floor..Rows :
          /\ listed[c] = 1..n
          /\ Len(fetched[c]) <= n
          /\ \A i \in 1..Len(fetched[c]) : fetched[c][i] = table[i]
    BY <2>1, TableInvMeans DEF ClientOK
  <2>3. n \in Nat /\ Cardinality(listed[c]) = n
    <3>1. n \in Nat
      BY <1>2, <2>1, <2>2
    <3>2. Cardinality(1..n) = n
      BY <3>1, FS_Interval
    <3> QED BY <2>2, <3>1, <3>2
  <2>4. Len(fetched[c]) = n
    BY <2>1, <2>2, <2>3 DEF RowsLeft
  <2>5. fetched[c] = SubSeq(table, 1, n)
    BY <1>2, <2>1, <2>2, <2>3, <2>4
  <2>6. Store!Truthful(c, [tag |-> "History", events |-> fetched[c]])
    BY <1>2, <2>1, <2>2, <2>5 DEF Store!Truthful
  <2> QED BY <2>1, <2>6, AnswerRefines DEF Store!Result
<1>9. ASSUME NEW c \in Client, FindRecorded(c) PROVE Store!Answer(c)
  <2>1. phase[c] = "lookup" /\ call[c].kind = "Append"
    BY <1>9, TableInvMeans DEF FindRecorded, ClientOK, InTransaction
  <2>2. PICK r \in DOMAIN table :
          /\ table[r] = call[c].fact
          /\ Answer(c, [tag |-> "AlreadyRecorded", rev |-> r])
    BY <1>9 DEF FindRecorded, Existing, SameBytes
  <2>3. Store!Truthful(c, [tag |-> "AlreadyRecorded", rev |-> r])
    BY <1>2, <2>1, <2>2, AppliedMeans DEF Store!Truthful
  <2> QED BY <1>2, <2>1, <2>2, <2>3, AnswerRefines DEF Store!Result
<1>10. ASSUME NEW c \in Client, FindMismatch(c) PROVE Store!Answer(c)
  <2>1. /\ phase[c] = "count" /\ call[c].kind = "Append"
        /\ Existing(c) = {} /\ Rows # call[c].rev
        /\ call[c].floor \in Nat /\ call[c].floor <= Rows
        /\ Answer(c, [tag |-> "RevisionMismatch", rev |-> Rows])
    BY <1>10, TableInvMeans, CallOpen DEF FindMismatch, Expected, ClientOK, InTransaction
  <2>2. ~Store!Holds(SubSeq(table, 1, Rows), call[c].fact)
    BY <1>2, <2>1 DEF Store!Holds, Existing
  <2>3. Store!Truthful(c, [tag |-> "RevisionMismatch", rev |-> Rows])
    BY <1>2, <2>1, <2>2, AppliedMeans DEF Store!Truthful
  <2> QED BY <1>2, <2>1, <2>3, AnswerRefines DEF Store!Result
<1>11. ASSUME NEW c \in Client, Commit(c) PROVE Store!Apply(c)
  <2>1. /\ phase[c] = "commit" /\ call[c].kind = "Append" /\ call[c] # NoCall
        /\ Existing(c) = {}
        /\ phase' = [phase EXCEPT ![c] = "committed"]
        /\ UNCHANGED <<call, reply>>
    BY <1>11, TableInvMeans, CallOpen DEF Commit, Goto, ClientOK, InTransaction
  <2>2. Rows = call[c].rev /\ table' = Append(table, call[c].fact)
    BY <1>11, CommitAppends
  <2>3. Store!Fits(call[c].rev, call[c].fact)
    BY <1>2, <2>1, <2>2 DEF Store!Fits, Store!Holds, Existing
  <2>4. AppliedCalls' = [AppliedCalls EXCEPT ![c] = TRUE] /\ ~AppliedCalls[c]
    BY <1>3, <2>1 DEF AppliedCalls
  <2> QED BY <2>1, <2>2, <2>3, <2>4 DEF Store!Apply
<1>12. ASSUME NEW c \in Client, ReturnAppended(c) PROVE Store!Answer(c)
  <2>1. /\ phase[c] = "committed" /\ call[c].kind = "Append" /\ call[c].rev \in Nat
        /\ Answer(c, [tag |-> "Appended", rev |-> call[c].rev + 1])
    BY <1>12, TableInvMeans, CallOpen DEF ReturnAppended, ClientOK
  <2>2. Store!Truthful(c, [tag |-> "Appended", rev |-> call[c].rev + 1])
    BY <2>1, AppliedMeans DEF Store!Truthful
  <2> QED BY <2>1, <2>2, AnswerRefines DEF Store!Result
<1>13. ASSUME NEW c \in Client, Fail(c) PROVE Store!Answer(c)
  <2>1. /\ phase[c] \notin {"idle", "committed"}
        /\ Answer(c, [tag |-> "Failed"])
    BY <1>13 DEF Fail
  <2>2. Store!Truthful(c, [tag |-> "Failed"])
    BY <2>1, AppliedMeans DEF Store!Truthful
  <2> QED BY <2>1, <2>2, AnswerRefines DEF Store!Result
<1>14. ASSUME NEW c \in Client, Crash(c) PROVE Store!Abandon(c)
  BY <1>14, CallOpen, CloseRefines DEF Crash, Store!Abandon
<1>15. ASSUME NEW c \in Client, Step(c)
       PROVE  UNCHANGED Store!storeVars \/ Store!Answer(c) \/ Store!Apply(c)
  BY <1>5, <1>8, <1>9, <1>10, <1>11, <1>12, <1>13, <1>15 DEF Step
<1> QED
  BY <1>1, <1>7, <1>14, <1>15 DEF Next, Store!StoreNext

\* The SQLite journal is a journal store: reads assembled from many statements
\* are histories the table had, and an event is recorded once, where expected.
THEOREM SqliteImplementsStore == Spec => ImplementsStore
BY RefinesInit, RefinesStep, TableIsKept, PTL
   DEF Spec, ImplementsStore, Store!StoreSpec
=============================================================================
