------------------------------ MODULE SqliteJournal ------------------------------
(***************************************************************************)
(* The journal as a table of a SQLite file that several processes open:    *)
(* packages/ts-release/src/platform/SqliteJournal.ts.  A read is one       *)
(* statement that lists the revisions and one more per row, outside any    *)
(* transaction; an append is one immediate transaction.  Readers see what  *)
(* is committed, beside a writer (the database is in WAL mode).            *)
(*                                                                         *)
(* The primary key makes the table a function of the revision.  The rows   *)
(* of other journals in the same file are not modelled.                    *)
(***************************************************************************)
EXTENDS Naturals, Sequences, FiniteSets

CONSTANTS
  Client,       \* the processes, one connection and one call at a time each
  Fact, IdOf, NoCall, NoReply,
  MaxRevision   \* bound: the highest revision a caller expects

\* A call remembers, for the properties only, how long the history was.
CallRecord ==
  [kind : {"Read"}, floor : Nat]
    \cup [kind : {"Append"}, rev : Nat, fact : Fact, floor : Nat]

ASSUME SqliteJournalAssumption ==
  /\ NoCall \notin CallRecord
  /\ MaxRevision \in Nat

VARIABLES
  table,    \* the committed rows: revision -> event
  call,     \* the open call of each client
  phase,    \* the statement it is at
  listed,   \* the revisions its read has listed
  fetched,  \* the events it has fetched of them
  reply     \* its last answer

vars == <<table, call, phase, listed, fetched, reply>>

\* BEGIN IMMEDIATE takes the write lock, the end of the transaction returns it.
InTransaction == {"lookup", "count", "insert", "commit"}
Phase == {"idle", "list", "fetch", "begin", "committed"} \cup InTransaction

Init ==
  /\ table = <<>>
  /\ call = [c \in Client |-> NoCall]
  /\ phase = [c \in Client |-> "idle"]
  /\ listed = [c \in Client |-> {}]
  /\ fetched = [c \in Client |-> <<>>]
  /\ reply = [c \in Client |-> NoReply]

Goto(c, next) == phase' = [phase EXCEPT ![c] = next]

Close(c) ==
  /\ Goto(c, "idle")
  /\ call' = [call EXCEPT ![c] = NoCall]
  /\ listed' = [listed EXCEPT ![c] = {}]
  /\ fetched' = [fetched EXCEPT ![c] = <<>>]
  /\ UNCHANGED table

Answer(c, result) == Close(c) /\ reply' = [reply EXCEPT ![c] = result]

Begin(c, asked, first) ==
  /\ phase[c] = "idle"
  /\ call' = [call EXCEPT ![c] = asked]
  /\ Goto(c, first)
  /\ reply' = [reply EXCEPT ![c] = NoReply]
  /\ UNCHANGED <<table, listed, fetched>>

Rows == Cardinality(DOMAIN table)

-----------------------------------------------------------------------------
(* read *)

Read(c) == Begin(c, [kind |-> "Read", floor |-> Rows], "list")

ListRevisions(c) ==
  /\ phase[c] = "list"
  /\ listed' = [listed EXCEPT ![c] = DOMAIN table]
  /\ Goto(c, "fetch")
  /\ UNCHANGED <<table, call, fetched, reply>>

\* The position of the next row, which must be its revision.
NextRow(c) == Len(fetched[c]) + 1
RowsLeft(c) == Len(fetched[c]) < Cardinality(listed[c])

FetchRow(c) ==
  /\ phase[c] = "fetch" /\ RowsLeft(c)
  /\ NextRow(c) \in listed[c]
  /\ fetched' = [fetched EXCEPT ![c] = Append(@, table[NextRow(c)])]
  /\ UNCHANGED <<table, call, phase, listed, reply>>

ReturnHistory(c) ==
  /\ phase[c] = "fetch" /\ ~RowsLeft(c)
  /\ Answer(c, [tag |-> "History", events |-> fetched[c]])

-----------------------------------------------------------------------------
(* append *)

AppendEvent(c) ==
  \E rev \in 0..MaxRevision, fact \in Fact :
    Begin(c, [kind |-> "Append", rev |-> rev, fact |-> fact, floor |-> Rows],
          "begin")

BeginImmediate(c) ==
  /\ phase[c] = "begin"
  /\ \A d \in Client : phase[d] \notin InTransaction
  /\ Goto(c, "lookup")
  /\ UNCHANGED <<table, call, listed, fetched, reply>>

Existing(c) == {r \in DOMAIN table : IdOf[table[r]] = IdOf[call[c].fact]}

\* Mutant: an identity found is taken for the event.
SameIdentity(c, r) == TRUE

SameBytes(c, r) == table[r] = call[c].fact

\* Different facts under the same identity fail the call.
FindRecorded(c) ==
  /\ phase[c] = "lookup"
  /\ \E r \in Existing(c) :
       /\ SameBytes(c, r)
       /\ Answer(c, [tag |-> "AlreadyRecorded", rev |-> r])

FindNone(c) ==
  /\ phase[c] = "lookup" /\ Existing(c) = {}
  /\ Goto(c, "count")
  /\ UNCHANGED <<table, call, listed, fetched, reply>>

\* Mutant: only a revision that is already taken is refused.
NotTaken(c) == Rows <= call[c].rev

Expected(c) == Rows = call[c].rev

FindMismatch(c) ==
  /\ phase[c] = "count" /\ ~Expected(c)
  /\ Answer(c, [tag |-> "RevisionMismatch", rev |-> Rows])

FindMatch(c) ==
  /\ phase[c] = "count" /\ Expected(c)
  /\ Goto(c, "insert")
  /\ UNCHANGED <<table, call, listed, fetched, reply>>

\* The keys of the table refuse a second row for a revision or an event.
Insert(c) ==
  /\ phase[c] = "insert"
  /\ call[c].rev + 1 \notin DOMAIN table /\ Existing(c) = {}
  /\ Goto(c, "commit")
  /\ UNCHANGED <<table, call, listed, fetched, reply>>

\* The row is durable and visible to the others from here.
Commit(c) ==
  /\ phase[c] = "commit"
  /\ table' = [r \in DOMAIN table \cup {call[c].rev + 1} |->
                 IF r = call[c].rev + 1 THEN call[c].fact ELSE table[r]]
  /\ Goto(c, "committed")
  /\ UNCHANGED <<call, listed, fetched, reply>>

ReturnAppended(c) ==
  /\ phase[c] = "committed"
  /\ Answer(c, [tag |-> "Appended", rev |-> call[c].rev + 1])

\* A statement fails (the busy timeout, a full disk), a listed revision leaves
\* a gap, or an event is not what was looked up; a transaction is rolled back.
Fail(c) ==
  /\ phase[c] \notin {"idle", "committed"}
  /\ Answer(c, [tag |-> "Failed"])

\* The process dies; the next connection rolls its transaction back.
Crash(c) ==
  /\ phase[c] # "idle"
  /\ Close(c)
  /\ UNCHANGED reply

-----------------------------------------------------------------------------
Step(c) ==
  \/ ListRevisions(c) \/ FetchRow(c) \/ ReturnHistory(c)
  \/ BeginImmediate(c) \/ FindRecorded(c) \/ FindNone(c)
  \/ FindMismatch(c) \/ FindMatch(c) \/ Insert(c) \/ Commit(c)
  \/ ReturnAppended(c) \/ Fail(c)

Next == \E c \in Client : Read(c) \/ AppendEvent(c) \/ Step(c) \/ Crash(c)

Spec == Init /\ [][Next]_vars

-----------------------------------------------------------------------------
(* What the SQLite journal promises *)

AppliedCalls == [c \in Client |-> phase[c] = "committed"]

\* The same contract as the Git journal's, without anything left behind: a read
\* assembled from many statements is a history the table had while the call was
\* open, and an event is recorded once, at the revision expected.
Store ==
  INSTANCE JournalStore WITH
    log <- table, applied <- AppliedCalls, inflight <- {}

ImplementsStore == Store!StoreSpec

TypeOK ==
  /\ table \in [1..Rows -> Fact]
  /\ IsFiniteSet(DOMAIN table)
  /\ call \in [Client -> CallRecord \cup {NoCall}]
  /\ phase \in [Client -> Phase]
  /\ listed \in [Client -> SUBSET Nat]
  /\ fetched \in [Client -> Seq(Fact)]
  /\ DOMAIN reply = Client

\* A writer is alone from its first look at the table to its commit, so what it
\* looked up and counted still holds when its row appears.
WritersApart ==
  /\ \A c, d \in Client :
       phase[c] \in InTransaction /\ phase[d] \in InTransaction => c = d
  /\ \A c \in Client :
       /\ phase[c] \in {"count", "insert", "commit"} => Existing(c) = {}
       /\ phase[c] \in {"insert", "commit"} => Expected(c)

\* What a read has listed and fetched is the beginning of the table for good.
ReadersBehind ==
  \A c \in Client :
    /\ phase[c] = "idle" <=> call[c] = NoCall
    /\ phase[c] # "idle" => call[c].floor <= Rows
    /\ phase[c] \in {"list", "fetch"} => call[c].kind = "Read"
    /\ phase[c] \in {"begin", "committed"} \cup InTransaction =>
         call[c].kind = "Append"
    /\ phase[c] # "fetch" => listed[c] = {} /\ fetched[c] = <<>>
    /\ phase[c] = "fetch" =>
         \E n \in call[c].floor..Rows :
           /\ listed[c] = 1..n
           /\ Len(fetched[c]) <= n
           /\ \A i \in 1..Len(fetched[c]) : fetched[c][i] = table[i]

\* The invariant behind the contract.  Among other things the revisions are
\* contiguous, so no read is ever refused for a gap.
TableInv == TypeOK /\ WritersApart /\ ReadersBehind
=============================================================================
