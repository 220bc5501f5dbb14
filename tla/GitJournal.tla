------------------------------- MODULE GitJournal -------------------------------
(***************************************************************************)
(* The journal as a branch of a Git remote: one commit per event, each     *)
(* holding one event.json, and an append is a push conditional on the head *)
(* it was built on.  packages/ts-release/src/platform/GitJournal.ts with   *)
(* GitRemote.ts and the push of internal/GitAuthority.ts.                  *)
(*                                                                         *)
(* The tree holds one event and the author, the dates and the message of a *)
(* commit are constant, so its name follows from the event and the parent: *)
(* a commit is the sequence of events it ends, and no ref is the empty one.*)
(***************************************************************************)
EXTENDS Naturals, Sequences

CONSTANTS
  Client, Fact, IdOf, NoCall, NoReply,
  SizeOf,       \* Fact -> its bytes
  Limit,        \* maximumOutputBytes
  MaxRevision   \* bound: the highest revision a caller expects

\* A call remembers, for the properties only, how long the history was.
CallRecord ==
  [kind : {"Read"}, floor : Nat]
    \cup [kind : {"Append"}, rev : Nat, fact : Fact, floor : Nat]

ASSUME GitJournalAssumption ==
  /\ NoCall \notin CallRecord
  /\ SizeOf \in [Fact -> Nat]
  /\ Limit \in Nat /\ MaxRevision \in Nat

VARIABLES
  remote,     \* what the ref names at the remote
  call,       \* the open call of each client
  phase,      \* the Git command it is at
  head,       \* the history its repository fetched
  abandoned,  \* ref updates sent by commands that were killed
  reply       \* its last answer

vars == <<remote, call, phase, head, abandoned, reply>>

Phase ==
  {"idle", "ls-remote", "fetch", "snapshot", "push", "sent", "updated", "refused"}

Bytes(history) ==
  LET total[n \in 0..Len(history)] ==
        IF n = 0 THEN 0 ELSE total[n - 1] + SizeOf[history[n]]
  IN total[Len(history)]

Positions(history, fact) ==
  {i \in DOMAIN history : IdOf[history[i]] = IdOf[fact]}

Init ==
  /\ remote = <<>> /\ abandoned = {}
  /\ call = [c \in Client |-> NoCall]
  /\ phase = [c \in Client |-> "idle"]
  /\ head = [c \in Client |-> <<>>]
  /\ reply = [c \in Client |-> NoReply]

Goto(c, next) == phase' = [phase EXCEPT ![c] = next]

\* Closing the scratch repository forgets what it fetched.
Close(c) ==
  /\ Goto(c, "idle")
  /\ call' = [call EXCEPT ![c] = NoCall]
  /\ head' = [head EXCEPT ![c] = <<>>]

Answer(c, result) ==
  /\ Close(c)
  /\ reply' = [reply EXCEPT ![c] = result]
  /\ UNCHANGED remote

-----------------------------------------------------------------------------
(* Calls *)

Begin(c, asked) ==
  /\ phase[c] = "idle"
  /\ call' = [call EXCEPT ![c] = asked]
  /\ Goto(c, "ls-remote")
  /\ reply' = [reply EXCEPT ![c] = NoReply]
  /\ UNCHANGED <<remote, head, abandoned>>

Read(c) == Begin(c, [kind |-> "Read", floor |-> Len(remote)])

AppendEvent(c) ==
  \E rev \in 0..MaxRevision, fact \in Fact :
    Begin(c, [kind |-> "Append", rev |-> rev, fact |-> fact,
              floor |-> Len(remote)])

-----------------------------------------------------------------------------
(* snapshot: the ref is listed, then fetched, by two commands. *)

\* An unborn ref is an empty history and is not fetched.
RemoteRef(c) ==
  /\ phase[c] = "ls-remote"
  /\ Goto(c, IF remote = <<>> THEN "snapshot" ELSE "fetch")
  /\ UNCHANGED <<remote, call, head, abandoned, reply>>

\* The fetch takes whatever the ref names by now.
FetchRef(c) ==
  /\ phase[c] = "fetch"
  /\ Goto(c, "snapshot")
  /\ head' = [head EXCEPT ![c] = remote]
  /\ UNCHANGED <<remote, call, abandoned, reply>>

Readable(history) == Bytes(history) <= Limit

ReturnHistory(c) ==
  /\ phase[c] = "snapshot" /\ call[c].kind = "Read"
  /\ Readable(head[c])
  /\ Answer(c, [tag |-> "History", events |-> head[c]])
  /\ UNCHANGED abandoned

\* Any command before the push may fail, and so may the walk over a history
\* larger than the limit.
Fail(c) ==
  /\ phase[c] \in {"ls-remote", "fetch", "snapshot"}
  /\ Answer(c, [tag |-> "Failed"])
  /\ UNCHANGED abandoned

-----------------------------------------------------------------------------
(* append, from the snapshot on *)

Appending(c) ==
  /\ phase[c] = "snapshot" /\ call[c].kind = "Append"
  /\ Readable(head[c])

\* The event is there.  Different facts under its identity fail the call.
FindRecorded(c) ==
  /\ Appending(c)
  /\ \E i \in Positions(head[c], call[c].fact) :
       /\ head[c][i] = call[c].fact
       /\ Answer(c, [tag |-> "AlreadyRecorded", rev |-> i])
  /\ UNCHANGED abandoned

FindMismatch(c) ==
  /\ Appending(c)
  /\ Positions(head[c], call[c].fact) = {}
  /\ Len(head[c]) # call[c].rev
  /\ Answer(c, [tag |-> "RevisionMismatch", rev |-> Len(head[c])])
  /\ UNCHANGED abandoned

\* Mutant: the limit holds for events, not for the history.
FitsAlone(c) == SizeOf[call[c].fact] <= Limit

\* A history that would be too long to read again is not written.
FitsLimit(c) == Bytes(head[c]) + SizeOf[call[c].fact] <= Limit

\* hash-object, mktree and commit-tree make the commit in the scratch
\* repository; nothing leaves it before the push.
MakeCommit(c) ==
  /\ Appending(c)
  /\ Positions(head[c], call[c].fact) = {}
  /\ Len(head[c]) = call[c].rev
  /\ FitsLimit(c)
  /\ Goto(c, "push")
  /\ UNCHANGED <<remote, call, head, abandoned, reply>>

Commit(c) == Append(head[c], call[c].fact)

\* git push compares with what the remote advertises when it connects.  The
\* same commit is there already: this event, on this head, pushed before.
PushUpToDate(c) ==
  /\ phase[c] = "push" /\ remote = Commit(c)
  /\ Answer(c, [tag |-> "AlreadyRecorded", rev |-> call[c].rev + 1])
  /\ UNCHANGED abandoned

\* The lease names the head the commit was built on.
PushConnect(c) ==
  /\ phase[c] = "push" /\ remote # Commit(c)
  /\ Goto(c, IF remote = head[c] THEN "sent" ELSE "refused")
  /\ UNCHANGED <<remote, call, head, abandoned, reply>>

\* Mutant: a push without the lease.
Forced(old) == TRUE

\* The server compares again under the lock of the ref.
Leased(old) == remote = old

ReceiveUpdate(c) ==
  /\ phase[c] = "sent"
  /\ \/ /\ Leased(head[c])
        /\ remote' = Commit(c)
        /\ Goto(c, "updated")
     \/ /\ ~Leased(head[c])
        /\ Goto(c, "refused")
        /\ UNCHANGED remote
  /\ UNCHANGED <<call, head, abandoned, reply>>

\* The status line of exactly this update is the only witness of an append.
PushWitness(c) ==
  /\ phase[c] = "updated"
  /\ Answer(c, [tag |-> "Appended", rev |-> call[c].rev + 1])
  /\ UNCHANGED abandoned

Update(c) == [old |-> head[c], fact |-> call[c].fact]

\* What was sent is not called back.
Abandoned(c) ==
  abandoned' = IF phase[c] = "sent" THEN abandoned \cup {Update(c)} ELSE abandoned

\* No witness: the push was refused or failed, or its deadline killed it.
PushWithoutWitness(c) ==
  /\ phase[c] \in {"push", "sent", "updated", "refused"}
  /\ Answer(c, [tag |-> "Ambiguous"])
  /\ Abandoned(c)

\* The process, or the effect that runs the call, is interrupted.
Crash(c) ==
  /\ phase[c] # "idle"
  /\ Close(c)
  /\ Abandoned(c)
  /\ UNCHANGED <<remote, reply>>

ReceiveAbandoned(x) ==
  /\ x \in abandoned
  /\ abandoned' = abandoned \ {x}
  /\ remote' = IF Leased(x.old) THEN Append(x.old, x.fact) ELSE remote
  /\ UNCHANGED <<call, phase, head, reply>>

-----------------------------------------------------------------------------
Step(c) ==
  \/ RemoteRef(c) \/ FetchRef(c) \/ ReturnHistory(c) \/ Fail(c)
  \/ FindRecorded(c) \/ FindMismatch(c) \/ MakeCommit(c)
  \/ PushUpToDate(c) \/ PushConnect(c) \/ ReceiveUpdate(c)
  \/ PushWitness(c) \/ PushWithoutWitness(c)

Next ==
  \/ \E c \in Client : Read(c) \/ AppendEvent(c) \/ Step(c) \/ Crash(c)
  \/ \E x \in abandoned : ReceiveAbandoned(x)

Spec == Init /\ [][Next]_vars

-----------------------------------------------------------------------------
(* What the Git journal promises *)

\* The calls whose push has taken effect, and the appends that still may.
AppliedCalls == [c \in Client |-> phase[c] = "updated"]
LateAppends == {[rev |-> Len(x.old), fact |-> x.fact] : x \in abandoned}

\* The journal's contract: a push is an append only on the revision expected,
\* an answer is true of a history the ref had while the call was open, and only
\* one call is told that it appended an event, however late pushes arrive.
Store ==
  INSTANCE JournalStore WITH
    log <- remote, applied <- AppliedCalls, inflight <- LateAppends

ImplementsStore == Store!StoreSpec

\* No history grows past what a later snapshot may read, so the journal never
\* locks its own readers out, whichever pushes race or arrive late.
StaysReadable == Readable(remote)

-----------------------------------------------------------------------------
(* Why it keeps the contract: the inductive invariant of the proof.        *)

TypeOK ==
  /\ remote \in Seq(Fact)
  /\ call \in [Client -> CallRecord \cup {NoCall}]
  /\ phase \in [Client -> Phase]
  /\ head \in [Client -> Seq(Fact)]
  /\ abandoned \subseteq [old : Seq(Fact), fact : Fact]

Prefix(h, history) ==
  Len(h) <= Len(history) /\ \A i \in 1..Len(h) : h[i] = history[i]

\* Every head a commit was built on, by a call or by a push that was given up,
\* is still the beginning of what the ref names, and lacks the event.
Fresh(old, fact) == Prefix(old, remote) /\ Positions(old, fact) = {}

BuiltOnHistory ==
  /\ \A c \in Client :
       /\ phase[c] = "idle" <=> call[c] = NoCall
       /\ phase[c] # "idle" => call[c].floor <= Len(remote)
       /\ phase[c] = "snapshot" =>
            Prefix(head[c], remote) /\ call[c].floor <= Len(head[c])
       /\ phase[c] \in {"push", "sent", "updated", "refused"} =>
            /\ call[c].kind = "Append" /\ Len(head[c]) = call[c].rev
            /\ Fresh(head[c], call[c].fact)
       /\ phase[c] \in {"idle", "ls-remote", "fetch"} => head[c] = <<>>
  /\ \A x \in abandoned : Fresh(x.old, x.fact)

StoreInv == TypeOK /\ BuiltOnHistory

\* A commit was checked against the limit on the head it extends, and only that
\* head may it replace: so what a push leaves, whenever it arrives, fits.
PushesFit ==
  /\ \A c \in Client :
       phase[c] \in {"push", "sent", "updated", "refused"} => FitsLimit(c)
  /\ \A x \in abandoned : Bytes(x.old) + SizeOf[x.fact] <= Limit

ReadableInv == StoreInv /\ PushesFit /\ StaysReadable
=============================================================================
