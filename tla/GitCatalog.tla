------------------------------- MODULE GitCatalog -------------------------------
(***************************************************************************)
(* Updating files on a branch other people push to: a commit is built on a *)
(* captured base, verified again before it is sent, and pushed conditional *)
(* on that base, as often as it takes.                                     *)
(* packages/ts-release/src/internal/GitCatalog.ts and GitAuthority.ts with *)
(* platform/GitHost.ts, GitObjects.ts and GitRemote.ts.                    *)
(*                                                                         *)
(* A commit is the sequence of its ancestors and itself; identities, dates *)
(* and messages are part of the input, so one input makes one commit, and  *)
(* by tells it from commits other people make.  A tree maps the full paths *)
(* of files to their blobs; directories are the paths that are prefixes.   *)
(***************************************************************************)
EXTENDS Naturals, Sequences

CONSTANTS
  Author,      \* the processes that publish
  Path, Blob, NoEntry,
  Nested,      \* pairs of paths, the first a directory above the second
  Trees,       \* the trees that exist
  Edits,       \* what an update writes: nonempty partial maps of paths to blobs
  NoIntent,
  MaxLength,   \* bound: the longest ancestry
  MaxForeign   \* bound: how often other people move the branch

Tree == [Path -> Blob \cup {NoEntry}]
Commit == Seq([tree : Tree, by : {"release", "others"}])
NoRef == <<>>

\* An update: the commit it replaces, the one it makes, the files it manages.
Intent == [old : Commit \ {NoRef}, new : Commit \ {NoRef}, files : Edits]

\* No path is a file and a directory.
Sound(tree) == \A pair \in Nested : tree[pair[1]] = NoEntry \/ tree[pair[2]] = NoEntry

ASSUME GitCatalogAssumption ==
  /\ Nested \subseteq Path \X Path
  /\ Trees \subseteq Tree /\ \A tree \in Trees : Sound(tree)
  /\ \A files \in Edits : \E S \in SUBSET Path : files \in [S -> Blob]
  /\ NoIntent \notin Intent
  /\ MaxLength \in Nat /\ MaxForeign \in Nat

VARIABLES
  remote,     \* what the branch names
  phase,      \* where each author is
  base,       \* the commit it captured
  intent,     \* its update, which its plan keeps
  abandoned,  \* updates sent by commands that were killed
  foreign,    \* how often other people moved the branch
  held,       \* every commit the branch named, for the properties only
  spent       \* updates that took effect and were not undone since, likewise

vars == <<remote, phase, base, intent, abandoned, foreign, held, spent>>

Phase == {"idle", "captured", "planned", "prepared", "sent", "updated", "refused",
          "unknown", "accepted"}

Init ==
  /\ \E tree \in Trees : remote = <<[tree |-> tree, by |-> "others"]>>
  /\ phase = [p \in Author |-> "idle"]
  /\ base = [p \in Author |-> NoRef]
  /\ intent = [p \in Author |-> NoIntent]
  /\ abandoned = {}
  /\ foreign = 0
  /\ held = {remote}
  /\ spent = {}

Goto(p, next) == phase' = [phase EXCEPT ![p] = next]

TreeOf(commit) == commit[Len(commit)].tree
ParentOf(commit) == SubSeq(commit, 1, Len(commit) - 1)

\* The branch names another commit.
Move(commit) ==
  /\ remote' = commit
  /\ held' = held \cup {commit}

-----------------------------------------------------------------------------
(* Building an update *)

\* captureBase: the branch is fetched and must name the commit expected.
CaptureBase(p) ==
  /\ phase[p] = "idle"
  /\ remote # NoRef
  /\ base' = [base EXCEPT ![p] = remote]
  /\ Goto(p, "captured")
  /\ UNCHANGED <<remote, intent, abandoned, foreign, held, spent>>

\* A file replaces no directory, and no directory a file.
Fits(tree, files) ==
  \A f \in DOMAIN files, q \in Path :
    <<f, q>> \in Nested \/ <<q, f>> \in Nested => tree[q] = NoEntry

Written(tree, files) ==
  [q \in Path |-> IF q \in DOMAIN files THEN files[q] ELSE tree[q]]

\* construct: the files are written over the base's tree.
ConstructCommit(p) ==
  /\ phase[p] = "captured" /\ Len(base[p]) < MaxLength
  /\ \E files \in Edits :
       /\ Fits(TreeOf(base[p]), files)
       /\ intent' = [intent EXCEPT ![p] =
            [old |-> base[p], files |-> files,
             new |-> Append(base[p], [tree |-> Written(TreeOf(base[p]), files),
                                      by |-> "release"])]]
  /\ base' = [base EXCEPT ![p] = NoRef]
  /\ Goto(p, "planned")
  /\ UNCHANGED <<remote, abandoned, foreign, held, spent>>

\* The plan was authored elsewhere, from any objects at all.
AdoptPlan(p) ==
  /\ phase[p] = "idle"
  /\ \E old \in held \ {NoRef}, files \in Edits :
     \E new \in (held \ {NoRef})
                  \cup {Append(old, [tree |-> tree, by |-> "release"]) : tree \in Trees} :
       /\ Len(new) <= MaxLength
       /\ intent' = [intent EXCEPT ![p] = [old |-> old, new |-> new, files |-> files]]
  /\ Goto(p, "planned")
  /\ UNCHANGED <<remote, base, abandoned, foreign, held, spent>>

-----------------------------------------------------------------------------
(* Sending it *)

ChildOf(old, new) == new # NoRef /\ ParentOf(new) = old

\* Mutant: only the files of the update are looked at.
AnythingKept(old, new, files) == TRUE

UnmanagedKept(old, new, files) ==
  \A q \in Path \ DOMAIN files : TreeOf(new)[q] = TreeOf(old)[q]

ManagedWritten(new, files) == \A q \in DOMAIN files : TreeOf(new)[q] = files[q]

\* verifyManagedCommit, over the objects the intent names.
Verified(i) ==
  /\ ChildOf(i.old, i.new)
  /\ UnmanagedKept(i.old, i.new, i.files)
  /\ ManagedWritten(i.new, i.files)

\* Before every send, and before its start is recorded.
PreparePush(p) ==
  /\ phase[p] = "planned"
  /\ Verified(intent[p])
  /\ Goto(p, "prepared")
  /\ UNCHANGED <<remote, base, intent, abandoned, foreign, held, spent>>

\* git push compares with what the remote advertises when it connects: nothing to
\* do, the lease does not hold, or the update is sent.
Connect(p) ==
  /\ phase[p] = "prepared"
  /\ Goto(p, IF remote = intent[p].new THEN "accepted"
               ELSE IF remote = intent[p].old THEN "sent" ELSE "refused")
  /\ UNCHANGED <<remote, base, intent, abandoned, foreign, held, spent>>

\* Mutant: a push without the lease.
Forced(old) == TRUE

\* The server compares again under the lock of the ref.
Leased(old) == remote = old

TakeEffect(i) ==
  /\ Leased(i.old)
  /\ Move(i.new)
  /\ spent' = (spent \cup {i.new}) \ {new \in spent : ParentOf(new) = i.new}

ReceiveUpdate(p) ==
  /\ phase[p] = "sent"
  /\ \/ TakeEffect(intent[p]) /\ Goto(p, "updated")
     \/ ~Leased(intent[p].old) /\ Goto(p, "refused") /\ UNCHANGED <<remote, held, spent>>
  /\ UNCHANGED <<base, intent, abandoned, foreign>>

\* Mutant: the exit code and the status line are not looked at.
Confirmed(p) == phase[p] \in {"updated", "refused"}

\* The status line of exactly this update.
Witnessed(p) == phase[p] = "updated"

PushWitness(p) ==
  /\ Witnessed(p)
  /\ Goto(p, "accepted")
  /\ UNCHANGED <<remote, base, intent, abandoned, foreign, held, spent>>

\* No witness: the push was refused or failed, its deadline killed it, or the
\* process died.  What was sent is not called back.
PushUnknown(p) ==
  /\ phase[p] \in {"prepared", "sent", "updated", "refused"}
  /\ abandoned' = IF phase[p] = "sent" THEN abandoned \cup {intent[p]} ELSE abandoned
  /\ Goto(p, "unknown")
  /\ UNCHANGED <<remote, base, intent, foreign, held, spent>>

ReceiveAbandoned(i) ==
  /\ i \in abandoned
  /\ abandoned' = abandoned \ {i}
  /\ \/ TakeEffect(i)
     \/ ~Leased(i.old) /\ UNCHANGED <<remote, held, spent>>
  /\ UNCHANGED <<phase, base, intent, foreign>>

\* observe: the branch names the commit, so nothing more is sent.
ObserveSatisfied(p) ==
  /\ phase[p] \in {"planned", "unknown"}
  /\ remote = intent[p].new
  /\ Goto(p, "accepted")
  /\ UNCHANGED <<remote, base, intent, abandoned, foreign, held, spent>>

\* A protected replay: whatever became of the last push, the same one again.
SendAgain(p) ==
  /\ phase[p] = "unknown"
  /\ Goto(p, "planned")
  /\ UNCHANGED <<remote, base, intent, abandoned, foreign, held, spent>>

\* The update is done or given up.
Leave(p) ==
  /\ phase[p] \in {"captured", "planned", "unknown", "accepted"}
  /\ Goto(p, "idle")
  /\ base' = [base EXCEPT ![p] = NoRef]
  /\ intent' = [intent EXCEPT ![p] = NoIntent]
  /\ UNCHANGED <<remote, abandoned, foreign, held, spent>>

-----------------------------------------------------------------------------
(* Other people push to the branch, put it back, or delete it. *)
Others ==
  /\ foreign < MaxForeign
  /\ \E commit \in held \cup {NoRef}
                     \cup {Append(remote, [tree |-> tree, by |-> "others"]) : tree \in Trees} :
       /\ commit # remote /\ Len(commit) <= MaxLength
       /\ Move(commit)
       /\ spent' = {new \in spent : ParentOf(new) # commit}
  /\ foreign' = foreign + 1
  /\ UNCHANGED <<phase, base, intent, abandoned>>

Step(p) ==
  \/ CaptureBase(p) \/ ConstructCommit(p) \/ AdoptPlan(p) \/ PreparePush(p)
  \/ Connect(p) \/ ReceiveUpdate(p) \/ PushWitness(p) \/ PushUnknown(p)
  \/ ObserveSatisfied(p) \/ SendAgain(p) \/ Leave(p)

Next ==
  \/ \E p \in Author : Step(p)
  \/ \E i \in abandoned : ReceiveAbandoned(i)
  \/ Others

Spec == Init /\ [][Next]_vars

-----------------------------------------------------------------------------
(* What an update promises *)

Updates == remote' # remote /\ foreign' = foreign

CarriesOut(i) ==
  /\ i # NoIntent
  /\ remote = i.old /\ remote' = i.new
  /\ ChildOf(remote, remote')
  /\ TreeOf(remote') = Written(TreeOf(remote), i.files)

\* Whatever moves the branch on behalf of a release adds one commit to what the
\* branch names and changes no file but the ones the update manages, however old
\* the plan, however late the push, and whoever pushed meanwhile.
OthersContentKept ==
  [][Updates => \E i \in {intent[p] : p \in Author} \cup abandoned : CarriesOut(i)]_vars

\* Sending one update again and again, and having lost pushes arrive late, has one
\* effect for each time its base was put on the branch: what the kernel's replay of
\* unresolved dispatches relies on (Decision.ts:26).
ReplayHarmless == [][Updates => remote' \notin spent]_vars

\* A receipt, or an observation, that satisfies an update is of a commit the branch
\* named.
ReceiptsTrue == \A p \in Author : phase[p] = "accepted" => intent[p].new \in held

-----------------------------------------------------------------------------
(* Why: the inductive invariant of the proof.                              *)

TypeOK ==
  /\ remote \in Commit
  /\ phase \in [Author -> Phase]
  /\ base \in [Author -> Commit]
  /\ intent \in [Author -> Intent \cup {NoIntent}]
  /\ abandoned \subseteq Intent
  /\ foreign \in Nat
  /\ held \subseteq Commit

\* What is sent was verified, by calls under way and by those that were killed.
SentVerified ==
  /\ \A p \in Author :
       /\ phase[p] \notin {"idle", "captured"} => intent[p] # NoIntent
       /\ phase[p] = "captured" => base[p] # NoRef
       /\ phase[p] \in {"prepared", "sent"} => Verified(intent[p])
       /\ phase[p] \in {"updated", "accepted"} => intent[p].new \in held
  /\ \A i \in abandoned : Verified(i)

\* The base of an update that took effect and was not undone is not on the branch.
BasesGone ==
  /\ remote \in held
  /\ \A new \in spent : ParentOf(new) # remote

CatalogInv == TypeOK /\ SentVerified /\ BasesGone
=============================================================================
