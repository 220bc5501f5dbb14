---------------------------- MODULE GitCatalogProofs ----------------------------
(***************************************************************************)
(* Updates keep what other people wrote and may be replayed, for any       *)
(* number of authors, paths, edits and updates.                            *)
(***************************************************************************)
EXTENDS GitCatalog, TLAPS

USE GitCatalogAssumption

LEMMA LastElement ==
  ASSUME NEW S, NEW s \in Seq(S), s # <<>>
  PROVE  s[Len(s)] \in S
OBVIOUS

LEMMA NoRefIsCommit == NoRef \in Commit
BY DEF NoRef, Commit

LEMMA TreesOfCommits ==
  ASSUME NEW commit \in Commit \ {NoRef}
  PROVE  TreeOf(commit) \in Tree /\ Len(commit) \in Nat \ {0}
<1>1. commit \in Seq([tree : Tree, by : {"release", "others"}]) /\ commit # <<>>
  BY DEF Commit, NoRef
<1>2. Len(commit) \in Nat \ {0}
  BY <1>1
<1>3. commit[Len(commit)] \in [tree : Tree, by : {"release", "others"}]
  BY <1>1, LastElement
<1> QED BY <1>2, <1>3 DEF TreeOf

\* A commit is not its own parent.
LEMMA ParentDiffers ==
  ASSUME NEW commit \in Commit \ {NoRef}
  PROVE  ParentOf(commit) # commit
<1>1. Len(commit) \in Nat \ {0} /\ commit \in Seq([tree : Tree, by : {"release", "others"}])
  BY TreesOfCommits DEF Commit
<1> DEFINE n == Len(commit) - 1
<1>2. n \in Nat /\ n # Len(commit)
  BY <1>1
<1>3. DOMAIN SubSeq(commit, 1, n) = 1 .. n /\ DOMAIN commit = 1 .. Len(commit)
  <2>1. SubSeq(commit, 1, n) = [i \in 1 .. n |-> commit[i]]
    BY <1>1, <1>2
  <2> QED BY <1>1, <2>1
<1>4. Len(commit) \in 1 .. Len(commit) /\ Len(commit) \notin 1 .. n
  BY <1>1, <1>2
<1> QED BY <1>3, <1>4 DEF ParentOf

LEMMA WrittenIsTree ==
  ASSUME NEW tree \in Tree, NEW files \in Edits
  PROVE  Written(tree, files) \in Tree
BY DEF Written, Tree

LEMMA ChildIsCommit ==
  ASSUME NEW old \in Commit, NEW tree \in Tree, NEW by \in {"release", "others"}
  PROVE  Append(old, [tree |-> tree, by |-> by]) \in Commit \ {NoRef}
<1>1. [tree |-> tree, by |-> by] \in [tree : Tree, by : {"release", "others"}]
  OBVIOUS
<1> QED BY <1>1 DEF Commit, NoRef

\* A verified update is its files written over the tree of its base.
LEMMA VerifiedMeans ==
  ASSUME NEW i \in Intent, Verified(i)
  PROVE  /\ ChildOf(i.old, i.new)
         /\ TreeOf(i.new) = Written(TreeOf(i.old), i.files)
<1>1. TreeOf(i.new) \in Tree /\ TreeOf(i.old) \in Tree
  BY TreesOfCommits DEF Intent
<1>2. \A q \in Path : TreeOf(i.new)[q] = Written(TreeOf(i.old), i.files)[q]
  BY DEF Verified, UnmanagedKept, ManagedWritten, Written
<1> QED BY <1>1, <1>2 DEF Verified, Written, Tree

-----------------------------------------------------------------------------
LEMMA CatalogInvInit == Init => CatalogInv
<1> SUFFICES ASSUME Init PROVE CatalogInv
  OBVIOUS
<1>1. PICK tree \in Trees : remote = <<[tree |-> tree, by |-> "others"]>>
  BY DEF Init
<1>2. remote \in Commit
  BY <1>1 DEF Commit
<1> QED BY <1>2 DEF Init, CatalogInv, TypeOK, SentVerified, BasesGone, Phase, NoRef, Commit

\* Steps that move neither the branch nor what was sent disturb one author.
LEMMA LocalStep ==
  ASSUME CatalogInv, NEW p \in Author,
         UNCHANGED <<remote, foreign, held, spent>>,
         abandoned' \subseteq Intent, \A i \in abandoned' : Verified(i),
         phase' = [phase EXCEPT ![p] = phase'[p]], phase'[p] \in Phase,
         base' = [base EXCEPT ![p] = base'[p]], base'[p] \in Commit,
         intent' = [intent EXCEPT ![p] = intent'[p]], intent'[p] \in Intent \cup {NoIntent},
         phase'[p] \notin {"idle", "captured"} => intent'[p] # NoIntent,
         phase'[p] = "captured" => base'[p] # NoRef,
         phase'[p] \in {"prepared", "sent"} => Verified(intent'[p]),
         phase'[p] \in {"updated", "accepted"} => intent'[p].new \in held
  PROVE  CatalogInv'
<1>1. TypeOK'
  BY DEF CatalogInv, TypeOK
<1>2. SentVerified'
  BY DEF CatalogInv, TypeOK, SentVerified
<1>3. BasesGone'
  BY DEF CatalogInv, BasesGone
<1> QED BY <1>1, <1>2, <1>3 DEF CatalogInv

\* An update takes effect on exactly the commit it was built on.
LEMMA EffectStep ==
  ASSUME CatalogInv, NEW i \in Intent, Verified(i), TakeEffect(i)
  PROVE  /\ remote = i.old /\ remote' = i.new /\ i.new \notin spent
         /\ remote' \in Commit /\ held' = held \cup {i.new} /\ held' \subseteq Commit
         /\ BasesGone'
<1>1. /\ remote = i.old /\ remote' = i.new /\ held' = held \cup {i.new}
      /\ i.new \in Commit \ {NoRef}
      /\ spent' = (spent \cup {i.new}) \ {new \in spent : ParentOf(new) = i.new}
  BY DEF TakeEffect, Leased, Move, Intent
<1>2. ParentOf(i.new) = remote
  BY <1>1 DEF Verified, ChildOf
<1>3. i.new \notin spent
  BY <1>2 DEF CatalogInv, BasesGone
<1>4. ParentOf(i.new) # i.new
  BY <1>1, ParentDiffers
<1>5. BasesGone'
  BY <1>1, <1>4 DEF BasesGone
<1> QED BY <1>1, <1>3, <1>5 DEF CatalogInv, TypeOK

LEMMA ReceiveUpdateStep ==
  ASSUME CatalogInv, NEW p \in Author, ReceiveUpdate(p)
  PROVE  CatalogInv'
<1>1. /\ phase[p] = "sent" /\ intent[p] \in Intent /\ Verified(intent[p])
      /\ UNCHANGED <<base, intent, abandoned, foreign>>
  BY DEF CatalogInv, TypeOK, SentVerified, ReceiveUpdate
<1>2. CASE TakeEffect(intent[p]) /\ Goto(p, "updated")
  <2>1. /\ remote' \in Commit /\ held' = held \cup {intent[p].new} /\ held' \subseteq Commit
        /\ BasesGone'
    BY <1>1, <1>2, EffectStep
  <2>2. TypeOK'
    BY <1>1, <1>2, <2>1 DEF CatalogInv, TypeOK, Goto, Phase
  <2>3. SentVerified'
    BY <1>1, <1>2, <2>1 DEF CatalogInv, TypeOK, SentVerified, Goto
  <2> QED BY <2>1, <2>2, <2>3 DEF CatalogInv
<1>3. CASE Goto(p, "refused") /\ UNCHANGED <<remote, held, spent>>
  <2>1. TypeOK'
    BY <1>1, <1>3 DEF CatalogInv, TypeOK, Goto, Phase
  <2>2. SentVerified'
    BY <1>1, <1>3 DEF CatalogInv, TypeOK, SentVerified, Goto
  <2>3. BasesGone'
    BY <1>3 DEF CatalogInv, BasesGone
  <2> QED BY <2>1, <2>2, <2>3 DEF CatalogInv
<1> QED BY <1>2, <1>3 DEF ReceiveUpdate

LEMMA ReceiveAbandonedStep ==
  ASSUME CatalogInv, NEW i \in abandoned, ReceiveAbandoned(i)
  PROVE  CatalogInv'
<1>1. /\ i \in Intent /\ Verified(i) /\ abandoned' = abandoned \ {i}
      /\ UNCHANGED <<phase, base, intent, foreign>>
  BY DEF CatalogInv, TypeOK, SentVerified, ReceiveAbandoned
<1>2. CASE TakeEffect(i)
  <2>1. /\ remote' \in Commit /\ held' = held \cup {i.new} /\ held' \subseteq Commit
        /\ BasesGone'
    BY <1>1, <1>2, EffectStep
  <2>2. TypeOK' /\ SentVerified'
    BY <1>1, <2>1 DEF CatalogInv, TypeOK, SentVerified
  <2> QED BY <2>1, <2>2 DEF CatalogInv
<1>3. CASE UNCHANGED <<remote, held, spent>>
  BY <1>1, <1>3 DEF CatalogInv, TypeOK, SentVerified, BasesGone
<1> QED BY <1>2, <1>3 DEF ReceiveAbandoned

LEMMA OthersStep ==
  ASSUME CatalogInv, Others
  PROVE  CatalogInv'
<1>1. PICK commit \in held \cup {NoRef}
             \cup {Append(remote, [tree |-> tree, by |-> "others"]) : tree \in Trees} :
        Move(commit) /\ spent' = {new \in spent : ParentOf(new) # commit}
  BY DEF Others
<1>2. commit \in Commit
  <2>1. NoRef \in Commit
    BY NoRefIsCommit
  <2>2. ASSUME NEW tree \in Trees
        PROVE  Append(remote, [tree |-> tree, by |-> "others"]) \in Commit
    BY ChildIsCommit DEF CatalogInv, TypeOK
  <2> QED BY <2>1, <2>2 DEF CatalogInv, TypeOK
<1>3. TypeOK'
  BY <1>1, <1>2 DEF CatalogInv, TypeOK, Others, Move
<1>4. SentVerified'
  BY <1>1 DEF CatalogInv, SentVerified, Others, Move
<1>5. BasesGone'
  BY <1>1 DEF BasesGone, Move
<1> QED BY <1>3, <1>4, <1>5 DEF CatalogInv

LEMMA AuthorStep ==
  ASSUME CatalogInv, NEW p \in Author, Step(p), ~ReceiveUpdate(p)
  PROVE  CatalogInv'
<1> USE DEF Goto, Phase
<1>1. /\ phase \in [Author -> Phase] /\ base \in [Author -> Commit]
      /\ intent \in [Author -> Intent \cup {NoIntent}]
      /\ remote \in Commit /\ NoRef \in Commit /\ abandoned \subseteq Intent
      /\ remote \in held /\ held \subseteq Commit
      /\ \A i \in abandoned : Verified(i)
  BY NoRefIsCommit DEF CatalogInv, TypeOK, SentVerified, BasesGone
<1>2. /\ phase[p] \notin {"idle", "captured"} => intent[p] \in Intent
      /\ phase[p] = "captured" => base[p] \in Commit \ {NoRef}
      /\ phase[p] \in {"prepared", "sent"} => Verified(intent[p])
      /\ phase[p] \in {"updated", "accepted"} => intent[p].new \in held
  BY <1>1 DEF CatalogInv, SentVerified
<1>3. CASE CaptureBase(p)
  BY <1>1, <1>3, LocalStep DEF CaptureBase
<1>4. CASE ConstructCommit(p)
  <2>1. PICK files \in Edits :
          intent' = [intent EXCEPT ![p] =
            [old |-> base[p], files |-> files,
             new |-> Append(base[p], [tree |-> Written(TreeOf(base[p]), files),
                                      by |-> "release"])]]
    BY <1>4 DEF ConstructCommit
  <2>2. Written(TreeOf(base[p]), files) \in Tree
    BY <1>2, <1>4, TreesOfCommits, WrittenIsTree DEF ConstructCommit
  <2>3. Append(base[p], [tree |-> Written(TreeOf(base[p]), files), by |-> "release"])
          \in Commit \ {NoRef}
    BY <1>2, <1>4, <2>2, ChildIsCommit DEF ConstructCommit
  <2>4. base[p] \in Commit \ {NoRef}
    BY <1>2, <1>4 DEF ConstructCommit
  <2>5. [old |-> base[p], files |-> files,
         new |-> Append(base[p], [tree |-> Written(TreeOf(base[p]), files),
                                  by |-> "release"])] \in Intent
    BY <2>3, <2>4 DEF Intent
  <2>6. intent' = [intent EXCEPT ![p] = intent'[p]] /\ intent'[p] \in Intent
    BY <1>1, <2>1, <2>5
  <2>7. intent'[p] # NoIntent /\ intent'[p] \in Intent \cup {NoIntent}
    BY <2>6
  <2>8. /\ phase'[p] = "planned" /\ phase' = [phase EXCEPT ![p] = phase'[p]]
        /\ base' = [base EXCEPT ![p] = base'[p]] /\ base'[p] \in Commit
        /\ abandoned' = abandoned /\ UNCHANGED <<remote, foreign, held, spent>>
    BY <1>1, <1>4 DEF ConstructCommit
  <2> QED BY <1>1, <2>6, <2>7, <2>8, LocalStep
<1>5. CASE AdoptPlan(p)
  <2>1. PICK old \in held \ {NoRef}, files \in Edits :
          \E new \in (held \ {NoRef})
                       \cup {Append(old, [tree |-> tree, by |-> "release"]) : tree \in Trees} :
            intent' = [intent EXCEPT ![p] = [old |-> old, new |-> new, files |-> files]]
    BY <1>5 DEF AdoptPlan
  <2>2. old \in Commit \ {NoRef}
    BY <1>1
  <2>3. ASSUME NEW tree \in Trees
        PROVE  Append(old, [tree |-> tree, by |-> "release"]) \in Commit \ {NoRef}
    BY <2>2, ChildIsCommit
  <2>4. PICK new \in Commit \ {NoRef} :
            intent' = [intent EXCEPT ![p] = [old |-> old, new |-> new, files |-> files]]
    BY <1>1, <2>1, <2>3
  <2>5. [old |-> old, new |-> new, files |-> files] \in Intent
    BY <2>2 DEF Intent
  <2>6. intent' = [intent EXCEPT ![p] = intent'[p]] /\ intent'[p] \in Intent
    BY <1>1, <2>4, <2>5
  <2>7. intent'[p] # NoIntent /\ intent'[p] \in Intent \cup {NoIntent}
    BY <2>6
  <2>8. /\ phase'[p] = "planned" /\ phase' = [phase EXCEPT ![p] = phase'[p]]
        /\ base' = [base EXCEPT ![p] = base'[p]] /\ base'[p] \in Commit
        /\ abandoned' = abandoned /\ UNCHANGED <<remote, foreign, held, spent>>
    BY <1>1, <1>5 DEF AdoptPlan
  <2> QED BY <1>1, <2>6, <2>7, <2>8, LocalStep
<1>a. ASSUME NEW next \in Phase \ {"idle", "captured"}, Goto(p, next),
             phase[p] \notin {"idle", "captured"},
             UNCHANGED <<remote, base, intent, foreign, held, spent>>,
             abandoned' \subseteq abandoned \cup {intent[p]},
             abandoned' # abandoned => Verified(intent[p]),
             next \in {"prepared", "sent"} => Verified(intent[p]),
             next \in {"updated", "accepted"} => intent[p].new \in held
      PROVE  CatalogInv'
  <2>1. /\ phase'[p] = next /\ phase' = [phase EXCEPT ![p] = phase'[p]]
        /\ base' = [base EXCEPT ![p] = base'[p]] /\ base'[p] \in Commit
        /\ intent' = [intent EXCEPT ![p] = intent'[p]]
        /\ intent'[p] = intent[p] /\ intent[p] \in Intent
    BY <1>1, <1>2, <1>a
  <2>2. abandoned' \subseteq Intent /\ \A i \in abandoned' : Verified(i)
    BY <1>1, <1>a, <2>1
  <2>3. intent'[p] # NoIntent /\ intent'[p] \in Intent \cup {NoIntent}
    BY <2>1
  <2> HIDE DEF Goto, Phase
  <2>4. phase'[p] \in Phase /\ phase'[p] \notin {"idle", "captured"}
    BY <1>a, <2>1
  <2>5. /\ phase'[p] \in {"prepared", "sent"} => Verified(intent'[p])
        /\ phase'[p] \in {"updated", "accepted"} => intent'[p].new \in held
        /\ phase'[p] = "captured" => base'[p] # NoRef
    BY <1>a, <2>1, <2>4
  <2> QED BY <1>a, <2>1, <2>2, <2>3, <2>4, <2>5, LocalStep
<1>6. CASE PreparePush(p)
  BY <1>2, <1>6, <1>a DEF PreparePush
<1>7. CASE Connect(p)
  BY <1>1, <1>2, <1>7, <1>a DEF Connect
<1>8. CASE PushWitness(p)
  BY <1>2, <1>8, <1>a DEF PushWitness, Witnessed
<1>9. CASE PushUnknown(p)
  BY <1>2, <1>9, <1>a DEF PushUnknown
<1>10. CASE ObserveSatisfied(p)
  BY <1>1, <1>10, <1>a DEF ObserveSatisfied
<1>11. CASE SendAgain(p)
  BY <1>11, <1>a DEF SendAgain
<1>12. CASE Leave(p)
  BY <1>1, <1>12, LocalStep DEF Leave
<1> QED
  BY <1>3, <1>4, <1>5, <1>6, <1>7, <1>8, <1>9, <1>10, <1>11, <1>12 DEF Step

LEMMA CatalogInvStep == CatalogInv /\ [Next]_vars => CatalogInv'
<1>1. CatalogInv /\ UNCHANGED vars => CatalogInv'
  BY DEF vars, CatalogInv, TypeOK, SentVerified, BasesGone
<1> QED
  BY <1>1, AuthorStep, ReceiveUpdateStep, ReceiveAbandonedStep, OthersStep DEF Next

\* Only verified updates are ever sent, and the base of one that took effect is off
\* the branch until somebody puts it back.
THEOREM UpdatesAreVerified == Spec => []CatalogInv
BY CatalogInvInit, CatalogInvStep, PTL DEF Spec

-----------------------------------------------------------------------------
\* What moves the branch on behalf of a release is a verified update, taking effect
\* on the commit it was built on.
LEMMA UpdateMeans ==
  ASSUME CatalogInv, [Next]_vars, Updates
  PROVE  /\ remote' \notin spent
         /\ \E i \in {intent[p] : p \in Author} \cup abandoned : CarriesOut(i)
<1>1. ASSUME NEW i \in Intent, Verified(i), TakeEffect(i)
      PROVE  remote' \notin spent /\ CarriesOut(i)
  BY <1>1, EffectStep, VerifiedMeans DEF CarriesOut
<1>2. CASE UNCHANGED vars
  BY <1>2 DEF Updates, vars
<1>3. CASE Others
  BY <1>3 DEF Updates, Others, CatalogInv, TypeOK
<1>4. ASSUME NEW p \in Author, Step(p)
      PROVE  TakeEffect(intent[p]) /\ intent[p] \in Intent /\ Verified(intent[p])
  <2>1. ReceiveUpdate(p)
    BY <1>4 DEF Updates, Step, CaptureBase, ConstructCommit, AdoptPlan, PreparePush,
                Connect, PushWitness, PushUnknown, ObserveSatisfied, SendAgain, Leave
  <2> QED BY <2>1 DEF Updates, ReceiveUpdate, CatalogInv, TypeOK, SentVerified
<1>5. ASSUME NEW i \in abandoned, ReceiveAbandoned(i)
      PROVE  TakeEffect(i) /\ i \in Intent /\ Verified(i)
  BY <1>5 DEF Updates, ReceiveAbandoned, CatalogInv, TypeOK, SentVerified
<1> QED BY <1>1, <1>2, <1>3, <1>4, <1>5 DEF Next

\* An update adds one commit to what the branch names and changes no file but its
\* own, whatever its plan says and however late it arrives.
THEOREM OthersAreKept == Spec => OthersContentKept
<1>1. CatalogInv /\ [Next]_vars
        => [Updates => \E i \in {intent[p] : p \in Author} \cup abandoned : CarriesOut(i)]_vars
  BY UpdateMeans
<1> QED BY <1>1, UpdatesAreVerified, PTL DEF Spec, OthersContentKept

\* Pushing an update again, or late, has no further effect unless its base was put
\* back on the branch.
THEOREM ReplayIsHarmless == Spec => ReplayHarmless
<1>1. CatalogInv /\ [Next]_vars => [Updates => remote' \notin spent]_vars
  BY UpdateMeans
<1> QED BY <1>1, UpdatesAreVerified, PTL DEF Spec, ReplayHarmless

\* What satisfies an update is a commit the branch named.
THEOREM ReceiptsAreTrue == Spec => []ReceiptsTrue
<1>1. CatalogInv => ReceiptsTrue
  BY DEF CatalogInv, SentVerified, ReceiptsTrue
<1> QED BY <1>1, UpdatesAreVerified, PTL DEF Spec
=============================================================================
