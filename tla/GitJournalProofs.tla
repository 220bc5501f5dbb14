---------------------------- MODULE GitJournalProofs ----------------------------
(***************************************************************************)
(* The Git journal implements the store contract, for any number of        *)
(* clients, events and abandoned pushes.                                   *)
(***************************************************************************)
EXTENDS GitJournal, WellFoundedInduction, TLAPS

USE GitJournalAssumption DEF CallRecord

\* A history is a prefix of itself and of what is appended to it.
LEMMA PrefixGrows ==
  ASSUME NEW S, NEW h \in Seq(S), NEW k \in Seq(S), NEW e \in S, Prefix(h, k)
  PROVE  Prefix(h, Append(k, e))
BY DEF Prefix

LEMMA PrefixOfSelf == ASSUME NEW S, NEW h \in Seq(S) PROVE Prefix(h, h)
BY DEF Prefix

\* A prefix as long as the whole is the whole.
LEMMA PrefixWhole ==
  ASSUME NEW S, NEW h \in Seq(S), NEW k \in Seq(S), Prefix(h, k), Len(h) = Len(k)
  PROVE  h = k
BY DEF Prefix

\* Two prefixes of one history are equal when they are equally long.
LEMMA PrefixesAgree ==
  ASSUME NEW S, NEW h \in Seq(S), NEW k \in Seq(S), NEW l \in Seq(S),
         Prefix(h, l), Prefix(k, l), Len(h) = Len(k)
  PROVE  h = k
BY SMTT(30) DEF Prefix

\* A prefix is the initial part of its length.
LEMMA PrefixIsInitial ==
  ASSUME NEW S, NEW h \in Seq(S), NEW k \in Seq(S), Prefix(h, k)
  PROVE  Len(h) \in 0..Len(k) /\ h = SubSeq(k, 1, Len(h))
BY DEF Prefix

-----------------------------------------------------------------------------
(* The invariant *)

LEMMA StoreInvInit == Init => StoreInv
BY DEF Init, StoreInv, TypeOK, BuiltOnHistory, Phase

\* Appending to the ref keeps what was built on it.
LEMMA AppendKeepsFresh ==
  ASSUME remote \in Seq(Fact), NEW e \in Fact, remote' = Append(remote, e),
         NEW old \in Seq(Fact), NEW fact \in Fact, Fresh(old, fact)
  PROVE  Fresh(old, fact)'
BY PrefixGrows DEF Fresh, Positions

\* Steps that leave the ref and the pushes given up alone disturb one client.
LEMMA StoreInvLocal ==
  ASSUME StoreInv, NEW c \in Client, UNCHANGED <<remote, abandoned>>,
         phase' = [phase EXCEPT ![c] = phase'[c]], phase'[c] \in Phase,
         call' = [call EXCEPT ![c] = call'[c]], call'[c] \in CallRecord \cup {NoCall},
         head' = [head EXCEPT ![c] = head'[c]], head'[c] \in Seq(Fact),
         phase'[c] = "idle" <=> call'[c] = NoCall,
         phase'[c] # "idle" => call'[c].floor <= Len(remote),
         phase'[c] = "snapshot" =>
           Prefix(head'[c], remote) /\ call'[c].floor <= Len(head'[c]),
         phase'[c] \in {"push", "sent", "updated", "refused"} =>
           /\ call'[c].kind = "Append" /\ Len(head'[c]) = call'[c].rev
           /\ Fresh(head'[c], call'[c].fact),
         phase'[c] \in {"idle", "ls-remote", "fetch"} => head'[c] = <<>>
  PROVE  StoreInv'
<1>1. TypeOK'
  BY DEF StoreInv, TypeOK
<1>2. ASSUME NEW d \in Client, d # c
      PROVE  phase'[d] = phase[d] /\ call'[d] = call[d] /\ head'[d] = head[d]
  BY <1>2 DEF StoreInv, TypeOK
<1>3. BuiltOnHistory'
  <2>1. \A x \in abandoned' : Fresh(x.old, x.fact)'
    BY DEF StoreInv, BuiltOnHistory, Fresh, Prefix, Positions
  <2>2. ASSUME NEW d \in Client
        PROVE  /\ phase'[d] = "idle" <=> call'[d] = NoCall
               /\ phase'[d] # "idle" => call'[d].floor <= Len(remote')
               /\ phase'[d] = "snapshot" =>
                    Prefix(head'[d], remote') /\ call'[d].floor <= Len(head'[d])
               /\ phase'[d] \in {"push", "sent", "updated", "refused"} =>
                    /\ call'[d].kind = "Append" /\ Len(head'[d]) = call'[d].rev
                    /\ Fresh(head[d], call[d].fact)'
               /\ phase'[d] \in {"idle", "ls-remote", "fetch"} => head'[d] = <<>>
    <3>1. CASE d = c
      BY <3>1 DEF Fresh, Prefix, Positions
    <3>2. CASE d # c
      BY <1>2, <3>2 DEF StoreInv, BuiltOnHistory, Fresh, Prefix, Positions
    <3> QED BY <3>1, <3>2
  <2> QED BY <2>1, <2>2 DEF BuiltOnHistory
<1> QED BY <1>1, <1>3 DEF StoreInv

\* A killed or interrupted command forgets its call and may leave a push behind.
LEMMA StoreInvClose ==
  ASSUME StoreInv, NEW c \in Client, phase[c] # "idle", Close(c),
         UNCHANGED remote, Abandoned(c)
  PROVE  StoreInv'
<1>1. TypeOK'
  <2>1. phase[c] = "sent" =>
          call[c] \in [kind : {"Append"}, rev : Nat, fact : Fact, floor : Nat]
    BY DEF StoreInv, TypeOK, BuiltOnHistory
  <2> QED BY <2>1 DEF StoreInv, TypeOK, Close, Goto, Abandoned, Update, Phase
<1>2. BuiltOnHistory'
  <2>1. \A x \in abandoned' : Fresh(x.old, x.fact)'
    BY DEF StoreInv, BuiltOnHistory, Abandoned, Update, Fresh, Prefix, Positions
  <2>2. \A d \in Client :
          /\ d = c => phase'[d] = "idle" /\ call'[d] = NoCall /\ head'[d] = <<>>
          /\ d # c => phase'[d] = phase[d] /\ call'[d] = call[d] /\ head'[d] = head[d]
    BY DEF StoreInv, TypeOK, Close, Goto
  <2> QED BY <2>1, <2>2 DEF StoreInv, BuiltOnHistory, Fresh, Prefix, Positions
<1> QED BY <1>1, <1>2 DEF StoreInv

\* An update applied by the server moves the ref; no process is at a command
\* that minds, but the one the server answers.
LEMMA StoreInvMove ==
  ASSUME StoreInv, NEW e \in Fact, remote' = Append(remote, e),
         abandoned' \subseteq abandoned, UNCHANGED <<call, head>>,
         phase' \in [Client -> Phase],
         \A d \in Client : \/ phase'[d] = phase[d]
                           \/ phase[d] = "sent" /\ phase'[d] = "updated"
  PROVE  StoreInv'
<1>1. TypeOK'
  BY DEF StoreInv, TypeOK
<1>2. \A x \in abandoned' : Fresh(x.old, x.fact)'
  BY AppendKeepsFresh DEF StoreInv, TypeOK, BuiltOnHistory
<1>3. ASSUME NEW d \in Client
      PROVE  /\ phase'[d] = "idle" <=> call'[d] = NoCall
             /\ phase'[d] # "idle" => call'[d].floor <= Len(remote')
             /\ phase'[d] = "snapshot" =>
                  Prefix(head'[d], remote') /\ call'[d].floor <= Len(head'[d])
             /\ phase'[d] \in {"push", "sent", "updated", "refused"} =>
                  /\ call'[d].kind = "Append" /\ Len(head'[d]) = call'[d].rev
                  /\ Fresh(head[d], call[d].fact)'
             /\ phase'[d] \in {"idle", "ls-remote", "fetch"} => head'[d] = <<>>
  <2>1. Len(remote') = Len(remote) + 1 /\ Len(remote) \in Nat
    BY DEF StoreInv, TypeOK
  <2>2. phase[d] # "idle" => call[d] \in CallRecord
    BY DEF StoreInv, TypeOK, BuiltOnHistory
  <2>3. phase[d] = "snapshot" => Prefix(head[d], remote')
    BY PrefixGrows DEF StoreInv, TypeOK, BuiltOnHistory
  <2>4. phase[d] \in {"push", "sent", "updated", "refused"} =>
          Fresh(head[d], call[d].fact)'
    <3>1. HAVE phase[d] \in {"push", "sent", "updated", "refused"}
    <3>2. call[d].fact \in Fact /\ Fresh(head[d], call[d].fact)
      BY <2>2, <3>1 DEF StoreInv, BuiltOnHistory
    <3>3. Prefix(head[d], remote')
      BY <3>2, PrefixGrows DEF StoreInv, TypeOK, Fresh
    <3> QED BY <3>2, <3>3 DEF Fresh, Positions
  <2> QED BY <2>1, <2>2, <2>3, <2>4 DEF StoreInv, BuiltOnHistory
<1>4. BuiltOnHistory'
  BY <1>2, <1>3 DEF BuiltOnHistory
<1> QED BY <1>1, <1>4 DEF StoreInv

\* An open call is one of the two kinds.
LEMMA CallOpen ==
  ASSUME StoreInv, NEW c \in Client, phase[c] # "idle"
  PROVE  /\ call[c] \in CallRecord
         /\ call[c].kind = "Append" => call[c].rev \in Nat /\ call[c].fact \in Fact
BY DEF StoreInv, TypeOK, BuiltOnHistory

LEMMA StoreInvStep == StoreInv /\ [Next]_vars => StoreInv'
<1> SUFFICES ASSUME StoreInv, [Next]_vars PROVE StoreInv'
  OBVIOUS
<1>1. CASE UNCHANGED vars
  BY <1>1 DEF vars, StoreInv, TypeOK, BuiltOnHistory, Fresh, Prefix, Positions
<1>2. ASSUME NEW c \in Client, Read(c) PROVE StoreInv'
  <2>1. /\ call' = [call EXCEPT ![c] = [kind |-> "Read", floor |-> Len(remote)]]
        /\ phase' = [phase EXCEPT ![c] = "ls-remote"]
        /\ UNCHANGED <<remote, head, abandoned>> /\ phase[c] = "idle"
    BY <1>2 DEF Read, Begin, Goto
  <2>2. /\ call'[c] = [kind |-> "Read", floor |-> Len(remote)]
        /\ phase'[c] = "ls-remote"
        /\ head'[c] = <<>> /\ head'[c] \in Seq(Fact)
        /\ Len(remote) \in Nat
    BY <2>1 DEF StoreInv, TypeOK, BuiltOnHistory
  <2>3. /\ call' = [call EXCEPT ![c] = call'[c]]
        /\ phase' = [phase EXCEPT ![c] = phase'[c]]
        /\ head' = [head EXCEPT ![c] = head'[c]]
    BY <2>1, <2>2 DEF StoreInv, TypeOK
  <2>4. /\ call'[c] \in CallRecord /\ call'[c] # NoCall
        /\ call'[c].floor <= Len(remote)
    BY <2>2
  <2> QED BY <2>1, <2>2, <2>3, <2>4, StoreInvLocal DEF Phase
<1>3. ASSUME NEW c \in Client, AppendEvent(c) PROVE StoreInv'
  <2>1. PICK rev \in 0..MaxRevision, fact \in Fact :
          Begin(c, [kind |-> "Append", rev |-> rev, fact |-> fact,
                    floor |-> Len(remote)])
    BY <1>3 DEF AppendEvent
  <2>2. /\ call' = [call EXCEPT ![c] = [kind |-> "Append", rev |-> rev,
                                        fact |-> fact, floor |-> Len(remote)]]
        /\ phase' = [phase EXCEPT ![c] = "ls-remote"]
        /\ UNCHANGED <<remote, head, abandoned>> /\ phase[c] = "idle"
    BY <2>1 DEF Begin, Goto
  <2>3. /\ call'[c] = [kind |-> "Append", rev |-> rev, fact |-> fact,
                       floor |-> Len(remote)]
        /\ phase'[c] = "ls-remote"
        /\ head'[c] = <<>> /\ head'[c] \in Seq(Fact)
        /\ Len(remote) \in Nat
    BY <2>2 DEF StoreInv, TypeOK, BuiltOnHistory
  <2>4. /\ call' = [call EXCEPT ![c] = call'[c]]
        /\ phase' = [phase EXCEPT ![c] = phase'[c]]
        /\ head' = [head EXCEPT ![c] = head'[c]]
    BY <2>2, <2>3 DEF StoreInv, TypeOK
  <2>5. /\ call'[c] \in CallRecord /\ call'[c] # NoCall
        /\ call'[c].floor <= Len(remote)
    BY <2>3
  <2> QED BY <2>2, <2>3, <2>4, <2>5, StoreInvLocal DEF Phase
<1>4. ASSUME NEW c \in Client, RemoteRef(c) PROVE StoreInv'
  <2>1. phase' = [phase EXCEPT ![c] = IF remote = <<>> THEN "snapshot" ELSE "fetch"]
    BY <1>4 DEF RemoteRef, Goto
  <2>2. remote = <<>> => Prefix(head[c], remote) /\ call[c].floor <= Len(head[c])
    BY <1>4 DEF RemoteRef, StoreInv, TypeOK, BuiltOnHistory, Prefix
  <2> QED BY <1>4, <2>1, <2>2, StoreInvLocal
          DEF RemoteRef, StoreInv, TypeOK, BuiltOnHistory, Phase
<1>5. ASSUME NEW c \in Client, FetchRef(c) PROVE StoreInv'
  <2>1. Prefix(remote, remote)
    BY PrefixOfSelf DEF StoreInv, TypeOK
  <2> QED BY <1>5, <2>1, StoreInvLocal
          DEF FetchRef, Goto, StoreInv, TypeOK, BuiltOnHistory, Phase
<1>6. ASSUME NEW c \in Client, MakeCommit(c) PROVE StoreInv'
  BY <1>6, StoreInvLocal
     DEF MakeCommit, Appending, Goto, StoreInv, TypeOK, BuiltOnHistory, Phase, Fresh
<1>7. ASSUME NEW c \in Client, PushConnect(c) PROVE StoreInv'
  BY <1>7, StoreInvLocal
     DEF PushConnect, Goto, StoreInv, TypeOK, BuiltOnHistory, Phase
<1>8. ASSUME NEW c \in Client, ReceiveUpdate(c) PROVE StoreInv'
  <2>1. CASE Leased(head[c])
    <3>1. call[c].fact \in Fact
      BY <1>8, CallOpen DEF ReceiveUpdate, StoreInv, BuiltOnHistory
    <3>2. /\ remote' = Append(remote, call[c].fact)
          /\ phase' = [phase EXCEPT ![c] = "updated"] /\ phase[c] = "sent"
          /\ UNCHANGED <<call, head, abandoned>>
      BY <1>8, <2>1 DEF ReceiveUpdate, Leased, Commit, Goto
    <3> QED BY <3>1, <3>2, StoreInvMove DEF StoreInv, TypeOK, Phase
  <2>2. CASE ~Leased(head[c])
    BY <1>8, <2>2, StoreInvLocal
       DEF ReceiveUpdate, Goto, StoreInv, TypeOK, BuiltOnHistory, Phase
  <2> QED BY <2>1, <2>2
<1>9. ASSUME NEW c \in Client, phase[c] # "idle", Close(c), UNCHANGED remote,
             Abandoned(c) \/ (phase[c] # "sent" /\ UNCHANGED abandoned)
      PROVE  StoreInv'
  BY <1>9, StoreInvClose DEF Abandoned
<1>10. ASSUME NEW c \in Client,
              \/ ReturnHistory(c) \/ Fail(c) \/ FindRecorded(c) \/ FindMismatch(c)
              \/ PushUpToDate(c) \/ PushWitness(c) \/ PushWithoutWitness(c)
       PROVE  StoreInv'
  <2>1. Close(c) /\ UNCHANGED remote
    BY <1>10
       DEF ReturnHistory, Fail, FindRecorded, FindMismatch, PushUpToDate,
           PushWitness, PushWithoutWitness, Answer
  <2>2. phase[c] # "idle" /\ (Abandoned(c) \/ (phase[c] # "sent" /\ UNCHANGED abandoned))
    BY <1>10
       DEF ReturnHistory, Fail, FindRecorded, FindMismatch, Appending,
           PushUpToDate, PushWitness, PushWithoutWitness
  <2> QED BY <1>9, <2>1, <2>2
<1>11. ASSUME NEW c \in Client, Crash(c) PROVE StoreInv'
  BY <1>11, StoreInvClose DEF Crash
<1>12. ASSUME NEW x \in abandoned, ReceiveAbandoned(x) PROVE StoreInv'
  <2>1. x.old \in Seq(Fact) /\ x.fact \in Fact
    BY DEF StoreInv, TypeOK
  <2>2. CASE Leased(x.old)
    BY <1>12, <2>1, <2>2, StoreInvMove
       DEF ReceiveAbandoned, Leased, StoreInv, TypeOK
  <2>3. CASE ~Leased(x.old)
    BY <1>12, <2>3
       DEF ReceiveAbandoned, StoreInv, TypeOK, BuiltOnHistory, Fresh, Prefix, Positions
  <2> QED BY <2>2, <2>3
<1> QED
  BY <1>1, <1>2, <1>3, <1>4, <1>5, <1>6, <1>7, <1>8, <1>10, <1>11, <1>12
     DEF Next, Step

\* Every head a commit is built on, in a call or in a push that was given up,
\* stays the beginning of what the journal's ref names.
THEOREM HeadsAreHistory == Spec => []StoreInv
BY StoreInvInit, StoreInvStep, PTL DEF Spec

-----------------------------------------------------------------------------
(* The refinement *)

LEMMA RefinesInit == Init => Store!StoreInit
BY DEF Init, Store!StoreInit, AppliedCalls, LateAppends

\* How the mapped variable follows the phase of one client.
LEMMA AppliedFollows ==
  ASSUME phase \in [Client -> Phase], NEW c \in Client, NEW next,
         phase' = [phase EXCEPT ![c] = next]
  PROVE  AppliedCalls' = [AppliedCalls EXCEPT ![c] = (next = "updated")]
BY DEF AppliedCalls

\* Only the step that moves the ref, and the one that answers for it, show.
LEMMA AppliedStays ==
  ASSUME phase \in [Client -> Phase], NEW c \in Client, NEW next,
         phase' = [phase EXCEPT ![c] = next],
         next # "updated", phase[c] # "updated"
  PROVE  AppliedCalls' = AppliedCalls
BY DEF AppliedCalls

LEMMA AppliedMeans ==
  ASSUME NEW c \in Client
  PROVE  AppliedCalls[c] <=> phase[c] = "updated"
BY DEF AppliedCalls

\* Two pushes given up that append one event at one revision are one push.
LEMMA LateAppendsDistinct ==
  ASSUME StoreInv, NEW x \in abandoned, NEW y \in abandoned,
         Len(x.old) = Len(y.old), x.fact = y.fact
  PROVE  x = y
<1>1. x.old = y.old
  BY PrefixesAgree DEF StoreInv, TypeOK, BuiltOnHistory, Fresh
<1> QED BY <1>1 DEF StoreInv, TypeOK

\* At the end of the ref's history, a head is the whole of it.
LEMMA FitsMeansLeased ==
  ASSUME StoreInv, NEW old \in Seq(Fact), NEW fact \in Fact, Fresh(old, fact)
  PROVE  Store!Fits(Len(old), fact) <=> Leased(old)
<1>1. Len(old) = Len(remote) => old = remote
  BY PrefixWhole DEF StoreInv, TypeOK, Fresh
<1> QED BY <1>1 DEF Store!Fits, Store!Holds, Leased, Fresh, Positions

\* What closing a call is in the contract.
LEMMA CloseRefines ==
  ASSUME StoreInv, NEW c \in Client, phase[c] # "idle", Close(c), UNCHANGED remote,
         Abandoned(c)
  PROVE  /\ call[c] # NoCall
         /\ Store!Closed(c)
         /\ \/ UNCHANGED LateAppends
            \/ phase[c] = "sent" /\ Store!LeftBehind(c)
<1>1. call[c] # NoCall
  BY DEF StoreInv, BuiltOnHistory
<1>2. Store!Closed(c)
  <2>1. phase' = [phase EXCEPT ![c] = "idle"] /\ phase \in [Client -> Phase]
    BY DEF Close, Goto, StoreInv, TypeOK
  <2>2. AppliedCalls' = [AppliedCalls EXCEPT ![c] = FALSE]
    BY <2>1 DEF AppliedCalls
  <2> QED BY <2>2 DEF Store!Closed, Close
<1>3. CASE phase[c] # "sent"
  BY <1>1, <1>2, <1>3 DEF Abandoned, LateAppends
<1>4. CASE phase[c] = "sent"
  <2>1. call[c].kind = "Append" /\ Len(head[c]) = call[c].rev
    BY <1>4 DEF StoreInv, BuiltOnHistory
  <2>2. ~AppliedCalls[c]
    BY <1>4, AppliedMeans
  <2>3. LateAppends' =
          LateAppends \cup {[rev |-> call[c].rev, fact |-> call[c].fact]}
    <3>1. abandoned' = abandoned \cup {Update(c)}
      BY <1>4 DEF Abandoned
    <3>2. Len(Update(c).old) = call[c].rev /\ Update(c).fact = call[c].fact
      BY <2>1 DEF Update
    <3>3. LateAppends' = {[rev |-> Len(x.old), fact |-> x.fact] : x \in abandoned'}
      BY DEF LateAppends
    <3> HIDE DEF Update
    <3> QED BY <3>1, <3>2, <3>3 DEF LateAppends
  <2> QED BY <1>1, <1>2, <1>4, <2>1, <2>2, <2>3 DEF Store!LeftBehind
<1> QED BY <1>3, <1>4

\* An answer is kept for each client.
ReplyKept == reply = [c \in Client |-> reply[c]]

LEMMA ReplyKeptAlways == Spec => []ReplyKept
<1>1. Init => ReplyKept
  BY DEF Init, ReplyKept
<1>2. ReplyKept /\ [Next]_vars => ReplyKept'
  <2>1. ASSUME ReplyKept, NEW c \in Client, NEW r, reply' = [reply EXCEPT ![c] = r]
        PROVE  ReplyKept'
    BY <2>1 DEF ReplyKept
  <2>2. ASSUME ReplyKept, UNCHANGED reply PROVE ReplyKept'
    BY <2>2 DEF ReplyKept
  <2> SUFFICES ASSUME ReplyKept, [Next]_vars PROVE ReplyKept'
    OBVIOUS
  <2>3. CASE UNCHANGED vars
    BY <2>2, <2>3 DEF vars
  <2>4. ASSUME NEW c \in Client, NEW r, Answer(c, r) \/ Begin(c, r) PROVE ReplyKept'
    BY <2>1, <2>4 DEF Answer, Begin
  <2>5. ASSUME NEW c \in Client, Read(c) \/ AppendEvent(c) PROVE ReplyKept'
    BY <2>4, <2>5 DEF Read, AppendEvent
  <2>6. ASSUME NEW c \in Client, Step(c) PROVE ReplyKept'
    BY <2>2, <2>4, <2>6
       DEF Step, RemoteRef, FetchRef, ReturnHistory, Fail, FindRecorded, FindMismatch,
           MakeCommit, PushUpToDate, PushConnect, ReceiveUpdate, PushWitness,
           PushWithoutWitness
  <2>7. ASSUME NEW c \in Client, Crash(c) PROVE ReplyKept'
    BY <2>2, <2>7 DEF Crash
  <2>8. ASSUME NEW x \in abandoned, ReceiveAbandoned(x) PROVE ReplyKept'
    BY <2>2, <2>8 DEF ReceiveAbandoned
  <2> QED BY <2>3, <2>5, <2>6, <2>7, <2>8 DEF Next
<1> QED BY <1>1, <1>2, PTL DEF Spec

\* An answer the contract finds truthful is an answer of the contract.
LEMMA AnswerRefines ==
  ASSUME StoreInv, ReplyKept, NEW c \in Client, phase[c] # "idle", NEW result,
         Answer(c, result), Abandoned(c), result \in Store!Result,
         Store!Truthful(c, result), phase[c] = "sent" => result.tag = "Ambiguous"
  PROVE  Store!Answer(c)
<1>1. reply' = [reply EXCEPT ![c] = result]
  BY DEF Answer
<1>2. reply'[c] = result
  BY <1>1 DEF ReplyKept
<1>3. Close(c) /\ UNCHANGED remote
  BY DEF Answer
<1> QED BY <1>1, <1>2, <1>3, CloseRefines DEF Store!Answer

LEMMA RefinesStep ==
  ASSUME StoreInv, ReplyKept, [Next]_vars
  PROVE  [Store!StoreNext]_(Store!storeVars)
<1>1. CASE UNCHANGED vars
  BY <1>1 DEF vars, Store!storeVars, AppliedCalls, LateAppends
<1>2. ASSUME NEW c \in Client, NEW asked, Begin(c, asked),
             asked \in Store!ReadCall \cup Store!AppendCall, asked.floor = Len(remote)
      PROVE  Store!Ask(c)
  <2>1. call' = [call EXCEPT ![c] = asked] /\ call'[c] = asked /\ call[c] = NoCall
    BY <1>2 DEF Begin, StoreInv, TypeOK, BuiltOnHistory
  <2>2. UNCHANGED AppliedCalls
    <3>1. phase' = [phase EXCEPT ![c] = "ls-remote"] /\ phase[c] = "idle"
      BY <1>2 DEF Begin, Goto
    <3> QED BY <3>1 DEF AppliedCalls, StoreInv, TypeOK
  <2>3. UNCHANGED <<remote, LateAppends>> /\ reply' = [reply EXCEPT ![c] = NoReply]
    BY <1>2 DEF Begin, LateAppends
  <2> QED BY <1>2, <2>1, <2>2, <2>3 DEF Store!Ask
<1>3. ASSUME NEW c \in Client, Read(c) \/ AppendEvent(c) PROVE Store!Ask(c)
  <2>1. Len(remote) \in Nat
    BY DEF StoreInv, TypeOK
  <2>2. CASE Read(c)
    BY <1>2, <2>1, <2>2 DEF Read, Store!ReadCall, Store!AppendCall
  <2>3. CASE AppendEvent(c)
    BY <1>2, <2>1, <2>3 DEF AppendEvent, Store!ReadCall, Store!AppendCall
  <2> QED BY <1>3, <2>2, <2>3
\* Commands that only read, or that the server refuses, are not seen.
<1>4. ASSUME NEW c \in Client, NEW next \in Phase, Goto(c, next), next # "updated",
             phase[c] # "updated", UNCHANGED <<remote, call, abandoned, reply>>
      PROVE  UNCHANGED Store!storeVars
  <2>1. UNCHANGED AppliedCalls
    BY <1>4, AppliedStays DEF Goto, StoreInv, TypeOK
  <2> QED BY <1>4, <2>1 DEF Store!storeVars, LateAppends
<1>5. ASSUME NEW c \in Client,
             RemoteRef(c) \/ FetchRef(c) \/ MakeCommit(c) \/ PushConnect(c)
      PROVE  UNCHANGED Store!storeVars
  BY <1>4, <1>5 DEF RemoteRef, FetchRef, MakeCommit, Appending, PushConnect, Phase
\* Answers.
<1>6. ASSUME NEW c \in Client, ReturnHistory(c) PROVE Store!Answer(c)
  <2>1. /\ phase[c] = "snapshot" /\ call[c].kind = "Read" /\ Abandoned(c)
        /\ Answer(c, [tag |-> "History", events |-> head[c]])
    BY <1>6 DEF ReturnHistory, Abandoned
  <2>2. /\ head[c] \in Seq(Fact) /\ Len(head[c]) \in 0..Len(remote)
        /\ head[c] = SubSeq(remote, 1, Len(head[c]))
        /\ call[c].floor <= Len(head[c])
    BY <2>1, PrefixIsInitial DEF StoreInv, TypeOK, BuiltOnHistory
  <2>3. call[c].floor \in Nat
    BY <2>1, CallOpen
  <2>4. Store!Truthful(c, [tag |-> "History", events |-> head[c]])
    BY <2>1, <2>2, <2>3 DEF Store!Truthful
  <2> QED BY <2>1, <2>2, <2>4, AnswerRefines DEF Store!Result
<1>7. ASSUME NEW c \in Client, Fail(c) PROVE Store!Answer(c)
  <2>1. /\ phase[c] \in {"ls-remote", "fetch", "snapshot"} /\ Abandoned(c)
        /\ Answer(c, [tag |-> "Failed"])
    BY <1>7 DEF Fail, Abandoned
  <2>2. Store!Truthful(c, [tag |-> "Failed"])
    BY <2>1, AppliedMeans DEF Store!Truthful
  <2> QED BY <2>1, <2>2, AnswerRefines DEF Store!Result
<1>8. ASSUME NEW c \in Client, FindRecorded(c) PROVE Store!Answer(c)
  <2>1. /\ phase[c] = "snapshot" /\ call[c].kind = "Append" /\ Abandoned(c)
        /\ Prefix(head[c], remote)
    BY <1>8 DEF FindRecorded, Appending, Abandoned, StoreInv, BuiltOnHistory
  <2>2. PICK i \in DOMAIN head[c] :
          /\ head[c][i] = call[c].fact
          /\ Answer(c, [tag |-> "AlreadyRecorded", rev |-> i])
    BY <1>8 DEF FindRecorded, Positions
  <2>3. i \in Nat /\ i \in DOMAIN remote /\ remote[i] = call[c].fact
    BY SMTT(30), <2>1, <2>2 DEF StoreInv, TypeOK, Prefix
  <2>4. Store!Truthful(c, [tag |-> "AlreadyRecorded", rev |-> i])
    BY <2>1, <2>3, AppliedMeans DEF Store!Truthful
  <2> QED BY <2>1, <2>2, <2>3, <2>4, AnswerRefines DEF Store!Result
<1>9. ASSUME NEW c \in Client, FindMismatch(c) PROVE Store!Answer(c)
  <2>1. /\ phase[c] = "snapshot" /\ call[c].kind = "Append" /\ Abandoned(c)
        /\ Positions(head[c], call[c].fact) = {} /\ Len(head[c]) # call[c].rev
        /\ Answer(c, [tag |-> "RevisionMismatch", rev |-> Len(head[c])])
    BY <1>9 DEF FindMismatch, Appending, Abandoned
  <2>2. /\ head[c] \in Seq(Fact) /\ Len(head[c]) \in 0..Len(remote)
        /\ head[c] = SubSeq(remote, 1, Len(head[c]))
        /\ call[c].floor <= Len(head[c])
    BY <2>1, PrefixIsInitial DEF StoreInv, TypeOK, BuiltOnHistory
  <2>3. call[c].floor \in Nat /\ ~AppliedCalls[c]
    BY <2>1, CallOpen, AppliedMeans
  <2>4. ~Store!Holds(SubSeq(remote, 1, Len(head[c])), call[c].fact)
    BY <2>1, <2>2 DEF Store!Holds, Positions
  <2>5. Store!Truthful(c, [tag |-> "RevisionMismatch", rev |-> Len(head[c])])
    BY <2>1, <2>2, <2>3, <2>4 DEF Store!Truthful
  <2> QED BY <2>1, <2>2, <2>5, AnswerRefines DEF Store!Result
<1>10. ASSUME NEW c \in Client, PushUpToDate(c) PROVE Store!Answer(c)
  <2>1. /\ phase[c] = "push" /\ Abandoned(c) /\ remote = Commit(c)
        /\ Answer(c, [tag |-> "AlreadyRecorded", rev |-> call[c].rev + 1])
    BY <1>10 DEF PushUpToDate, Abandoned
  <2>2. call[c].kind = "Append" /\ Len(head[c]) = call[c].rev
    BY <2>1 DEF StoreInv, BuiltOnHistory
  <2>3. /\ call[c].rev + 1 \in Nat /\ call[c].rev + 1 \in DOMAIN remote
        /\ remote[call[c].rev + 1] = call[c].fact
    BY <2>1, <2>2, CallOpen DEF Commit, StoreInv, TypeOK
  <2>4. Store!Truthful(c, [tag |-> "AlreadyRecorded", rev |-> call[c].rev + 1])
    BY <2>1, <2>2, <2>3, AppliedMeans DEF Store!Truthful
  <2> QED BY <2>1, <2>3, <2>4, AnswerRefines DEF Store!Result
<1>11. ASSUME NEW c \in Client, PushWitness(c) PROVE Store!Answer(c)
  <2>1. /\ phase[c] = "updated" /\ Abandoned(c)
        /\ Answer(c, [tag |-> "Appended", rev |-> call[c].rev + 1])
    BY <1>11 DEF PushWitness, Abandoned
  <2>2. call[c].kind = "Append" /\ call[c].rev + 1 \in Nat
    BY <2>1, CallOpen DEF StoreInv, BuiltOnHistory
  <2>3. Store!Truthful(c, [tag |-> "Appended", rev |-> call[c].rev + 1])
    BY <2>1, <2>2, AppliedMeans DEF Store!Truthful
  <2> QED BY <2>1, <2>2, <2>3, AnswerRefines DEF Store!Result
<1>12. ASSUME NEW c \in Client, PushWithoutWitness(c) PROVE Store!Answer(c)
  <2>1. /\ phase[c] \in {"push", "sent", "updated", "refused"} /\ Abandoned(c)
        /\ Answer(c, [tag |-> "Ambiguous"])
    BY <1>12 DEF PushWithoutWitness
  <2>2. Store!Truthful(c, [tag |-> "Ambiguous"])
    BY <2>1 DEF Store!Truthful, StoreInv, BuiltOnHistory
  <2> QED BY <2>1, <2>2, AnswerRefines DEF Store!Result
\* The server's side.
<1>13. ASSUME NEW c \in Client, ReceiveUpdate(c) PROVE [Store!StoreNext]_(Store!storeVars)
  <2>1. /\ phase[c] = "sent" /\ call[c].kind = "Append" /\ Len(head[c]) = call[c].rev
        /\ head[c] \in Seq(Fact) /\ call[c].fact \in Fact
        /\ Fresh(head[c], call[c].fact) /\ call[c] # NoCall
    BY <1>13, CallOpen DEF ReceiveUpdate, StoreInv, TypeOK, BuiltOnHistory
  <2>2. CASE Leased(head[c])
    <3>1. /\ remote' = Append(remote, call[c].fact) /\ Goto(c, "updated")
          /\ UNCHANGED <<call, abandoned, reply>>
      BY <1>13, <2>2 DEF ReceiveUpdate, Leased, Commit
    <3>2. AppliedCalls' = [AppliedCalls EXCEPT ![c] = TRUE]
      BY <3>1, AppliedFollows DEF Goto, StoreInv, TypeOK
    <3>3. Store!Fits(call[c].rev, call[c].fact) /\ ~AppliedCalls[c]
      BY <2>1, <2>2, FitsMeansLeased, AppliedMeans
    <3>4. Store!Apply(c)
      BY <2>1, <3>1, <3>2, <3>3 DEF Store!Apply, LateAppends
    <3> QED BY <3>4 DEF Store!StoreNext
  <2>3. CASE ~Leased(head[c])
    BY <1>4, <1>13, <2>3 DEF ReceiveUpdate, Phase
  <2> QED BY <2>2, <2>3
<1>14. ASSUME NEW c \in Client, Crash(c) PROVE Store!Abandon(c)
  BY <1>14, CloseRefines DEF Crash, Store!Abandon
<1>15. ASSUME NEW x \in abandoned, ReceiveAbandoned(x) PROVE Store!StoreNext
  <2> DEFINE late == [rev |-> Len(x.old), fact |-> x.fact]
  <2>1. late \in LateAppends
    BY DEF LateAppends
  <2>2. x.old \in Seq(Fact) /\ x.fact \in Fact /\ Fresh(x.old, x.fact)
    BY DEF StoreInv, TypeOK, BuiltOnHistory
  <2>3. LateAppends' = LateAppends \ {late}
    BY <1>15, LateAppendsDistinct DEF ReceiveAbandoned, LateAppends
  <2>4. remote' = IF Store!Fits(late.rev, late.fact)
                    THEN Append(remote, late.fact) ELSE remote
    BY <1>15, <2>2, FitsMeansLeased DEF ReceiveAbandoned, Leased
  <2>5. UNCHANGED <<call, AppliedCalls, reply>>
    BY <1>15 DEF ReceiveAbandoned, AppliedCalls
  <2>6. Store!Land(late)
    BY <2>1, <2>3, <2>4, <2>5 DEF Store!Land
  <2> QED BY <2>1, <2>6 DEF Store!StoreNext
<1>16. ASSUME NEW c \in Client, Step(c) PROVE [Store!StoreNext]_(Store!storeVars)
  BY <1>5, <1>6, <1>7, <1>8, <1>9, <1>10, <1>11, <1>12, <1>13, <1>16
     DEF Step, Store!StoreNext
<1> QED
  BY <1>1, <1>3, <1>14, <1>15, <1>16 DEF Next, Store!StoreNext

\* The Git journal is a journal store: appends are compared with the revision
\* they expect, answers are true, and an append is acknowledged as the caller's
\* own at most once.
THEOREM GitImplementsStore == Spec => ImplementsStore
BY RefinesInit, RefinesStep, HeadsAreHistory, ReplyKeptAlways, PTL
   DEF Spec, ImplementsStore, Store!StoreSpec

-----------------------------------------------------------------------------
(* The limit: what appending an event adds to the size of a history.  The sum *)
(* of module GitJournal is the one function that starts at 0 and adds the     *)
(* next size; a least position where it fails would contradict that.          *)

\* Positions are well founded: a set of them that is not empty has a least one.
LEMMA LeastPosition ==
  ASSUME NEW S \in SUBSET Nat, S # {}
  PROVE  \E m \in S : \A k \in S : m <= k
<1>1. \E x \in S : \A y \in S : ~ (<<y, x>> \in OpToRel(<, Nat))
  BY NatLessThanWellFounded, WFMin, Zenon
<1>2. OpToRel(<, Nat) = {pair \in Nat \X Nat : pair[1] < pair[2]}
  BY Zenon DEF OpToRel
<1>3. PICK x \in S : \A y \in S :
        <<y, x>> \notin {pair \in Nat \X Nat : pair[1] < pair[2]}
  BY <1>1, <1>2, Zenon
<1>4. \A y \in S : ~(y < x)
  BY <1>3
<1> QED BY <1>4

\* f adds up the sizes of the first n events of history.
Sums(history, n, f) ==
  /\ DOMAIN f = 0..n
  /\ f[0] = 0
  /\ \A i \in 1..n : f[i] = f[i - 1] + SizeOf[history[i]]

LEMMA SumsUnique ==
  ASSUME NEW h, NEW n \in Nat, NEW f, NEW g, Sums(h, n, f), Sums(h, n, g)
  PROVE  \A i \in 0..n : f[i] = g[i]
<1> DEFINE differ == {i \in 0..n : f[i] # g[i]}
<1> SUFFICES ASSUME differ # {} PROVE FALSE
  OBVIOUS
<1>0. differ \in SUBSET Nat
  OBVIOUS
<1>1. PICK m \in differ : \A k \in differ : m <= k
  <2> HIDE DEF differ
  <2> QED BY <1>0, LeastPosition
<1>2. m # 0
  BY DEF Sums
<1>3. m \in 1..n /\ m - 1 \in 0..n /\ m - 1 \notin differ
  BY <1>1, <1>2
<1>4. f[m - 1] = g[m - 1]
  BY <1>3
<1> QED BY <1>3, <1>4 DEF Sums

LEMMA SumsExist ==
  ASSUME NEW h \in Seq(Fact), NEW n \in 0..Len(h)
  PROVE  \E f \in [0..n -> Nat] : Sums(h, n, f)
<1> DEFINE without == {k \in 0..Len(h) : ~\E f \in [0..k -> Nat] : Sums(h, k, f)}
<1> SUFFICES ASSUME without # {} PROVE FALSE
  OBVIOUS
<1>0. without \in SUBSET Nat
  OBVIOUS
<1>1. PICK m \in without : \A k \in without : m <= k
  <2> HIDE DEF without
  <2> QED BY <1>0, LeastPosition
<1>2. m # 0
  <2> DEFINE f == [i \in 0..0 |-> 0]
  <2>1. f \in [0..0 -> Nat] /\ Sums(h, 0, f)
    BY DEF Sums
  <2> QED BY <2>1
<1>3. m \in 1..Len(h) /\ m - 1 \in 0..Len(h) /\ m - 1 \notin without
  <2>1. m \in 0..Len(h) /\ Len(h) \in Nat
    OBVIOUS
  <2>2. m \in 1..Len(h) /\ m - 1 \in 0..Len(h) /\ ~(m <= m - 1)
    <3> HIDE DEF without
    <3> QED BY <1>2, <2>1
  <2> HIDE DEF without
  <2> QED BY <1>1, <2>2
<1>4. PICK f \in [0..(m - 1) -> Nat] : Sums(h, m - 1, f)
  BY <1>3
<1> DEFINE g == [i \in 0..m |-> IF i = m THEN f[m - 1] + SizeOf[h[m]] ELSE f[i]]
<1>5. h[m] \in Fact
  BY <1>3
<1>6. g \in [0..m -> Nat]
  BY <1>3, <1>5
<1>7. Sums(h, m, g)
  <2>1. DOMAIN g = 0..m /\ g[0] = 0
    BY <1>3, <1>4 DEF Sums
  <2>2. ASSUME NEW i \in 1..m PROVE g[i] = g[i - 1] + SizeOf[h[i]]
    <3>1. i \in 0..m /\ i - 1 \in 0..m /\ i - 1 # m /\ g[i - 1] = f[i - 1]
      BY <1>3
    <3>2. CASE i = m
      BY <3>1, <3>2
    <3>3. CASE i # m
      <4>1. i \in 1..(m - 1) /\ g[i] = f[i]
        BY <1>3, <3>1, <3>3
      <4>2. f[i] = f[i - 1] + SizeOf[h[i]]
        BY <1>4, <4>1 DEF Sums
      <4> QED BY <3>1, <4>1, <4>2
    <3> QED BY <3>2, <3>3
  <2> QED BY <2>1, <2>2 DEF Sums
<1> QED BY <1>6, <1>7

\* So the sum over a history is the one function that adds it up.
LEMMA BytesIsSum ==
  ASSUME NEW h \in Seq(Fact), NEW f, Sums(h, Len(h), f)
  PROVE  Bytes(h) = f[Len(h)]
<1> DEFINE Adds(t) == t = [n \in 0..Len(h) |->
                             IF n = 0 THEN 0 ELSE t[n - 1] + SizeOf[h[n]]]
           total == CHOOSE t : Adds(t)
<1>1. PICK s \in [0..Len(h) -> Nat] : Sums(h, Len(h), s)
  BY SumsExist
<1>2. Adds(s)
  BY <1>1 DEF Sums
<1>3. Adds(total)
  BY <1>2
<1>4. Sums(h, Len(h), total)
  <2>1. total = [n \in 0..Len(h) |->
                   IF n = 0 THEN 0 ELSE total[n - 1] + SizeOf[h[n]]]
    BY <1>3
  <2> HIDE DEF total
  <2>2. DOMAIN total = 0..Len(h)
    BY <2>1
  <2>3. ASSUME NEW n \in 0..Len(h)
        PROVE  total[n] = IF n = 0 THEN 0 ELSE total[n - 1] + SizeOf[h[n]]
    BY <2>1
  <2>4. total[0] = 0 /\ \A n \in 1..Len(h) : total[n] = total[n - 1] + SizeOf[h[n]]
    BY <2>3
  <2> QED BY <2>2, <2>4 DEF Sums
<1>5. Bytes(h) = total[Len(h)]
  BY DEF Bytes
<1> QED BY <1>4, <1>5, SumsUnique

LEMMA BytesTyped ==
  ASSUME NEW h \in Seq(Fact)
  PROVE  Bytes(h) \in Nat /\ (h = <<>> => Bytes(h) = 0)
<1>1. PICK f \in [0..Len(h) -> Nat] : Sums(h, Len(h), f)
  BY SumsExist
<1>2. Bytes(h) = f[Len(h)]
  BY <1>1, BytesIsSum
<1> QED BY <1>1, <1>2 DEF Sums

\* An event adds its size.
LEMMA BytesAppend ==
  ASSUME NEW h \in Seq(Fact), NEW e \in Fact
  PROVE  Bytes(Append(h, e)) = Bytes(h) + SizeOf[e]
<1> DEFINE k == Append(h, e)
<1>1. /\ k \in Seq(Fact) /\ Len(k) = Len(h) + 1 /\ k[Len(k)] = e
      /\ \A i \in 1..Len(h) : k[i] = h[i]
  OBVIOUS
<1> HIDE DEF k
<1>2. PICK f \in [0..Len(k) -> Nat] : Sums(k, Len(k), f)
  <2>1. Len(k) \in 0..Len(k)
    BY <1>1
  <2> QED BY <1>1, <2>1, SumsExist
<1> DEFINE g == [i \in 0..Len(h) |-> f[i]]
<1>3. Sums(h, Len(h), g)
  BY <1>1, <1>2 DEF Sums
<1>4. Bytes(h) = f[Len(h)]
  BY <1>3, BytesIsSum
<1>5. Bytes(k) = f[Len(k)]
  BY <1>1, <1>2, BytesIsSum
<1>6. f[Len(k)] = f[Len(h)] + SizeOf[e]
  BY <1>1, <1>2 DEF Sums
<1> QED BY <1>4, <1>5, <1>6 DEF k

\* What a commit was built on and the limit it was checked against do not move
\* under it.
LEMMA PushesFitStep == ReadableInv /\ [Next]_vars => PushesFit'
<1> SUFFICES ASSUME ReadableInv, [Next]_vars PROVE PushesFit'
  OBVIOUS
<1> DEFINE Past == {"push", "sent", "updated", "refused"}
<1>1. /\ \A c \in Client : phase[c] \in Past => FitsLimit(c)
      /\ \A x \in abandoned : Bytes(x.old) + SizeOf[x.fact] <= Limit
      /\ phase \in [Client -> Phase]
      /\ call \in [Client -> CallRecord \cup {NoCall}]
      /\ head \in [Client -> Seq(Fact)]
  BY DEF ReadableInv, PushesFit, StoreInv, TypeOK
\* A client that is not past the check needs nothing of it.
<1>2. ASSUME NEW c \in Client, phase' = [phase EXCEPT ![c] = phase'[c]],
             \A d \in Client \ {c} : call'[d] = call[d] /\ head'[d] = head[d],
             phase'[c] \in Past => FitsLimit(c)',
             \A x \in abandoned' : Bytes(x.old) + SizeOf[x.fact] <= Limit
      PROVE  PushesFit'
  <2>1. ASSUME NEW d \in Client, phase'[d] \in Past PROVE FitsLimit(d)'
    <3>1. CASE d = c
      BY <1>2, <2>1, <3>1
    <3>2. CASE d # c
      <4>1. phase[d] \in Past /\ call'[d] = call[d] /\ head'[d] = head[d]
        BY <1>1, <1>2, <2>1, <3>2
      <4> QED BY <1>1, <4>1 DEF FitsLimit
    <3> QED BY <3>1, <3>2
  <2> QED BY <1>2, <2>1 DEF PushesFit
<1>3. CASE UNCHANGED vars
  BY <1>1, <1>3 DEF vars, PushesFit, FitsLimit
<1>4. ASSUME NEW c \in Client, NEW asked, Begin(c, asked) PROVE PushesFit'
  BY <1>1, <1>2, <1>4 DEF Begin, Goto
<1>5. ASSUME NEW c \in Client, Close(c),
             UNCHANGED abandoned \/ (Abandoned(c) /\ phase[c] \in Phase)
      PROVE  PushesFit'
  <2>1. \A x \in abandoned' : Bytes(x.old) + SizeOf[x.fact] <= Limit
    <3>1. CASE phase[c] = "sent" /\ Abandoned(c)
      <4>1. Bytes(head[c]) + SizeOf[call[c].fact] <= Limit
        BY <1>1, <3>1 DEF FitsLimit
      <4>2. abandoned' = abandoned \cup {Update(c)}
        BY <3>1 DEF Abandoned
      <4>3. Update(c).old = head[c] /\ Update(c).fact = call[c].fact
        BY DEF Update
      <4> HIDE DEF Update
      <4> QED BY <1>1, <4>1, <4>2, <4>3
    <3>2. CASE abandoned' = abandoned
      BY <1>1, <3>2
    <3> QED BY <1>5, <3>1, <3>2 DEF Abandoned
  <2> QED BY <1>1, <1>2, <1>5, <2>1 DEF Close, Goto
<1>6. ASSUME NEW c \in Client, RemoteRef(c) \/ FetchRef(c) PROVE PushesFit'
  BY <1>1, <1>2, <1>6 DEF RemoteRef, FetchRef, Goto
<1>7. ASSUME NEW c \in Client, MakeCommit(c) PROVE PushesFit'
  BY <1>1, <1>2, <1>7 DEF MakeCommit, Goto, FitsLimit
<1>8. ASSUME NEW c \in Client, PushConnect(c) \/ ReceiveUpdate(c) PROVE PushesFit'
  BY <1>1, <1>2, <1>8 DEF PushConnect, ReceiveUpdate, Goto, FitsLimit
<1>9. ASSUME NEW c \in Client,
             \/ ReturnHistory(c) \/ Fail(c) \/ FindRecorded(c) \/ FindMismatch(c)
             \/ PushUpToDate(c) \/ PushWitness(c) \/ PushWithoutWitness(c)
             \/ Crash(c)
      PROVE  PushesFit'
  <2>1. Close(c) /\ (UNCHANGED abandoned \/ Abandoned(c))
    BY <1>9
       DEF ReturnHistory, Fail, FindRecorded, FindMismatch, PushUpToDate,
           PushWitness, PushWithoutWitness, Crash, Answer
  <2> QED BY <1>1, <1>5, <2>1
<1>10. ASSUME NEW x \in abandoned, ReceiveAbandoned(x) PROVE PushesFit'
  BY <1>1, <1>10 DEF ReceiveAbandoned, PushesFit, FitsLimit
<1> QED
  BY <1>3, <1>4, <1>6, <1>7, <1>8, <1>9, <1>10 DEF Next, Step, Read, AppendEvent

\* The ref moves only from the head a push was checked on, by the event checked.
LEMMA StaysReadableStep == ReadableInv /\ [Next]_vars => StaysReadable'
<1> SUFFICES ASSUME ReadableInv, [Next]_vars PROVE StaysReadable'
  OBVIOUS
<1>1. StoreInv /\ remote \in Seq(Fact) /\ Bytes(remote) <= Limit
  BY DEF ReadableInv, StaysReadable, Readable, StoreInv, TypeOK
<1>2. ASSUME UNCHANGED remote PROVE StaysReadable'
  BY <1>1, <1>2 DEF StaysReadable, Readable
<1>3. ASSUME NEW e \in Fact, remote' = Append(remote, e),
             Bytes(remote) + SizeOf[e] <= Limit
      PROVE  StaysReadable'
  BY <1>1, <1>3, BytesAppend DEF StaysReadable, Readable
<1>4. ASSUME NEW c \in Client, ReceiveUpdate(c) PROVE StaysReadable'
  <2>1. CASE Leased(head[c])
    <3>1. call[c].fact \in Fact /\ FitsLimit(c)
      BY <1>1, <1>4, CallOpen DEF ReceiveUpdate, ReadableInv, PushesFit, StoreInv,
                                  BuiltOnHistory
    <3>2. remote = head[c] /\ remote' = Append(remote, call[c].fact)
      BY <1>4, <2>1 DEF ReceiveUpdate, Leased, Commit
    <3> QED BY <1>3, <3>1, <3>2 DEF FitsLimit
  <2>2. CASE ~Leased(head[c])
    BY <1>2, <1>4, <2>2 DEF ReceiveUpdate
  <2> QED BY <2>1, <2>2
<1>5. ASSUME NEW x \in abandoned, ReceiveAbandoned(x) PROVE StaysReadable'
  <2>1. x.fact \in Fact /\ Bytes(x.old) + SizeOf[x.fact] <= Limit
    BY DEF ReadableInv, PushesFit, StoreInv, TypeOK
  <2>2. CASE Leased(x.old)
    BY <1>3, <1>5, <2>1, <2>2 DEF ReceiveAbandoned, Leased
  <2>3. CASE ~Leased(x.old)
    BY <1>2, <1>5, <2>3 DEF ReceiveAbandoned
  <2> QED BY <2>2, <2>3
<1>6. ASSUME ~\E c \in Client : ReceiveUpdate(c),
             ~\E x \in abandoned : ReceiveAbandoned(x)
      PROVE  UNCHANGED remote
  BY <1>6
     DEF Next, vars, Read, AppendEvent, Begin, Step, RemoteRef, FetchRef,
         ReturnHistory, Fail, FindRecorded, FindMismatch, MakeCommit, PushUpToDate,
         PushConnect, PushWitness, PushWithoutWitness, Crash, Answer
<1> QED BY <1>2, <1>4, <1>5, <1>6

\* The journal never locks its own readers out: however pushes race, are killed
\* and arrive late, the history at the ref fits what a snapshot may read.
THEOREM HistoryStaysReadable == Spec => []StaysReadable
<1>1. Init => ReadableInv
  <2>1. ASSUME Init PROVE PushesFit /\ StaysReadable
    <3>1. remote = <<>> /\ <<>> \in Seq(Fact)
      BY <2>1 DEF Init
    <3>2. Bytes(remote) = 0
      BY <3>1, BytesTyped
    <3> QED BY <2>1, <3>2 DEF Init, PushesFit, StaysReadable, Readable
  <2> QED BY <2>1, StoreInvInit DEF ReadableInv
<1>2. ReadableInv /\ [Next]_vars => ReadableInv'
  BY StoreInvStep, PushesFitStep, StaysReadableStep DEF ReadableInv
<1>3. ReadableInv => StaysReadable
  BY DEF ReadableInv
<1> QED BY <1>1, <1>2, <1>3, PTL DEF Spec
=============================================================================
