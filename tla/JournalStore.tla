------------------------------ MODULE JournalStore ------------------------------
(***************************************************************************)
(* What a journal store promises its callers, whatever keeps the bytes:    *)
(* the JournalStore contract of packages/ts-release/src/Journal.ts as      *)
(* Release.ts relies on it.  A call is asked, may take effect once while   *)
(* it is open, and is answered with something true of the log.             *)
(***************************************************************************)
EXTENDS Naturals, Sequences

CONSTANTS
  Client,  \* the processes that share the journal
  Fact,    \* the events they append
  IdOf,    \* Fact -> the identity an event carries
  NoCall,
  NoReply

VARIABLES
  log,       \* the facts recorded, in order
  call,      \* what each client has asked and was not answered yet
  applied,   \* has the open append of a client taken effect?
  inflight,  \* appends nobody waits for any more that may still take effect
  reply      \* what each client was answered last

storeVars == <<log, call, applied, inflight, reply>>

ReadCall == [kind : {"Read"}, floor : Nat]
AppendCall == [kind : {"Append"}, rev : Nat, fact : Fact, floor : Nat]

Result ==
  [tag : {"Appended", "AlreadyRecorded", "RevisionMismatch"}, rev : Nat]
    \cup [tag : {"Ambiguous", "Failed"}]
    \cup [tag : {"History"}, events : Seq(Fact)]

Holds(history, fact) == \E i \in DOMAIN history : IdOf[history[i]] = IdOf[fact]

Fits(rev, fact) == rev = Len(log) /\ ~Holds(log, fact)

StoreInit ==
  /\ log = <<>> /\ inflight = {}
  /\ call = [c \in Client |-> NoCall]
  /\ applied = [c \in Client |-> FALSE]
  /\ reply = [c \in Client |-> NoReply]

\* A call remembers how long the log was when it was asked.
Ask(c) ==
  /\ call[c] = NoCall
  /\ call'[c] \in ReadCall \cup AppendCall /\ call'[c].floor = Len(log)
  /\ call' = [call EXCEPT ![c] = call'[c]]
  /\ reply' = [reply EXCEPT ![c] = NoReply]
  /\ UNCHANGED <<log, applied, inflight>>

\* The compare-and-swap: at the revision expected, and no identity twice.
Apply(c) ==
  /\ call[c] # NoCall
  /\ call[c].kind = "Append" /\ ~applied[c]
  /\ Fits(call[c].rev, call[c].fact)
  /\ log' = Append(log, call[c].fact)
  /\ applied' = [applied EXCEPT ![c] = TRUE]
  /\ UNCHANGED <<call, inflight, reply>>

\* What a call may be answered.  A log read, or compared with, is one the log
\* was while the call was open.  Only the call that appended says so.
Truthful(c, result) ==
  \/ result.tag = "Failed" /\ ~applied[c]
  \/ /\ call[c].kind = "Read" /\ result.tag = "History"
     /\ \E n \in call[c].floor..Len(log) : result.events = SubSeq(log, 1, n)
  \/ /\ call[c].kind = "Append" /\ result.tag = "Appended"
     /\ applied[c] /\ result.rev = call[c].rev + 1
  \/ /\ call[c].kind = "Append" /\ result.tag = "AlreadyRecorded"
     /\ ~applied[c]
     /\ result.rev \in DOMAIN log /\ log[result.rev] = call[c].fact
  \/ /\ call[c].kind = "Append" /\ result.tag = "RevisionMismatch"
     /\ ~applied[c]
     /\ result.rev \in call[c].floor..Len(log) /\ result.rev # call[c].rev
     /\ ~Holds(SubSeq(log, 1, result.rev), call[c].fact)
  \/ call[c].kind = "Append" /\ result.tag = "Ambiguous"

Closed(c) ==
  /\ call' = [call EXCEPT ![c] = NoCall]
  /\ applied' = [applied EXCEPT ![c] = FALSE]
  /\ UNCHANGED log

\* An append that took no effect yet may be left behind.
LeftBehind(c) ==
  /\ call[c].kind = "Append" /\ ~applied[c]
  /\ inflight' = inflight \cup {[rev |-> call[c].rev, fact |-> call[c].fact]}

Answer(c) ==
  /\ call[c] # NoCall
  /\ reply'[c] \in Result /\ Truthful(c, reply'[c])
  /\ reply' = [reply EXCEPT ![c] = reply'[c]]
  /\ \/ UNCHANGED inflight
     \/ reply'[c].tag = "Ambiguous" /\ LeftBehind(c)
  /\ Closed(c)

\* The caller dies, or is interrupted.
Abandon(c) ==
  /\ call[c] # NoCall
  /\ UNCHANGED inflight \/ LeftBehind(c)
  /\ Closed(c)
  /\ UNCHANGED reply

\* An append left behind is compared like any other when it arrives.
Land(x) ==
  /\ x \in inflight
  /\ inflight' = inflight \ {x}
  /\ log' = IF Fits(x.rev, x.fact) THEN Append(log, x.fact) ELSE log
  /\ UNCHANGED <<call, applied, reply>>

StoreNext ==
  \/ \E c \in Client :
       Ask(c) \/ Apply(c) \/ Answer(c) \/ Abandon(c)
  \/ \E x \in inflight : Land(x)

StoreSpec == StoreInit /\ [][StoreNext]_storeVars
=============================================================================
