------------------------------- MODULE HostProofs -------------------------------
(***************************************************************************)
(* What the machines of a host keep, for any endpoints, credentials,       *)
(* processes, trees and journals.                                          *)
(*                                                                         *)
(* Each machine has an inductive invariant of its own; the last section    *)
(* puts them together into the properties of module Hosts.                 *)
(***************************************************************************)
EXTENDS HostInvariants, FiniteSetTheorems, WellFoundedInduction, TLAPS

\* Finite sets, in a machine as everywhere.
LEMMA HttpFinite ==
  ASSUME NEW S
  PROVE  (Http!IsFiniteSet(S) <=> IsFiniteSet(S)) /\ Http!Cardinality(S) = Cardinality(S)
BY DEF Http!IsFiniteSet, IsFiniteSet, Http!Cardinality, Cardinality

-----------------------------------------------------------------------------
(* One HTTP call *)

LEMMA HttpInit == ASSUME Http!Init PROVE HttpInv
<1>1. PICK facts \in Http!Facts : call = Http!NewCall(facts)
  BY DEF Http!Init
<1>2. call \in Calls
  BY <1>1 DEF Calls, Http!NewCall
<1>3. ResponseKept /\ HandlesKept /\ HeadersKept
  BY <1>1, HostAssumptions DEF Http!HttpAssumption, Http!NewCall, ResponseKept, HandlesKept,
     HeadersKept
<1> QED BY <1>2, <1>3 DEF HttpInv

LEMMA AdmitStep == ASSUME HttpInv, Http!Admit PROVE HttpInv'
BY DEF HttpInv, Calls, ResponseKept, HandlesKept, HeadersKept, Lawful, Http!Admit, Http!Refuse

\* What is added to the request is registered for its authority, or of an exchange.
LEMMA AuthorizeStep == ASSUME HttpInv, Http!Authorize PROVE HttpInv'
<1>1. CASE Http!Refuse
  BY <1>1 DEF HttpInv, Calls, ResponseKept, HandlesKept, HeadersKept, Lawful, Http!Refuse,
     Http!Authorize
<1>2. ASSUME NEW live \in IF call.facts.kind = "exchange" THEN {Live}
                          ELSE Http!Resolved(call.facts),
             Http!Authorized(call.facts, live),
             call' = [call EXCEPT !.phase = "prepared", !.fields = call.facts.headers \cup live]
      PROVE  HttpInv'
  <2>1. call.phase = "admitted"
    BY DEF Http!Authorize
  <2>2. live \subseteq Durable \cup Live
    BY HostAssumptions DEF Http!HttpAssumption, Http!Resolved
  <2>3. call.facts.headers \subseteq Durable
    BY DEF HttpInv, Calls, Http!Facts
  <2>4. call' \in Calls
    BY <1>2, <2>2, <2>3 DEF HttpInv, Calls
  <2>5. ResponseKept' /\ HandlesKept'
    BY <1>2, <2>1 DEF HttpInv, Calls, ResponseKept, HandlesKept
  <2>6. ASSUME NEW field \in live, field \in Live
        PROVE  Lawful(field)
    <3>1. call.facts.endpoint \in Secure
      BY <1>2, <2>6 DEF Http!Authorized
    <3>2. CASE call.facts.kind # "exchange"
      BY <1>2, <2>6, <3>1, <3>2 DEF Http!Resolved, Http!AuthorityOf, Lawful
    <3> QED BY <3>1, <3>2 DEF Lawful
  <2>7. \A field \in call.facts.headers : field \notin Live
    BY <2>3, HostAssumptions DEF Http!HttpAssumption
  <2>8. call'.facts = call.facts /\ call'.fields = call.facts.headers \cup live
        /\ call'.told = call.told /\ call'.phase = "prepared"
    BY <1>2 DEF HttpInv, Calls
  <2>9. call.told = {} /\ Http!Admissible(call.facts)
    BY <2>1 DEF HttpInv, HeadersKept
  <2> QED BY <2>4, <2>5, <2>6, <2>7, <2>8, <2>9 DEF HttpInv, HeadersKept, Lawful
<1> QED BY <1>1, <1>2 DEF Http!Authorize

\* A request that is sent holds a timer, a client and a socket, or has failed.
LEMMA Sent ==
  ASSUME NEW actual, Http!SendPrepared(actual), ~ Http!Refuse
  PROVE  \E client \in {"none", "open"} :
           \/ call' = [call EXCEPT !.phase = "waiting", !.timer = TRUE, !.client = client,
                                   !.socket = "pending"]
           \/ call' = [call EXCEPT !.phase = "waiting", !.timer = TRUE, !.client = client,
                                   !.finished = TRUE, !.result = "unknown"]
BY DEF Http!SendPrepared

\* Nothing but what the call is doing and holds changes.
LEMMA SendStep ==
  ASSUME HttpInv, NEW actual \in Http!Facts, Http!SendPrepared(actual) PROVE HttpInv'
<1>1. call.phase = "prepared"
  BY DEF Http!SendPrepared
<1>2. CASE Http!Refuse
  BY <1>1, <1>2 DEF HttpInv, Calls, ResponseKept, HandlesKept, HeadersKept, Lawful, Http!Refuse
<1>3. CASE ~ Http!Refuse
  <2>1. PICK client \in {"none", "open"} :
          \/ call' = [call EXCEPT !.phase = "waiting", !.timer = TRUE, !.client = client,
                                  !.socket = "pending"]
          \/ call' = [call EXCEPT !.phase = "waiting", !.timer = TRUE, !.client = client,
                                  !.finished = TRUE, !.result = "unknown"]
    BY <1>3, Sent
  <2>2. CASE call' = [call EXCEPT !.phase = "waiting", !.timer = TRUE, !.client = client,
                                  !.socket = "pending"]
    BY <1>1, <2>2 DEF HttpInv, Calls, ResponseKept, HandlesKept, HeadersKept, Lawful
  <2>3. CASE call' = [call EXCEPT !.phase = "waiting", !.timer = TRUE, !.client = client,
                                  !.finished = TRUE, !.result = "unknown"]
    BY <1>1, <2>3 DEF HttpInv, Calls, ResponseKept, HandlesKept, HeadersKept, Lawful
  <2> QED BY <2>1, <2>2, <2>3
<1> QED BY <1>2, <1>3

LEMMA ConnectedStep == ASSUME HttpInv, Http!Connected PROVE HttpInv'
<1>1. call.phase \in {"waiting", "closing"} /\ call.socket = "pending"
  BY DEF Http!Connected, Http!Ongoing
<1>2. CASE call.finished
  BY <1>1, <1>2 DEF HttpInv, Calls, ResponseKept, HandlesKept, HeadersKept, Lawful,
     Http!Connected
<1>3. CASE ~ call.finished
  <2>1. PICK length \in 0 .. (MaxResponse + 1) :
          call' = [call EXCEPT !.socket = "open", !.server = length,
                     !.told = {call.facts.endpoint} \X call.fields]
    BY <1>3 DEF Http!Connected
  <2>2. call.facts.endpoint \in Endpoint /\ call.fields \subseteq Durable \cup Live
    BY DEF HttpInv, Calls, Http!Facts
  <2>3. length \in Nat
    BY HostAssumptions DEF Http!HttpAssumption
  <2>4. call' \in Calls
    BY <2>1, <2>2, <2>3 DEF HttpInv, Calls
  <2>5. ResponseKept' /\ HandlesKept'
    BY <1>1, <1>3, <2>1 DEF HttpInv, Calls, ResponseKept, HandlesKept
  <2>6. HeadersKept'
    BY <1>1, <2>1 DEF HttpInv, Calls, HeadersKept, Lawful
  <2> QED BY <2>4, <2>5, <2>6 DEF HttpInv
<1> QED BY <1>1, <1>2, <1>3 DEF HttpInv, Calls

\* The first result is kept.
LEMMA FailedKeeps ==
  ASSUME NEW c \in Calls
  PROVE  /\ Http!Failed(c) \in Calls /\ Http!Failed(c).finished
         /\ Http!Failed(c).result = IF c.finished THEN c.result ELSE "unknown"
         /\ Http!Failed(c).phase = c.phase /\ Http!Failed(c).facts = c.facts
         /\ Http!Failed(c).fields = c.fields /\ Http!Failed(c).told = c.told
         /\ Http!Failed(c).socket = c.socket /\ Http!Failed(c).timer = c.timer
         /\ Http!Failed(c).client = c.client /\ Http!Failed(c).body = c.body
         /\ Http!Failed(c).server = c.server /\ Http!Failed(c).wire = c.wire
         /\ Http!Failed(c).over = c.over /\ Http!Failed(c).final = c.final
<1>1. CASE c.finished
  BY <1>1 DEF Http!Failed, Http!Complete, Calls
<1>2. CASE ~ c.finished
  BY <1>2 DEF Http!Failed, Http!Complete, Calls
<1> QED BY <1>1, <1>2 DEF Calls

\* A byte counted leaves a call within its bound, or over.
LEMMA CountedKeeps ==
  ASSUME HttpInv, call.result # "whole", NEW c, c = Http!Counted(call)
  PROVE  /\ c \in Calls /\ c.result # "whole"
         /\ c.phase = call.phase /\ c.facts = call.facts /\ c.fields = call.fields
         /\ c.told = call.told /\ c.socket = call.socket /\ c.timer = call.timer
         /\ c.client = call.client /\ c.body = call.body /\ c.server = call.server
         /\ ~ c.finished => c.wire <= MaxWire /\ c.result = "none" /\ c.body <= MaxResponse
<1> DEFINE longer == [call EXCEPT !.wire = call.wire + 1]
<1>1. MaxWire \in Nat /\ call \in Calls
  BY HostAssumptions DEF Http!HttpAssumption, HttpInv
<1>2. /\ longer \in Calls /\ longer.wire = call.wire + 1 /\ longer.finished = call.finished
      /\ longer.result = call.result
      /\ longer.phase = call.phase /\ longer.facts = call.facts /\ longer.fields = call.fields
      /\ longer.told = call.told /\ longer.socket = call.socket /\ longer.timer = call.timer
      /\ longer.client = call.client /\ longer.body = call.body
      /\ longer.server = call.server
  BY <1>1 DEF Calls
<1>3. c = IF longer.wire > MaxWire THEN Http!Failed(longer) ELSE longer
  BY DEF Http!Counted
<1> HIDE DEF longer
<1>4. CASE longer.wire > MaxWire
  BY <1>2, <1>3, <1>4, FailedKeeps
<1>5. CASE ~ (longer.wire > MaxWire)
  BY <1>1, <1>2, <1>3, <1>5 DEF HttpInv, ResponseKept, Calls
<1> QED BY <1>4, <1>5

\* The bytes of a response change only what is counted, in a call that is not over.
LEMMA ArrivalStep ==
  ASSUME HttpInv, \/ Http!Framing \/ Http!ResponseData
                  \/ \E ambiguous \in BOOLEAN : Http!ResponseStart(ambiguous)
  PROVE  HttpInv'
<1> DEFINE c == Http!Counted(call)
<1>1. Http!Arriving /\ call \in Calls /\ MaxResponse \in Nat
  BY HostAssumptions DEF Http!Framing, Http!ResponseData, Http!ResponseStart, HttpInv,
     Http!HttpAssumption
<1>2. call.result # "whole" /\ call.phase = "waiting"
  BY <1>1 DEF HttpInv, ResponseKept, HandlesKept, Http!Arriving, Http!Ongoing
<1>3. /\ c \in Calls /\ c.result # "whole"
      /\ c.phase = call.phase /\ c.facts = call.facts /\ c.fields = call.fields
      /\ c.told = call.told /\ c.socket = call.socket /\ c.timer = call.timer
      /\ c.client = call.client /\ c.body = call.body /\ c.server = call.server
      /\ ~ c.finished => c.wire <= MaxWire /\ c.result = "none" /\ call.body <= MaxResponse
  BY <1>1, <1>2, CountedKeeps DEF Calls, HttpInv, ResponseKept
<1> HIDE DEF c
<1>4. /\ call' \in Calls /\ call'.result # "whole"
      /\ call'.phase = call.phase /\ call'.facts = call.facts /\ call'.fields = call.fields
      /\ call'.told = call.told /\ call'.socket = call.socket /\ call'.timer = call.timer
      /\ call'.client = call.client
      /\ ~ call'.finished =>
           call'.wire <= MaxWire /\ call'.result = "none" /\ call'.body <= MaxResponse
  <2>1. CASE Http!Framing
    BY <1>3, <2>1 DEF Http!Framing, c
  <2>2. CASE Http!ResponseData
    <3>1. call.server > 0 /\ call.server \in Nat
      BY <1>1, <2>2 DEF Http!ResponseData, Calls
    <3> DEFINE d == [c EXCEPT !.server = call.server - 1]
               e == [d EXCEPT !.body = d.body + 1]
    <3>2. /\ d \in Calls /\ d.result # "whole" /\ d.finished = c.finished
          /\ d.phase = call.phase /\ d.facts = call.facts /\ d.fields = call.fields
          /\ d.told = call.told /\ d.socket = call.socket /\ d.timer = call.timer
          /\ d.client = call.client /\ d.body = call.body
          /\ ~ d.finished => d.wire <= MaxWire /\ d.result = "none" /\ d.body <= MaxResponse
      BY <1>3, <3>1 DEF Calls
    <3>3. call' = CASE d.finished -> d
                    [] ~ d.finished /\ d.body + 1 > MaxResponse -> Http!Failed(e)
                    [] OTHER -> e
      BY <2>2 DEF Http!ResponseData, Http!TooLong, c
    <3> HIDE DEF d
    <3>4. /\ e \in Calls /\ e.result # "whole" /\ e.finished = d.finished
          /\ e.phase = call.phase /\ e.facts = call.facts /\ e.fields = call.fields
          /\ e.told = call.told /\ e.socket = call.socket /\ e.timer = call.timer
          /\ e.client = call.client /\ e.body = d.body + 1
          /\ ~ e.finished => e.wire <= MaxWire /\ e.result = "none"
      BY <3>2 DEF Calls
    <3> HIDE DEF e
    <3>5. CASE d.finished
      BY <3>2, <3>3, <3>5
    <3>6. CASE ~ d.finished /\ d.body + 1 > MaxResponse
      BY <3>3, <3>4, <3>6, FailedKeeps
    <3>7. CASE ~ d.finished /\ ~ (d.body + 1 > MaxResponse)
      BY <1>1, <3>2, <3>3, <3>4, <3>7 DEF Calls
    <3> QED BY <3>5, <3>6, <3>7
  <2>3. ASSUME NEW ambiguous \in BOOLEAN, Http!ResponseStart(ambiguous)
        PROVE  <1>4
    <3> DEFINE d == [c EXCEPT !.final = TRUE]
    <3>1. /\ d \in Calls /\ d.result # "whole" /\ d.finished = c.finished
          /\ d.phase = call.phase /\ d.facts = call.facts /\ d.fields = call.fields
          /\ d.told = call.told /\ d.socket = call.socket /\ d.timer = call.timer
          /\ d.client = call.client
          /\ ~ d.finished => d.wire <= MaxWire /\ d.result = "none" /\ d.body <= MaxResponse
      BY <1>3 DEF Calls
    <3>2. call' = IF ambiguous THEN Http!Failed(d) ELSE d
      BY <2>3 DEF Http!ResponseStart, c
    <3> HIDE DEF d
    <3> QED BY <3>1, <3>2, FailedKeeps
  <2> QED BY <2>1, <2>2, <2>3
<1> QED BY <1>2, <1>4 DEF HttpInv, ResponseKept, HandlesKept, HeadersKept, Lawful

LEMMA EndStep ==
  ASSUME HttpInv, Http!ResponseEnd \/ Http!ConnectionLost \/ Http!Deadline \/ Http!SocketCloses
  PROVE  HttpInv'
<1> USE DEF HttpInv, Calls, ResponseKept, HandlesKept, HeadersKept, Lawful, Http!Complete,
        Http!Failed
<1>1. CASE Http!ResponseEnd
  BY ZenonT(60), <1>1 DEF Http!ResponseEnd, Http!Arriving
<1>2. CASE Http!ConnectionLost
  BY <1>2 DEF Http!ConnectionLost, Http!Ongoing
<1>3. CASE Http!Deadline
  BY ZenonT(60), <1>3 DEF Http!Deadline
<1>4. CASE Http!SocketCloses
  BY <1>4 DEF Http!SocketCloses
<1> QED BY <1>1, <1>2, <1>3, <1>4

LEMMA CleanupStep ==
  ASSUME HttpInv, \/ \E interrupted \in BOOLEAN : Http!Cleanup(interrupted)
                  \/ \E clean \in BOOLEAN : Http!Return(clean)
  PROVE  HttpInv'
<1>1. ASSUME NEW interrupted \in BOOLEAN, Http!Cleanup(interrupted) PROVE HttpInv'
  <2>1. /\ call' \in Calls /\ call'.phase = "closing" /\ call.phase = "waiting"
        /\ call'.facts = call.facts /\ call'.fields = call.fields /\ call'.told = call.told
    BY ZenonT(60), <1>1 DEF HttpInv, Calls, Http!Cleanup, Http!Destroyed
  <2>2. ResponseKept' /\ HandlesKept'
    BY <1>1 DEF HttpInv, Calls, ResponseKept, HandlesKept, Http!Cleanup, Http!Destroyed
  <2> QED BY <2>1, <2>2 DEF HttpInv, HeadersKept, Lawful
<1>2. ASSUME NEW clean \in BOOLEAN, Http!Return(clean) PROVE HttpInv'
  <2>1. /\ call' \in Calls /\ call'.phase = "returned" /\ call.phase = "closing"
        /\ call'.facts = call.facts /\ call'.fields = call.fields /\ call'.told = call.told
    BY <1>2 DEF HttpInv, Calls, Http!Return
  <2>2. HandlesKept'
    BY <1>2 DEF HttpInv, Calls, HandlesKept, Http!Return, Http!Joined
  <2>3. /\ call'.finished = call.finished /\ call'.over = call.over
        /\ call'.final = call.final /\ call'.server = call.server
        /\ call'.body = call.body /\ call'.wire = call.wire
        /\ call'.result \in {call.result, "unknown"}
    BY <1>2 DEF HttpInv, Calls, Http!Return
  <2>4. call.finished
    BY <1>2 DEF HttpInv, HandlesKept, Http!Return
  <2>5. ResponseKept'
    BY <2>3, <2>4 DEF HttpInv, ResponseKept
  <2> QED BY <2>1, <2>2, <2>5 DEF HttpInv, HeadersKept, Lawful
<1> QED BY <1>1, <1>2

LEMMA HttpStep == ASSUME HttpInv, Http!Next PROVE HttpInv'
BY AdmitStep, AuthorizeStep, SendStep, ConnectedStep, ArrivalStep, EndStep, CleanupStep
   DEF Http!Next

LEMMA HttpSafe ==
  ASSUME HttpInv
  PROVE  Http!ResponsesWhole /\ Http!NothingLeft /\ Http!CredentialsBound
<1>1. Http!ResponsesWhole /\ Http!NothingLeft
  BY DEF HttpInv, ResponseKept, HandlesKept, Http!ResponsesWhole, Http!NothingLeft, Calls
<1>2. ASSUME NEW pair \in call.told, pair[2] \in Live
      PROVE  /\ pair[1] \in Secure
             /\ \/ call.facts.kind = "exchange"
                \/ \E a \in DOMAIN Issued :
                     /\ a = [endpoint |-> pair[1], principal |-> call.facts.principal]
                     /\ pair[2] \in Issued[a]
             /\ call.facts.kind = "send" =>
                  \E p \in Provider : Http!OwnersOf(call.facts) = {p}
  <2>1. pair[1] = call.facts.endpoint /\ pair[2] \in call.fields
    BY <1>2 DEF HttpInv, HeadersKept
  <2>2. Lawful(pair[2])
    BY <2>1 DEF HttpInv, HeadersKept
  <2>3. ASSUME call.facts.kind = "send"
        PROVE  \E p \in Provider : Http!OwnersOf(call.facts) = {p}
    <3>1. Http!Admissible(call.facts)
      BY <1>2 DEF HttpInv, HeadersKept, Calls
    <3>2. Cardinality(Http!OwnersOf(call.facts)) = 1
      BY <2>3, <3>1, HttpFinite DEF Http!Admissible
    <3>3. Http!OwnersOf(call.facts) \in SUBSET Provider /\ IsFiniteSet(Provider)
      BY HostAssumptions, HttpFinite DEF Http!OwnersOf, Http!HttpAssumption
    <3>4. \E p : Http!OwnersOf(call.facts) = {p}
      BY <3>2, <3>3, FS_Singleton, FS_Subset
    <3> QED BY <3>3, <3>4
  <2> QED BY <1>2, <2>1, <2>2, <2>3 DEF Lawful
<1> QED BY <1>1, <1>2 DEF Http!CredentialsBound

-----------------------------------------------------------------------------
(* One native program *)

LEMMA NativeInit == ASSUME Native!Init PROVE NativeInv
BY HostAssumptions DEF Native!Init, Native!ProcessAssumption, NativeInv, Commands, Systems,
   OutputCounted, ProgramsHeld, CloseKept, Native!Alive, Native!Empty

\* Before the program runs there is nothing to read or to kill.
LEMMA SetUpStep ==
  ASSUME NativeInv, Native!OpenRepository \/ Native!Spawn \/ Native!CloseRepository
  PROVE  NativeInv'
<1>1. CASE Native!OpenRepository
  <2>1. command' \in Commands /\ system' \in Systems
    BY ZenonT(60), <1>1 DEF Native!OpenRepository, NativeInv, Commands, Systems
  <2>2. OutputCounted'
    BY <1>1 DEF Native!OpenRepository, NativeInv, Commands, Systems, OutputCounted
  <2>3. ProgramsHeld'
    BY <1>1 DEF Native!OpenRepository, NativeInv, Commands, Systems, ProgramsHeld, Native!Alive
  <2>4. CloseKept'
    BY <1>1 DEF Native!OpenRepository, NativeInv, Commands, Systems, CloseKept, Native!Empty
  <2> QED BY <2>1, <2>2, <2>3, <2>4 DEF NativeInv
<1>2. CASE Native!Spawn
  <2>1. command' \in Commands /\ system' \in Systems
    <3>1. \/ command' = [command EXCEPT !.phase = "running", !.timer = TRUE]
          \/ command' = [command EXCEPT !.phase = "running", !.timer = TRUE, !.failed = TRUE]
          \/ command' = [command EXCEPT !.phase = "returned", !.failed = TRUE,
                                        !.result = "failed"]
      BY <1>2 DEF Native!Spawn
    <3>2. command' \in Commands
      BY <3>1 DEF NativeInv, Commands
    <3>3. \/ system' = [system EXCEPT !.child = "running"]
          \/ system' = [system EXCEPT !.child = "exited", !.code = "failure"]
          \/ system' = system
      BY <1>2 DEF Native!Spawn
    <3>4. system' \in Systems
      BY <3>3 DEF NativeInv, Systems
    <3> QED BY <3>2, <3>4
  <2>2. OutputCounted'
    BY <1>2 DEF Native!Spawn, NativeInv, Commands, Systems, OutputCounted
  <2>3. ProgramsHeld'
    BY <1>2 DEF Native!Spawn, NativeInv, Commands, Systems, ProgramsHeld, Native!Alive
  <2>4. CloseKept'
    BY <1>2 DEF Native!Spawn, NativeInv, Commands, Systems, CloseKept, Native!Empty
  <2> QED BY <2>1, <2>2, <2>3, <2>4 DEF NativeInv
<1>3. CASE Native!CloseRepository
  <2>1. command' \in Commands /\ system' \in Systems
    BY <1>3 DEF Native!CloseRepository, Native!Over, NativeInv, Commands, Systems
  <2>2. OutputCounted'
    BY <1>3 DEF Native!CloseRepository, Native!Over, NativeInv, Commands, Systems, OutputCounted
  <2>3. ProgramsHeld'
    BY <1>3 DEF Native!CloseRepository, Native!Over, NativeInv, Commands, Systems, ProgramsHeld,
       Native!Alive
  <2>4. CloseKept'
    BY <1>3 DEF Native!CloseRepository, Native!Over, NativeInv, Commands, Systems, CloseKept,
       Native!Empty
  <2> QED BY <2>1, <2>2, <2>3, <2>4 DEF NativeInv
<1> QED BY <1>1, <1>2, <1>3

\* Only living processes write, and they die once.
LEMMA ProgramStep ==
  ASSUME NativeInv, \/ Native!Fork \/ Native!Exit \/ Native!Die
                    \/ \E pipe \in {"stdout", "stderr"} : Native!Write(pipe)
  PROVE  NativeInv'
<1>1. CASE Native!Fork
  BY <1>1 DEF Native!Fork, NativeInv, Commands, Systems, OutputCounted, ProgramsHeld, CloseKept,
     Native!Alive, Native!Empty
<1>2. CASE Native!Exit
  BY ZenonT(60), <1>2 DEF Native!Exit, NativeInv, Commands, Systems, OutputCounted, ProgramsHeld,
     CloseKept,
     Native!Alive, Native!Empty
<1>3. CASE Native!Die
  BY ZenonT(60), <1>3 DEF Native!Die, Native!GroupKilled, NativeInv, Commands, Systems,
     OutputCounted,
     ProgramsHeld, CloseKept, Native!Alive, Native!Empty
<1>4. ASSUME NEW pipe \in {"stdout", "stderr"}, Native!Write(pipe) PROVE NativeInv'
  <2>1. /\ system' \in Systems
        /\ system'.out + system'.err = system.out + system.err + 1
        /\ system'.wrote = system.wrote + 1 /\ system'.child = system.child
        /\ system'.helper = system.helper /\ system'.directory = system.directory
    <3>1. \/ system' = [system EXCEPT !.out = system.out + 1, !.wrote = system.wrote + 1]
          \/ system' = [system EXCEPT !.err = system.err + 1, !.wrote = system.wrote + 1]
      BY <1>4 DEF Native!Write
    <3>2. system \in Systems /\ system.out \in Nat /\ system.err \in Nat /\ system.wrote \in Nat
      BY DEF NativeInv, Systems
    <3>3. CASE system' = [system EXCEPT !.out = system.out + 1, !.wrote = system.wrote + 1]
      <4>1. /\ system'.out = system.out + 1 /\ system'.err = system.err
            /\ system'.wrote = system.wrote + 1 /\ system'.child = system.child
            /\ system'.helper = system.helper /\ system'.directory = system.directory
        BY <3>2, <3>3 DEF Systems
      <4> DEFINE more == system.out + 1
                 wrote == system.wrote + 1
      <4>2. system' \in Systems
        <5>1. more \in Nat /\ wrote \in Nat /\ system' = [system EXCEPT !.out = more, !.wrote = wrote]
          BY <3>2, <3>3
        <5> HIDE DEF more, wrote
        <5> QED BY <3>2, <5>1 DEF Systems
      <4> HIDE DEF more, wrote
      <4> QED BY <3>2, <4>1, <4>2
    <3>4. CASE system' = [system EXCEPT !.err = system.err + 1, !.wrote = system.wrote + 1]
      <4>1. /\ system'.err = system.err + 1 /\ system'.out = system.out
            /\ system'.wrote = system.wrote + 1 /\ system'.child = system.child
            /\ system'.helper = system.helper /\ system'.directory = system.directory
        BY <3>2, <3>4 DEF Systems
      <4> DEFINE more == system.err + 1
                 wrote == system.wrote + 1
      <4>2. system' \in Systems
        <5>1. more \in Nat /\ wrote \in Nat /\ system' = [system EXCEPT !.err = more, !.wrote = wrote]
          BY <3>2, <3>4
        <5> HIDE DEF more, wrote
        <5> QED BY <3>2, <5>1 DEF Systems
      <4> HIDE DEF more, wrote
      <4> QED BY <3>2, <4>1, <4>2
    <3> QED BY <3>1, <3>3, <3>4
  <2>2. command' = command /\ command.phase \in {"running", "stopping"}
    BY <1>4 DEF Native!Write, NativeInv, ProgramsHeld
  <2>3. OutputCounted'
    BY <2>1, <2>2 DEF NativeInv, OutputCounted, Commands, Systems
  <2>4. ProgramsHeld' /\ CloseKept'
    BY <2>1, <2>2 DEF NativeInv, ProgramsHeld, CloseKept, Native!Alive
  <2> QED BY <2>1, <2>2, <2>3, <2>4 DEF NativeInv
<1> QED BY <1>1, <1>2, <1>3, <1>4

\* A chunk leaves its pipe as it is counted.
LEMMA OutputStep ==
  ASSUME NativeInv, NEW pipe \in {"stdout", "stderr"}, Native!Output(pipe)
  PROVE  NativeInv'
<1>1. /\ command.phase \in {"running", "stopping"} /\ ~ command.finished
      /\ MaxOutput \in Nat /\ command \in Commands /\ system \in Systems
  BY HostAssumptions DEF Native!Output, Native!Listening, Native!ProcessAssumption, NativeInv
<1> DEFINE counted == [command EXCEPT !.bytes = command.bytes + 1]
           drained == IF pipe = "stdout" THEN [system EXCEPT !.out = system.out - 1]
                                         ELSE [system EXCEPT !.err = system.err - 1]
<1>2. /\ command' \in Commands /\ command'.bytes = command.bytes + 1
      /\ command'.phase = command.phase /\ command'.timer = command.timer
      /\ command'.finished = command.finished /\ command'.result = command.result
      /\ ~ command'.failed => ~ command.failed /\ command.bytes + 1 <= MaxOutput
  <2>1. /\ counted \in Commands /\ counted.bytes = command.bytes + 1
        /\ counted.phase = command.phase /\ counted.timer = command.timer
        /\ counted.finished = command.finished /\ counted.result = command.result
        /\ counted.failed = command.failed /\ counted.stdout \in Nat
    BY <1>1 DEF Commands
  <2>2. \/ counted.bytes > MaxOutput /\ command' = [counted EXCEPT !.failed = TRUE]
        \/ /\ ~ (counted.bytes > MaxOutput)
           /\ \/ command' = [counted EXCEPT !.stdout = counted.stdout + 1]
              \/ command' = [counted EXCEPT !.stdout = counted.stdout]
    BY DEF Native!Output
  <2> HIDE DEF counted
  <2>3. CASE command' = [counted EXCEPT !.failed = TRUE]
    BY <2>1, <2>3 DEF Commands
  <2>4. CASE ~ (counted.bytes > MaxOutput)
    BY <1>1, <2>1, <2>2, <2>4 DEF Commands
  <2> QED BY <2>2, <2>3, <2>4
<1>3. /\ system' \in Systems /\ system'.out + system'.err + 1 = system.out + system.err
      /\ system'.wrote = system.wrote /\ system'.child = system.child
      /\ system'.helper = system.helper /\ system'.directory = system.directory
  <2>1. /\ drained \in Systems /\ drained.out + drained.err + 1 = system.out + system.err
        /\ drained.wrote = system.wrote /\ drained.child = system.child
        /\ drained.helper = system.helper /\ drained.directory = system.directory
    <3>1. CASE pipe = "stdout"
      <4>1. system.out > 0 /\ system.out \in Nat /\ system.err \in Nat
        BY <1>1, <3>1 DEF Native!Output, Systems
      <4> QED BY <1>1, <3>1, <4>1 DEF Systems
    <3>2. CASE pipe = "stderr"
      <4>1. system.err > 0 /\ system.out \in Nat /\ system.err \in Nat
        BY <1>1, <3>2 DEF Native!Output, Systems
      <4> QED BY <1>1, <3>2, <4>1 DEF Systems
    <3> QED BY <3>1, <3>2
  <2>2. system' = [drained EXCEPT !.killed = TRUE] \/ system' = drained
    BY DEF Native!Output
  <2> HIDE DEF drained
  <2> QED BY <2>1, <2>2 DEF Systems
<1>4. OutputCounted'
  BY <1>1, <1>2, <1>3 DEF NativeInv, OutputCounted, Commands, Systems
<1>5. ProgramsHeld'
  BY <1>2, <1>3 DEF NativeInv, ProgramsHeld, Native!Alive
<1>6. CloseKept'
  BY <1>1, <1>2 DEF NativeInv, CloseKept
<1> QED BY <1>2, <1>3, <1>4, <1>5, <1>6 DEF NativeInv

\* A call that is stopped fails, and one that is closed has nothing running.
LEMMA EndOfCallStep ==
  ASSUME NativeInv, \/ Native!Timeout \/ Native!PipeError \/ Native!Close \/ Native!Interrupt
  PROVE  NativeInv'
<1>1. CASE Native!Timeout
  <2>1. command' \in Commands /\ system' \in Systems
    BY <1>1 DEF Native!Timeout, Native!Stop, Native!Kill, NativeInv, Commands, Systems
  <2>2. OutputCounted'
    BY <1>1 DEF Native!Timeout, Native!Stop, Native!Kill, NativeInv, Commands, Systems,
       OutputCounted
  <2>3. ProgramsHeld'
    BY <1>1 DEF Native!Timeout, Native!Stop, Native!Kill, NativeInv, Commands, Systems,
       ProgramsHeld, Native!Alive
  <2>4. CloseKept'
    BY <1>1 DEF Native!Timeout, Native!Stop, Native!Kill, NativeInv, Commands, Systems,
       ProgramsHeld, CloseKept, Native!Empty
  <2> QED BY <2>1, <2>2, <2>3, <2>4 DEF NativeInv
<1>2. CASE Native!PipeError
  <2>1. command' \in Commands /\ system' \in Systems
    BY <1>2 DEF Native!PipeError, Native!Stop, Native!Kill, Native!Listening, NativeInv,
       Commands, Systems
  <2>2. OutputCounted'
    BY <1>2 DEF Native!PipeError, Native!Stop, Native!Kill, Native!Listening, NativeInv,
       Commands, Systems, OutputCounted
  <2>3. ProgramsHeld'
    BY <1>2 DEF Native!PipeError, Native!Stop, Native!Kill, Native!Listening, NativeInv,
       Commands, Systems, ProgramsHeld, Native!Alive
  <2>4. CloseKept'
    BY <1>2 DEF Native!PipeError, Native!Stop, Native!Kill, Native!Listening, NativeInv,
       Commands, Systems, CloseKept, Native!Empty
  <2> QED BY <2>1, <2>2, <2>3, <2>4 DEF NativeInv
<1>3. CASE Native!Close
  <2>1. command' \in Commands /\ system' \in Systems
    BY <1>3 DEF Native!Close, Native!OnClose, Native!Listening, NativeInv, Commands, Systems
  <2>2. OutputCounted'
    BY <1>3 DEF Native!Close, Native!OnClose, Native!Listening, NativeInv, Commands, Systems,
       OutputCounted
  <2>3. ProgramsHeld'
    BY <1>3 DEF Native!Close, Native!OnClose, Native!Listening, NativeInv, Commands, Systems,
       ProgramsHeld, Native!Alive
  <2>4. CloseKept'
    <3>1. /\ command'.phase = "returned" /\ command'.finished
          /\ command'.failed = command.failed /\ system' = system
      BY <1>3 DEF Native!Close, NativeInv, Commands
    <3> DEFINE told == IF command.phase = "stopping" THEN "interrupted"
                       ELSE IF command.failed \/ system.code = "signal" THEN "failed"
                       ELSE IF system.code = "zero" THEN "success"
                       ELSE "rejected"
    <3>2. command'.result = told
      BY <1>3 DEF Native!Close, NativeInv, Commands
    <3>4. told \in {"success", "rejected"} => ~ command.failed /\ system.code # "signal"
      <4>1. CASE command.phase = "stopping"
        BY <4>1
      <4>2. CASE command.phase # "stopping" /\ (command.failed \/ system.code = "signal")
        BY <4>2
      <4> QED BY <4>1, <4>2
    <3> HIDE DEF told
    <3>3. Native!Empty
      BY <1>3 DEF Native!Close, Native!OnClose
    <3> QED BY <3>1, <3>2, <3>3, <3>4 DEF CloseKept, Native!Empty
  <2> QED BY <2>1, <2>2, <2>3, <2>4 DEF NativeInv
<1>4. CASE Native!Interrupt
  <2>1. command' \in Commands /\ system' \in Systems
    BY <1>4 DEF Native!Interrupt, Native!Kill, NativeInv, Commands, Systems
  <2>2. OutputCounted'
    BY <1>4 DEF Native!Interrupt, Native!Kill, NativeInv, Commands, Systems, OutputCounted
  <2>3. ProgramsHeld'
    BY <1>4 DEF Native!Interrupt, Native!Kill, NativeInv, Commands, Systems, ProgramsHeld,
       Native!Alive
  <2>4. CloseKept'
    BY <1>4 DEF Native!Interrupt, Native!Kill, NativeInv, Commands, Systems, CloseKept,
       Native!Empty
  <2> QED BY <2>1, <2>2, <2>3, <2>4 DEF NativeInv
<1> QED BY <1>1, <1>2, <1>3, <1>4

LEMMA NativeStep == ASSUME NativeInv, Native!Next PROVE NativeInv'
BY SetUpStep, ProgramStep, OutputStep, EndOfCallStep DEF Native!Next

LEMMA NativeSafe == ASSUME NativeInv PROVE Native!OutputWhole /\ Native!DirectoryHeld
BY DEF NativeInv, Commands, Systems, OutputCounted, ProgramsHeld, CloseKept, Native!OutputWhole,
   Native!DirectoryHeld, Native!Empty

-----------------------------------------------------------------------------
(* One destination of restored trees *)

LEMMA TreeInit == ASSUME Tree!Init PROVE TreeInv
BY HostAssumptions DEF Tree!Init, Tree!RestoreAssumption, Tree!None, TreeInv, Disks, Restoring,
   TreeStands, StagingKept

\* A restorer's step: its record and staging directory change, and the destination, unless
\* a tree is there.
LEMMA RestorerStep ==
  ASSUME TreeInv, NEW r \in Restorer, NEW fields \in Restoring,
         restorer' = [restorer EXCEPT ![r] = fields],
         disk' \in Disks, disk'.lost = disk.lost,
         \A t \in Restorer : t # r => disk'.staging[t] = disk.staging[t],
         \/ fields.phase \in {"called", "checked"}
         \/ fields.phase = "returned" /\ fields.result # "defect"
         => disk'.staging[r] = 0,
         fields.phase \in {"verified", "claimed"} => fields.sound,
         restorer[r].phase \in {"cleaning", "returned", "dead"} =>
           /\ fields.phase \in {"cleaning", "returned", "dead"}
           /\ fields.sound = restorer[r].sound,
         fields.result = "restored" => fields.phase \in {"cleaning", "returned"},
         \/ /\ disk'.destination = disk.destination
            /\ fields.result = "restored" => restorer[r].result = "restored"
         \/ /\ disk.destination.is # "tree"
            /\ fields.result = "restored" => disk'.destination.is = "tree"
            /\ disk'.destination.is = "tree" =>
                 disk'.destination.by = r /\ fields.sound /\ fields.phase = "cleaning"
  PROVE  TreeInv'
<1>1. /\ restorer' \in [Restorer -> Restoring] /\ restorer'[r] = fields
      /\ \A t \in Restorer : t # r => restorer'[t] = restorer[t]
  BY DEF TreeInv
<1>2. TreeStands'
  BY <1>1 DEF TreeInv, TreeStands
<1>3. StagingKept'
  BY <1>1 DEF TreeInv, StagingKept
<1> QED BY <1>1, <1>2, <1>3 DEF TreeInv

LEMMA TreeStep ==
  ASSUME TreeInv, Tree!Next
  PROVE  TreeInv'
<1> USE HostAssumptions DEF Tree!RestoreAssumption, Tree!None, Tree!At, Tree!Step, Tree!Fails
<1>1. CASE Tree!Foreign
  <2>1. disk.destination.is \in {"nothing", "empty"} /\ restorer' = restorer
    BY <1>1 DEF Tree!Foreign
  <2>2. PICK is \in {"nothing", "empty", "files"}, by \in {"none", "other", disk.destination.by} :
          disk' = [disk EXCEPT !.destination = [is |-> is, by |-> by],
                               !.foreign = disk.foreign + 1]
    <3>1. disk.destination = [is |-> disk.destination.is, by |-> disk.destination.by]
      BY DEF TreeInv, Disks
    <3>2. CASE disk' = [disk EXCEPT !.destination.is = "files", !.foreign = @ + 1]
      <4>1. [disk.destination EXCEPT !.is = "files"]
              = [is |-> "files", by |-> disk.destination.by]
        BY <3>1
      <4>2. disk' = [disk EXCEPT !.destination = [is |-> "files", by |-> disk.destination.by],
                                 !.foreign = disk.foreign + 1]
        BY <3>2, <4>1
      <4> QED BY <4>2
    <3> QED BY <1>1, <3>2 DEF Tree!Foreign, Tree!Nowhere
  <2>3. [is |-> is, by |-> by] \in
          [is : {"nothing", "empty", "files", "tree"}, by : Restorer \cup {"other", "none"}]
    BY DEF TreeInv, Disks
  <2>4. /\ disk' \in Disks /\ disk'.lost = disk.lost /\ disk'.staging = disk.staging
        /\ disk'.destination.is # "tree"
    <3> DEFINE destination == [is |-> is, by |-> by]
               count == disk.foreign + 1
    <3>1. count \in Nat /\ destination.is # "tree"
      BY DEF TreeInv, Disks
    <3>2. disk' = [disk EXCEPT !.destination = destination, !.foreign = count] /\ disk \in Disks
      BY <2>2 DEF TreeInv
    <3>3. destination \in
            [is : {"nothing", "empty", "files", "tree"}, by : Restorer \cup {"other", "none"}]
      BY <2>3
    <3> HIDE DEF destination, count
    <3> QED BY <3>1, <3>2, <3>3 DEF Disks
  <2> QED BY <2>1, <2>4 DEF TreeInv, TreeStands, StagingKept
<1>2. ASSUME NEW r \in Restorer,
             \/ Tree!Check(r) \/ Tree!Stage(r) \/ Tree!Write(r) \/ Tree!Verify(r)
             \/ Tree!Claim(r) \/ Tree!Move(r) \/ Tree!Clean(r)
             \/ Tree!Interrupt(r) \/ Tree!Die(r)
      PROVE  TreeInv'
  <2> DEFINE mine == restorer[r]
             Moved(phase) == [mine EXCEPT !.phase = phase]
             Failing == [mine EXCEPT !.phase = "cleaning", !.result = "failed"]
  <2>1. /\ mine \in Restoring /\ Failing \in Restoring
        /\ Failing.phase = "cleaning" /\ Failing.result = "failed" /\ Failing.sound = mine.sound
        /\ disk \in Disks /\ disk.staging[r] \in 0..Entries + 1 /\ Entries \in Nat
        /\ disk.destination.is \in {"nothing", "empty", "files", "tree"}
        /\ mine.phase \in {"called", "checked"} => disk.staging[r] = 0
        /\ mine.phase \in {"verified", "claimed"} => mine.sound
        /\ mine.result = "restored" => mine.phase \in {"cleaning", "returned"}
    BY ZenonT(60) DEF TreeInv, Disks, Restoring, TreeStands, StagingKept
  <2>10. ASSUME NEW phase \in {"checked", "staging", "verified", "claimed", "returned"}
        PROVE  /\ Moved(phase) \in Restoring /\ Moved(phase).phase = phase
               /\ Moved(phase).sound = mine.sound /\ Moved(phase).result = mine.result
    BY <2>1 DEF Restoring
  <2>11. ASSUME mine.phase \in {"called", "checked"}, disk' = disk,
                restorer' = [restorer EXCEPT ![r] =
                               [mine EXCEPT !.phase = "returned", !.result = "failed"]]
         PROVE  TreeInv'
    <3> DEFINE fields == [mine EXCEPT !.phase = "returned", !.result = "failed"]
    <3>1. fields \in Restoring /\ fields.phase = "returned" /\ fields.result = "failed"
          /\ fields.sound = mine.sound
      BY <2>1 DEF Restoring
    <3> HIDE DEF fields
    <3> QED BY <2>1, <2>11, <3>1, RestorerStep DEF fields
  <2>2. CASE Tree!Check(r)
    <3>1. disk' = disk /\ mine.phase = "called"
      BY <2>2 DEF Tree!Check
    <3>2. CASE restorer' = [restorer EXCEPT ![r] = Moved("checked")]
      <4> HIDE DEF Moved
      <4> QED BY <2>1, <2>10, <3>1, <3>2, RestorerStep
    <3> QED BY <2>2, <2>11, <3>1, <3>2 DEF Tree!Check
  <2>3. CASE Tree!Stage(r)
    <3>1. mine.phase = "checked"
      BY <2>3 DEF Tree!Stage
    <3>2. CASE disk' = [disk EXCEPT !.staging[r] = 1]
      <4>1. /\ disk'.lost = disk.lost /\ disk'.destination = disk.destination /\ disk' \in Disks
            /\ \A t \in Restorer : t # r => disk'.staging[t] = disk.staging[t]
        BY <2>1, <3>2 DEF Disks
      <4>2. CASE restorer' = [restorer EXCEPT ![r] = Moved("staging")]
        <5> HIDE DEF Moved
        <5> QED BY <2>1, <2>10, <3>1, <4>1, <4>2, RestorerStep
      <4>3. CASE disk' = disk
        BY <2>3, <2>11, <3>1, <4>2, <4>3 DEF Tree!Stage
      <4> QED BY <2>3, <4>2, <4>3 DEF Tree!Stage
    <3> QED BY <2>3, <2>11, <3>1, <3>2 DEF Tree!Stage
  <2>4. CASE Tree!Write(r)
    <3>1. mine.phase = "staging"
      BY <2>4 DEF Tree!Write
    <3>2. CASE Tree!Fails(r) /\ disk' = disk
      BY <2>1, <3>1, <3>2, RestorerStep
    <3>3. CASE ~ (Tree!Fails(r) /\ disk' = disk)
      <4>1. PICK sound \in BOOLEAN :
              restorer' = [restorer EXCEPT ![r] = [mine EXCEPT !.sound = mine.sound /\ sound]]
        BY <2>4, <3>3 DEF Tree!Write
      <4> DEFINE fields == [mine EXCEPT !.sound = mine.sound /\ sound]
      <4>2. fields \in Restoring /\ fields.phase = "staging" /\ fields.result = mine.result
        BY <2>1, <3>1 DEF Restoring
      <4>3. /\ disk'.lost = disk.lost /\ disk'.destination = disk.destination /\ disk' \in Disks
            /\ \A t \in Restorer : t # r => disk'.staging[t] = disk.staging[t]
        BY <2>1, <2>4, <3>3 DEF Tree!Write, Disks
      <4>4. restorer' = [restorer EXCEPT ![r] = fields]
        BY <4>1
      <4> HIDE DEF fields
      <4> QED BY <2>1, <3>1, <4>2, <4>3, <4>4, RestorerStep
    <3> QED BY <3>2, <3>3
  <2>5. CASE Tree!Verify(r)
    <3>1. /\ disk' \in Disks /\ mine.phase = "staging" /\ disk'.lost = disk.lost
          /\ disk'.destination = disk.destination /\ disk'.staging = disk.staging
      BY <2>1, <2>5 DEF Tree!Verify, Disks
    <3>2. CASE Tree!SameIdentity(r)
      <4>1. restorer' = [restorer EXCEPT ![r] = Moved("verified")] /\ mine.sound
        BY <2>5, <3>2 DEF Tree!Verify, Tree!SameIdentity
      <4> HIDE DEF Moved
      <4> QED BY <2>1, <2>10, <3>1, <4>1, RestorerStep
    <3>3. CASE ~ Tree!SameIdentity(r)
      <4>1. restorer' = [restorer EXCEPT ![r] = Failing]
        BY <2>5, <3>3 DEF Tree!Verify
      <4> HIDE DEF Failing
      <4> QED BY <2>1, <3>1, <4>1, RestorerStep
    <3> QED BY <3>2, <3>3
  <2>6. CASE Tree!Claim(r)
    <3>1. CASE Tree!Unoccupied
      <4>1. restorer' = [restorer EXCEPT ![r] = Moved("claimed")] /\ mine.phase = "verified"
        BY <2>6, <3>1 DEF Tree!Claim
      <4>2. /\ disk' \in Disks /\ disk'.lost = disk.lost
            /\ disk.destination.is # "tree" /\ disk'.destination.is # "tree"
            /\ disk'.staging = disk.staging
        BY <2>1, <2>6, <3>1 DEF Tree!Claim, Tree!Unoccupied, Disks
      <4> HIDE DEF Moved
      <4> QED BY <2>1, <2>10, <4>1, <4>2, RestorerStep
    <3>2. CASE ~ Tree!Unoccupied
      BY <2>1, <2>6, <3>2, RestorerStep DEF Tree!Claim
    <3> QED BY <3>1, <3>2
  <2>7. CASE Tree!Move(r)
    <3>1. CASE Tree!Fails(r) /\ disk' = disk
      BY <2>1, <2>7, <3>1, RestorerStep DEF Tree!Move
    <3>2. CASE ~ (Tree!Fails(r) /\ disk' = disk)
      <4> DEFINE fields == [mine EXCEPT !.phase = "cleaning", !.result = "restored"]
      <4>1. restorer' = [restorer EXCEPT ![r] = fields] /\ mine.phase = "claimed"
            /\ Tree!Replaces
            /\ disk' = [disk EXCEPT !.destination = [is |-> "tree", by |-> r], !.staging[r] = 0,
                          !.lost = @ \/ disk.destination.is \in {"files", "tree"}]
        BY <2>7, <3>2 DEF Tree!Move
      <4>2. fields \in Restoring /\ fields.phase = "cleaning" /\ fields.sound = mine.sound
        BY <2>1 DEF Restoring
      <4>3. /\ disk'.destination = [is |-> "tree", by |-> r] /\ disk.destination.is # "tree"
            /\ disk'.lost = disk.lost
            /\ \A t \in Restorer : t # r => disk'.staging[t] = disk.staging[t]
        BY <2>1, <4>1 DEF Tree!Replaces, Disks
      <4>4. disk' \in Disks
        <5>1. [is |-> "tree", by |-> r] \in
                [is : {"nothing", "empty", "files", "tree"}, by : Restorer \cup {"other", "none"}]
          OBVIOUS
        <5>2. [disk.staging EXCEPT ![r] = 0] \in [Restorer -> 0..Entries + 1]
          BY <2>1 DEF Disks
        <5> DEFINE put == [is |-> "tree", by |-> r]
                   staged == [disk.staging EXCEPT ![r] = 0]
                   lost == disk.lost \/ disk.destination.is \in {"files", "tree"}
        <5>3. disk' = [disk EXCEPT !.destination = put, !.staging = staged, !.lost = lost]
              /\ lost \in BOOLEAN
          BY <4>1
        <5> HIDE DEF put, staged, lost
        <5> QED BY <2>1, <5>1, <5>2, <5>3 DEF Disks, put, staged
      <4>5. /\ restorer' = [restorer EXCEPT ![r] = fields] /\ mine.phase = "claimed"
            /\ disk'.destination.is = "tree" /\ disk'.destination.by = r
        BY <4>1, <4>3
      <4>6. /\ disk.destination.is # "tree" /\ disk'.lost = disk.lost
            /\ \A t \in Restorer : t # r => disk'.staging[t] = disk.staging[t]
        BY <4>3
      <4> HIDE DEF fields
      <4> QED BY <2>1, <4>2, <4>4, <4>5, <4>6, RestorerStep
    <3> QED BY <3>1, <3>2
  <2>8. CASE Tree!Clean(r)
    <3>1. CASE /\ restorer' = [restorer EXCEPT ![r] = Moved("returned")]
               /\ disk' = [disk EXCEPT !.staging[r] = 0, !.locked = @ \ {r}]
      <4>1. restorer' = [restorer EXCEPT ![r] = Moved("returned")] /\ mine.phase = "cleaning"
            /\ disk' = [disk EXCEPT !.staging[r] = 0, !.locked = disk.locked \ {r}]
        BY <2>8, <3>1 DEF Tree!Clean
      <4>2. /\ disk'.lost = disk.lost
            /\ disk'.destination = disk.destination /\ disk'.staging[r] = 0
            /\ \A t \in Restorer : t # r => disk'.staging[t] = disk.staging[t]
        BY <2>1, <4>1 DEF Disks
      <4>3. disk' \in Disks
        <5> DEFINE staged == [disk.staging EXCEPT ![r] = 0]
                   locked == disk.locked \ {r}
        <5>1. staged \in [Restorer -> 0..Entries + 1] /\ locked \in SUBSET Restorer
          BY <2>1 DEF Disks
        <5>2. disk' = [disk EXCEPT !.staging = staged, !.locked = locked]
          BY <4>1
        <5> HIDE DEF staged, locked
        <5> QED BY <2>1, <5>1, <5>2 DEF Disks
      <4> DEFINE fields == Moved("returned")
      <4>4. /\ fields \in Restoring /\ fields.phase = "returned"
            /\ fields.sound = mine.sound /\ fields.result = mine.result
            /\ restorer' = [restorer EXCEPT ![r] = fields]
        BY <2>10, <4>1
      <4>5. mine.phase = "cleaning"
        BY <4>1
      <4> HIDE DEF fields
      <4> QED BY <2>1, <4>2, <4>3, <4>4, <4>5, RestorerStep
    <3>2. CASE restorer' = [restorer EXCEPT ![r] =
                              [mine EXCEPT !.phase = "returned", !.result = "defect"]]
              /\ disk' = disk
      <4> DEFINE fields == [mine EXCEPT !.phase = "returned", !.result = "defect"]
      <4>1. fields \in Restoring /\ fields.phase = "returned" /\ fields.result = "defect"
            /\ fields.sound = mine.sound
        BY <2>1 DEF Restoring
      <4>2. mine.phase = "cleaning"
        BY <2>8 DEF Tree!Clean
      <4> HIDE DEF fields
      <4> QED BY <2>1, <3>2, <4>1, <4>2, RestorerStep DEF fields
    <3> QED BY <2>8, <3>1, <3>2 DEF Tree!Clean, Tree!Removable
  <2>9. CASE Tree!Interrupt(r) \/ Tree!Die(r)
    <3>1. CASE Tree!Interrupt(r)
      BY <2>1, <3>1, RestorerStep DEF Tree!Interrupt
    <3>2. CASE Tree!Die(r)
      <4> DEFINE fields == [mine EXCEPT !.phase = "dead", !.result = "none"]
      <4>1. /\ fields \in Restoring /\ fields.phase = "dead" /\ fields.result = "none"
            /\ fields.sound = mine.sound
        BY <2>1 DEF Restoring
      <4>2. restorer' = [restorer EXCEPT ![r] = fields] /\ disk' = disk
            /\ mine.phase # "returned"
        BY <3>2 DEF Tree!Die
      <4> HIDE DEF fields
      <4> QED BY <2>1, <4>1, <4>2, RestorerStep
    <3> QED BY <2>9, <3>1, <3>2
  <2> QED BY <1>2, <2>2, <2>3, <2>4, <2>5, <2>6, <2>7, <2>8, <2>9
<1> QED BY <1>1, <1>2 DEF Tree!Next

LEMMA TreeSafe == ASSUME TreeInv PROVE Tree!RestoredWhole /\ Tree!StagingRemoved
BY DEF TreeInv, Disks, TreeStands, StagingKept, Tree!RestoredWhole, Tree!StagingRemoved, Tree!At

-----------------------------------------------------------------------------
(* One collection of Apple sources *)

LEMMA AppleInit == ASSUME Apple!Init PROVE AppleInv
<1> USE HostAssumptions DEF Apple!AppleAssumption, Apple!Init, Apple!None, Apple!Idle,
        Apple!NoOutput
<1>1. journal \in Journals /\ apple \in Services /\ runner \in [Runner -> Runners]
  BY DEF Journals, Services, Runners, Apple!Number
<1>2. SubmissionsKept
  BY DEF SubmissionsKept, Apple!Number
<1>3. NumbersKept /\ SelectionKept
  BY DEF NumbersKept, SelectionKept
<1> QED BY <1>1, <1>2, <1>3 DEF AppleInv

\* What Apple has it keeps, and so every number that is remembered stays good.
AppleGrows ==
  \A n \in Apple!Number :
    apple.source[n] # "none" =>
      /\ apple'.source[n] = apple.source[n]
      /\ apple.status[n] = "Accepted" => apple'.status[n] = "Accepted"

LEMMA TicketsStay ==
  ASSUME AppleInv, AppleGrows, NEW number, NEW source \in Signed
  PROVE  /\ Holds(number, source) => Holds(number, source)'
         /\ Ticketed(number, source) => Ticketed(number, source)'
BY HostAssumptions DEF Apple!AppleAssumption, AppleGrows, Holds, Ticketed, Apple!Number

RunnerGood(fields) ==
  /\ fields.phase # "idle" => fields.of \in Signed
  /\ fields.phase = "answered" => Holds(fields.number, fields.of)
  /\ fields.phase = "accepted" => Ticketed(fields.number, fields.of)
  /\ fields.phase \in {"stapled", "adopted"} =>
       /\ fields.output \in Apple!Output /\ fields.output.of = fields.of
       /\ Ticketed(fields.output.ticket, fields.of)

LEMMA NumbersStay ==
  ASSUME AppleInv, AppleGrows, store \subseteq store',
         \A r \in Runner : runner'[r] = runner[r] \/ RunnerGood(runner[r])',
         \A receipt \in journal'.receipts :
           receipt \in journal.receipts \/ Holds(receipt[2], receipt[1])',
         \A output \in journal'.selected :
           output \in journal.selected \/ (output \in store' /\ Ticketed(output.ticket, output.of)')
  PROVE  NumbersKept'
<1>1. \A receipt \in journal'.receipts : Holds(receipt[2], receipt[1])'
  BY TicketsStay DEF AppleInv, NumbersKept, Journals
<1>2. \A output \in journal'.selected : output \in store' /\ Ticketed(output.ticket, output.of)'
  BY TicketsStay DEF AppleInv, NumbersKept, Journals, Apple!Output
<1>3. ASSUME NEW r \in Runner PROVE RunnerGood(runner[r])'
  <2>1. CASE runner'[r] = runner[r]
    BY <2>1, TicketsStay DEF AppleInv, NumbersKept, RunnerGood
  <2> QED BY <2>1
<1> QED BY <1>1, <1>2, <1>3 DEF NumbersKept, RunnerGood

\* A runner's step that sends nothing.
LEMMA RunnerStep ==
  ASSUME AppleInv, NEW r \in Runner, NEW fields \in Runners,
         runner' = [runner EXCEPT ![r] = fields], fields.phase # "submitting", RunnerGood(fields),
         journal' \in Journals, UNCHANGED <<apple, publication>>, store \subseteq store',
         journal'.started = journal.started,
         \A receipt \in journal'.receipts :
           receipt \in journal.receipts \/ Holds(receipt[2], receipt[1]),
         \/ journal'.selected = journal.selected
         \/ \E output \in Apple!Output :
              /\ Apple!MaySelect(output.of) /\ journal'.selected = journal.selected \cup {output}
              /\ output \in store' /\ Ticketed(output.ticket, output.of)
  PROVE  AppleInv'
<1>1. /\ runner' \in [Runner -> Runners] /\ runner'[r] = fields
      /\ \A t \in Runner : t # r => runner'[t] = runner[t]
  BY DEF AppleInv
<1>2. SubmissionsKept'
  BY <1>1 DEF AppleInv, SubmissionsKept
<1>3. NumbersKept'
  <2>1. AppleGrows
    BY DEF AppleGrows
  <2>2. \A t \in Runner : runner'[t] = runner[t] \/ RunnerGood(runner[t])'
    BY <1>1 DEF RunnerGood, Ticketed, Holds
  <2>3. \A receipt \in journal'.receipts :
           receipt \in journal.receipts \/ Holds(receipt[2], receipt[1])'
    BY DEF Holds
  <2>4. \A output \in journal'.selected :
           output \in journal.selected \/ (output \in store' /\ Ticketed(output.ticket, output.of)')
    BY DEF Ticketed, Holds
  <2> QED BY <2>1, <2>2, <2>3, <2>4, NumbersStay
<1>4. SelectionKept'
  <2>1. CASE journal'.selected = journal.selected
    BY <2>1 DEF AppleInv, SelectionKept, Apple!HasSelected, Apple!SelectedFor
  <2>2. ASSUME NEW output \in Apple!Output, Apple!MaySelect(output.of),
               journal'.selected = journal.selected \cup {output}
        PROVE  SelectionKept'
    <3>1. \A other \in journal.selected : other.of # output.of
      BY <2>2 DEF Apple!MaySelect, Apple!SelectedFor
    <3>2. ~ publication.valid
      BY <2>2 DEF AppleInv, SelectionKept, Apple!HasSelected, Apple!MaySelect, Apple!Output
    <3> QED BY <2>2, <3>1, <3>2 DEF AppleInv, SelectionKept
  <2> QED BY <2>1, <2>2
<1> QED BY <1>1, <1>2, <1>3, <1>4 DEF AppleInv

LEMMA RecordsKept ==
  ASSUME NEW mine \in Runners, NEW p \in Signed, NEW number \in 0..MaxSubmissions,
         NEW phase \in {"submitting", "answered", "recorded", "accepted", "adopted"}
  PROVE  /\ [mine EXCEPT !.phase = phase] \in Runners
         /\ [mine EXCEPT !.phase = phase].of = mine.of
         /\ [mine EXCEPT !.phase = phase].number = mine.number
         /\ [mine EXCEPT !.phase = phase].output = mine.output
         /\ [mine EXCEPT !.phase = phase, !.number = number] \in Runners
         /\ [mine EXCEPT !.phase = phase, !.number = number].of = mine.of
         /\ [mine EXCEPT !.phase = phase, !.of = p] \in Runners
         /\ [mine EXCEPT !.phase = phase, !.of = p, !.number = number] \in Runners
BY DEF Runners

LEMMA IdleKept == Apple!Idle \in Runners /\ Apple!Idle.phase = "idle"
BY HostAssumptions DEF Apple!AppleAssumption, Apple!Idle, Apple!None, Runners

LEMMA ReceivedKept ==
  ASSUME apple \in Services, apple.sent < MaxSubmissions,
         NEW source \in Signed \cup {"elsewhere"}, apple' = Apple!Received(source)
  PROVE  /\ apple' \in Services /\ apple'.sent = apple.sent + 1
         /\ apple'.source[apple.sent + 1] = source
         /\ apple'.status[apple.sent + 1] = "InProgress"
         /\ \A m \in Apple!Number :
              m # apple.sent + 1 =>
                apple'.source[m] = apple.source[m] /\ apple'.status[m] = apple.status[m]
<1> DEFINE n == apple.sent + 1
           sources == [apple.source EXCEPT ![n] = source]
           statuses == [apple.status EXCEPT ![n] = "InProgress"]
<1>1. n \in 0..MaxSubmissions /\ n \in Apple!Number
  BY HostAssumptions DEF Services, Apple!Number, Apple!AppleAssumption
<1>2. /\ sources \in [Apple!Number -> Signed \cup {"none", "elsewhere"}] /\ sources[n] = source
      /\ statuses \in [Apple!Number -> {"none", "InProgress", "Accepted", "Rejected"}]
      /\ statuses[n] = "InProgress"
      /\ \A m \in Apple!Number :
           m # n => sources[m] = apple.source[m] /\ statuses[m] = apple.status[m]
  BY <1>1 DEF Services
<1>3. apple' = [apple EXCEPT !.sent = n, !.source = sources, !.status = statuses]
  BY DEF Apple!Received
<1> HIDE DEF n, sources, statuses
<1>4. /\ apple' \in Services /\ apple'.sent = n
      /\ apple'.source = sources /\ apple'.status = statuses
  BY <1>1, <1>2, <1>3 DEF Services
<1> QED BY <1>2, <1>4 DEF n

\* Starting and sending: who starts a source has it alone until it is sent.
LEMMA BeginStep ==
  ASSUME AppleInv, NEW r \in Runner, NEW p \in Signed, Apple!Begin(r, p)
  PROVE  AppleInv'
<1> USE DEF Apple!Step
<1>1. ASSUME p \notin journal.started,
             journal' = [journal EXCEPT !.started = journal.started \cup {p}],
             runner' = [runner EXCEPT ![r] = [Apple!Idle EXCEPT !.phase = "submitting", !.of = p]],
             UNCHANGED <<apple, store, publication>>
      PROVE  AppleInv'
  <2> DEFINE fields == [Apple!Idle EXCEPT !.phase = "submitting", !.of = p]
  <2>1. /\ journal' \in Journals /\ journal'.started = journal.started \cup {p}
        /\ journal'.receipts = journal.receipts /\ journal'.selected = journal.selected
    BY <1>1 DEF AppleInv, Journals
  <2>2. fields \in Runners /\ fields.phase = "submitting" /\ fields.of = p
    <3>1. 0 \in 0..MaxSubmissions
      BY HostAssumptions DEF Apple!AppleAssumption
    <3>2. fields \in Runners
      BY <3>1, IdleKept, RecordsKept
    <3> QED BY <3>2, IdleKept DEF Runners
  <2>3. /\ runner' \in [Runner -> Runners] /\ runner'[r].phase = "submitting"
        /\ runner'[r].of = p /\ \A t \in Runner : t # r => runner'[t] = runner[t]
    <3>1. runner' = [runner EXCEPT ![r] = fields]
      BY <1>1
    <3> HIDE DEF fields
    <3> QED BY <2>2, <3>1 DEF AppleInv
  <2>4. SubmissionsKept'
    BY <1>1, <2>1, <2>3 DEF AppleInv, SubmissionsKept
  <2>5. NumbersKept'
    <3>1. AppleGrows
      BY <1>1 DEF AppleGrows
    <3>2. \A t \in Runner : runner'[t] = runner[t] \/ RunnerGood(runner[t])'
      BY <2>3 DEF RunnerGood
    <3> QED BY <1>1, <2>1, <3>1, <3>2, NumbersStay
  <2>6. SelectionKept'
    BY <1>1, <2>1 DEF AppleInv, SelectionKept, Apple!HasSelected, Apple!SelectedFor
  <2> QED BY <1>1, <2>1, <2>3, <2>4, <2>5, <2>6 DEF AppleInv
<1>2. ASSUME NEW receipt \in journal.receipts, receipt[1] = p,
             runner' = [runner EXCEPT ![r] = [Apple!Idle EXCEPT !.phase = "recorded", !.of = p,
                                                            !.number = receipt[2]]],
             UNCHANGED <<journal, apple, store, publication>>
      PROVE  AppleInv'
  <2> DEFINE fields ==
        [Apple!Idle EXCEPT !.phase = "recorded", !.of = p, !.number = receipt[2]]
  <2>1. receipt[2] \in 0..MaxSubmissions
    BY DEF AppleInv, Journals, Apple!Number
  <2>2. fields \in Runners /\ fields.phase = "recorded" /\ fields.of = p
    <3>1. fields \in Runners
      BY <2>1, IdleKept, RecordsKept
    <3> QED BY <3>1, IdleKept DEF Runners
  <2>3. runner' = [runner EXCEPT ![r] = fields] /\ RunnerGood(fields)
    BY <1>2, <2>2 DEF RunnerGood
  <2>4. journal' \in Journals
    BY <1>2 DEF AppleInv
  <2> HIDE DEF fields
  <2> QED BY <1>2, <2>2, <2>3, <2>4, RunnerStep
<1> QED BY <1>1, <1>2 DEF Apple!Begin

LEMMA SubmitStep ==
  ASSUME AppleInv, NEW r \in Runner, Apple!Submit(r)
  PROVE  AppleInv'
<1> USE DEF Apple!Step
<1>1. /\ runner[r].phase = "submitting" /\ apple.sent < MaxSubmissions
      /\ apple' = Apple!Received(runner[r].of) /\ UNCHANGED <<journal, store, publication>>
  BY DEF Apple!Submit
<1> DEFINE n == apple.sent + 1
<1>2. /\ n \in Apple!Number /\ apple.sent \in Nat /\ runner[r].of \in Signed
      /\ runner[r] \in Runners /\ apple.source[n] = "none" /\ MaxSubmissions \in Nat
  BY <1>1, HostAssumptions DEF Apple!AppleAssumption, AppleInv, Services, Apple!Number,
     SubmissionsKept, NumbersKept
<1>3. /\ apple' \in Services /\ apple'.sent = n /\ apple'.source[n] = runner[r].of
      /\ apple'.status[n] = "InProgress"
      /\ \A m \in Apple!Number :
           m # n => apple'.source[m] = apple.source[m] /\ apple'.status[m] = apple.status[m]
  BY <1>1, <1>2, ReceivedKept DEF AppleInv
<1>4. PICK fields \in Runners :
        /\ runner' = [runner EXCEPT ![r] = fields]
        /\ \/ fields.phase = "idle"
           \/ fields.phase = "answered" /\ fields.of = runner[r].of /\ fields.number = n
  <2>1. CASE runner' = [runner EXCEPT ![r] = Apple!Idle]
    BY <2>1, IdleKept
  <2>2. CASE runner' = [runner EXCEPT ![r] = [runner[r] EXCEPT !.phase = "answered", !.number = n]]
    <3> DEFINE fields == [runner[r] EXCEPT !.phase = "answered", !.number = n]
    <3>1. /\ fields \in Runners /\ fields.phase = "answered" /\ fields.of = runner[r].of
          /\ fields.number = n
      <4>1. n \in 0..MaxSubmissions
        BY <1>2 DEF Apple!Number
      <4>2. fields \in Runners /\ fields.of = runner[r].of
        BY <1>2, <4>1, RecordsKept
      <4> QED BY <1>2, <4>2 DEF Runners
    <3> QED BY <2>2, <3>1
  <2> QED BY <2>1, <2>2 DEF Apple!Submit
<1>5. /\ runner' \in [Runner -> Runners] /\ runner'[r] = fields
      /\ \A t \in Runner : t # r => runner'[t] = runner[t]
  BY <1>4 DEF AppleInv
<1>6. SubmissionsKept'
  <2>1. runner[r].of # "none" /\ journal' = journal
    BY <1>1, <1>2, HostAssumptions DEF Apple!AppleAssumption
  <2>2. \A m \in Apple!Number : m \in Nat /\ (m > n <=> m > apple.sent /\ m # n)
    BY <1>2 DEF Apple!Number
  <2>3. \A m \in Apple!Number :
          /\ m > apple'.sent <=> apple'.source[m] = "none"
          /\ apple'.source[m] = "none" <=> apple'.status[m] = "none"
    BY <1>2, <1>3, <2>1, <2>2 DEF AppleInv, SubmissionsKept
  <2>4. \A m, o \in Apple!Number :
          apple'.source[m] \in Signed /\ apple'.source[m] = apple'.source[o] => m = o
    BY <1>1, <1>2, <1>3 DEF AppleInv, SubmissionsKept
  <2>5. \A m \in Apple!Number : apple'.source[m] \in Signed => apple'.source[m] \in journal.started
    BY <1>1, <1>2, <1>3 DEF AppleInv, SubmissionsKept
  <2>6. ASSUME NEW t \in Runner, runner'[t].phase = "submitting"
        PROVE  /\ runner'[t].of \in journal.started
               /\ \A m \in Apple!Number : apple'.source[m] # runner'[t].of
               /\ \A other \in Runner :
                    runner'[other].phase = "submitting" /\ runner'[other].of = runner'[t].of
                      => other = t
    <3>1. t # r /\ runner'[t] = runner[t]
      BY <1>4, <1>5, <2>6
    <3>2. runner[t].of # runner[r].of
      BY <1>1, <2>6, <3>1 DEF AppleInv, SubmissionsKept
    <3> QED BY <1>3, <1>4, <1>5, <2>6, <3>1, <3>2 DEF AppleInv, SubmissionsKept
  <2> QED BY <2>1, <2>3, <2>4, <2>5, <2>6 DEF SubmissionsKept
<1>7. NumbersKept'
  <2>1. AppleGrows
    BY <1>2, <1>3 DEF AppleGrows
  <2>2. \A t \in Runner : runner'[t] = runner[t] \/ RunnerGood(runner[t])'
    BY <1>2, <1>3, <1>4, <1>5 DEF RunnerGood, Holds
  <2> QED BY <1>1, <2>1, <2>2, NumbersStay
<1>8. SelectionKept'
  BY <1>1 DEF AppleInv, SelectionKept, Apple!HasSelected, Apple!SelectedFor
<1> QED BY <1>1, <1>3, <1>5, <1>6, <1>7, <1>8 DEF AppleInv

\* From the record of a submission to the selection of an output.
LEMMA RecordStep ==
  ASSUME AppleInv, NEW r \in Runner, Apple!Record(r)
  PROVE  AppleInv'
<1> DEFINE mine == runner[r]
           fields == [mine EXCEPT !.phase = "recorded"]
           receipts == journal.receipts \cup {<<mine.of, mine.number>>}
<1>1. /\ mine \in Runners /\ mine.phase = "answered" /\ mine.of \in Signed
      /\ Holds(mine.number, mine.of) /\ mine.number \in Apple!Number
  BY DEF AppleInv, NumbersKept, Holds, Apple!Record
<1>2. fields \in Runners /\ fields.phase = "recorded" /\ fields.of = mine.of
  <2>1. mine.number \in 0..MaxSubmissions
    BY <1>1 DEF Runners
  <2>2. fields \in Runners /\ fields.of = mine.of
    BY <1>1, <2>1, RecordsKept
  <2> QED BY <1>1, <2>2 DEF Runners
<1>3. runner' = [runner EXCEPT ![r] = fields] /\ RunnerGood(fields)
  BY <1>1, <1>2 DEF Apple!Record, Apple!Step, RunnerGood
<1>4. /\ journal' = [journal EXCEPT !.receipts = receipts] /\ journal \in Journals
      /\ UNCHANGED <<apple, publication>> /\ store' = store
  BY DEF Apple!Record, AppleInv
<1>5. /\ receipts \in SUBSET (Signed \X Apple!Number)
      /\ \A receipt \in receipts : receipt \in journal.receipts \/ Holds(receipt[2], receipt[1])
  BY <1>1, <1>4 DEF Journals
<1> HIDE DEF fields, receipts
<1>6. /\ journal' \in Journals /\ journal'.started = journal.started
      /\ journal'.receipts = receipts /\ journal'.selected = journal.selected
  BY <1>4, <1>5 DEF Journals
<1> QED BY <1>2, <1>3, <1>4, <1>5, <1>6, RunnerStep

LEMMA PollStep ==
  ASSUME AppleInv, NEW r \in Runner, Apple!Poll(r)
  PROVE  AppleInv'
<1> DEFINE mine == runner[r]
<1>1. PICK number \in 1..apple.sent :
        \/ UNCHANGED journal /\ runner' = [runner EXCEPT ![r] = Apple!Idle]
        \/ /\ journal' = [journal EXCEPT !.rejected = @ \cup {mine.of}]
           /\ runner' = [runner EXCEPT ![r] = Apple!Idle]
        \/ /\ Apple!Correlated(mine.of, number) /\ UNCHANGED journal
           /\ apple.status[number] \notin {"InProgress", "Rejected"}
           /\ runner' = [runner EXCEPT ![r] =
                           [mine EXCEPT !.phase = "accepted", !.number = number]]
  BY DEF Apple!Poll, Apple!Step
<1>2. /\ mine \in Runners /\ mine.phase = "recorded" /\ mine.of \in Signed
      /\ UNCHANGED <<apple, publication>> /\ store' = store /\ journal \in Journals
  BY DEF AppleInv, NumbersKept, Apple!Poll
<1>3. CASE UNCHANGED journal /\ runner' = [runner EXCEPT ![r] = Apple!Idle]
  BY <1>2, <1>3, IdleKept, RunnerStep DEF RunnerGood
<1>4. CASE /\ journal' = [journal EXCEPT !.rejected = @ \cup {mine.of}]
           /\ runner' = [runner EXCEPT ![r] = Apple!Idle]
  <2>1. /\ journal' \in Journals /\ journal'.started = journal.started
        /\ journal'.receipts = journal.receipts /\ journal'.selected = journal.selected
    BY <1>2, <1>4 DEF Journals
  <2>2. RunnerGood(Apple!Idle) /\ Apple!Idle.phase # "submitting"
    BY IdleKept DEF RunnerGood
  <2> QED BY <1>2, <1>4, <2>1, <2>2, IdleKept, RunnerStep
<1>5. CASE /\ Apple!Correlated(mine.of, number) /\ UNCHANGED journal
           /\ apple.status[number] \notin {"InProgress", "Rejected"}
           /\ runner' = [runner EXCEPT ![r] =
                           [mine EXCEPT !.phase = "accepted", !.number = number]]
  <2> DEFINE fields == [mine EXCEPT !.phase = "accepted", !.number = number]
  <2>1. Ticketed(number, mine.of)
    <3>1. Holds(number, mine.of)
      BY <1>5 DEF AppleInv, NumbersKept, Apple!Correlated
    <3>2. apple.status[number] # "none"
      BY <1>2, <3>1, HostAssumptions DEF AppleInv, SubmissionsKept, Holds, Apple!AppleAssumption
    <3> QED BY <1>5, <3>1, <3>2 DEF Ticketed, Holds, AppleInv, Services
  <2>2. number \in 0..MaxSubmissions
    BY <2>1 DEF Ticketed, Holds, Apple!Number
  <2>3. /\ fields \in Runners /\ fields.phase = "accepted" /\ fields.of = mine.of
        /\ fields.number = number
    <3>1. fields \in Runners /\ fields.of = mine.of
      BY <1>2, <2>2, RecordsKept
    <3> QED BY <1>2, <3>1 DEF Runners
  <2>4. runner' = [runner EXCEPT ![r] = fields] /\ RunnerGood(fields)
    BY <1>5, <1>2, <2>1, <2>3 DEF RunnerGood
  <2> HIDE DEF fields
  <2> QED BY <1>2, <1>5, <2>3, <2>4, RunnerStep
<1> QED BY <1>1, <1>3, <1>4, <1>5

LEMMA ProductStep ==
  ASSUME AppleInv, NEW r \in Runner, Apple!Staple(r) \/ Apple!Adopt(r) \/ Apple!Crash(r)
  PROVE  AppleInv'
<1> DEFINE mine == runner[r]
<1>1. /\ mine \in Runners /\ journal \in Journals /\ journal' = journal
      /\ UNCHANGED <<apple, publication>> /\ store \subseteq store'
  BY DEF AppleInv, Apple!Staple, Apple!Adopt, Apple!Crash
<1>2. CASE runner' = [runner EXCEPT ![r] = Apple!Idle]
  <2>1. RunnerGood(Apple!Idle) /\ Apple!Idle.phase # "submitting"
    BY IdleKept DEF RunnerGood
  <2> QED BY <1>1, <1>2, <2>1, IdleKept, RunnerStep
<1>3. CASE /\ mine.phase = "accepted"
           /\ runner' = [runner EXCEPT ![r] =
                [mine EXCEPT !.phase = "stapled",
                             !.output = [of |-> mine.of, ticket |-> mine.number, by |-> r]]]
  <2> DEFINE output == [of |-> mine.of, ticket |-> mine.number, by |-> r]
             fields == [mine EXCEPT !.phase = "stapled", !.output = output]
  <2>1. mine.of \in Signed /\ Ticketed(mine.number, mine.of) /\ mine.number \in Apple!Number
    BY <1>3 DEF AppleInv, NumbersKept, Ticketed, Holds
  <2>2. /\ output \in Apple!Output /\ output.of = mine.of /\ output.ticket = mine.number
        /\ runner' = [runner EXCEPT ![r] = fields]
    BY <1>3, <2>1 DEF Apple!Output
  <2> HIDE DEF output
  <2>3. /\ fields \in Runners /\ fields.phase = "stapled" /\ fields.of = mine.of
        /\ fields.output = output
    BY <1>1, <2>2 DEF Runners
  <2> HIDE DEF fields
  <2>4. RunnerGood(fields)
    BY <2>1, <2>2, <2>3 DEF RunnerGood
  <2> QED BY <1>1, <2>2, <2>3, <2>4, RunnerStep
<1>4. CASE mine.phase = "stapled" /\ runner' = [runner EXCEPT ![r] = [mine EXCEPT !.phase = "adopted"]]
  <2> DEFINE fields == [mine EXCEPT !.phase = "adopted"]
  <2>1. mine.of \in Signed /\ mine.number \in 0..MaxSubmissions
    BY <1>1, <1>4 DEF AppleInv, NumbersKept, Runners
  <2>2. fields \in Runners /\ fields.of = mine.of /\ fields.output = mine.output
    BY <1>1, <2>1, RecordsKept
  <2>3. fields.phase = "adopted" /\ runner' = [runner EXCEPT ![r] = fields]
    BY <1>1, <1>4 DEF Runners
  <2> HIDE DEF fields
  <2>4. RunnerGood(fields)
    BY <1>4, <2>2, <2>3 DEF RunnerGood, AppleInv, NumbersKept
  <2> QED BY <1>1, <2>2, <2>3, <2>4, RunnerStep
<1> QED BY <1>2, <1>3, <1>4 DEF Apple!Staple, Apple!Adopt, Apple!Crash, Apple!Step

LEMMA SelectStep ==
  ASSUME AppleInv, NEW r \in Runner, Apple!Select(r)
  PROVE  AppleInv'
<1> DEFINE output == runner[r].output
           selected == journal.selected \cup {output}
<1>1. /\ runner' = [runner EXCEPT ![r] = Apple!Idle] /\ journal \in Journals
      /\ UNCHANGED <<apple, publication>> /\ store' = store
      /\ RunnerGood(Apple!Idle) /\ Apple!Idle.phase # "submitting"
  BY IdleKept DEF AppleInv, Apple!Select, Apple!Step, RunnerGood
<1>2. CASE UNCHANGED journal
  BY <1>1, <1>2, IdleKept, RunnerStep
<1>3. CASE /\ Apple!ReadBack(output) /\ Apple!MaySelect(runner[r].of)
           /\ journal' = [journal EXCEPT !.selected = selected]
  <2>1. /\ output \in Apple!Output /\ output.of = runner[r].of /\ output \in store
        /\ Ticketed(output.ticket, output.of)
    BY <1>3 DEF AppleInv, NumbersKept, Apple!Select, Apple!ReadBack
  <2>2. selected \in SUBSET Apple!Output
    BY <1>1, <2>1 DEF Journals
  <2> HIDE DEF output, selected
  <2>3. /\ journal' \in Journals /\ journal'.started = journal.started
        /\ journal'.receipts = journal.receipts /\ journal'.selected = selected
    BY <1>1, <1>3, <2>2 DEF Journals
  <2>4. journal'.selected = journal.selected \cup {output}
    BY <2>3 DEF selected
  <2> QED BY <1>1, <1>3, <2>1, <2>3, <2>4, IdleKept, RunnerStep
<1> QED BY <1>2, <1>3 DEF Apple!Select

\* Apple decides, others submit, and a publication is checked.
LEMMA ElsewhereStep ==
  ASSUME AppleInv, Apple!Decide \/ Apple!Elsewhere \/ Apple!Validate
  PROVE  AppleInv'
<1>1. CASE Apple!Decide
  <2>1. PICK n \in Apple!Number, status \in {"Accepted", "Rejected"} :
          /\ apple.status[n] = "InProgress"
          /\ apple' = [apple EXCEPT !.status[n] = status]
    BY <1>1 DEF Apple!Decide
  <2> DEFINE statuses == [apple.status EXCEPT ![n] = status]
  <2>2. /\ statuses \in [Apple!Number -> {"none", "InProgress", "Accepted", "Rejected"}]
        /\ \A m \in Apple!Number :
             /\ apple.status[m] = "Accepted" => statuses[m] = "Accepted"
             /\ apple.status[m] = "none" <=> statuses[m] = "none"
    BY <2>1 DEF AppleInv, Services
  <2>3. apple' = [apple EXCEPT !.status = statuses] /\ apple \in Services
    BY <2>1 DEF AppleInv
  <2> HIDE DEF statuses
  <2>4. /\ apple' \in Services /\ apple'.sent = apple.sent /\ apple'.source = apple.source
        /\ apple'.status = statuses
    BY <2>2, <2>3 DEF Services
  <2>5. SubmissionsKept'
    BY <1>1, <2>2, <2>4 DEF AppleInv, SubmissionsKept, Apple!Decide
  <2>6. AppleGrows
    BY <2>2, <2>4 DEF AppleGrows
  <2>7. NumbersKept'
    BY <1>1, <2>6, NumbersStay DEF Apple!Decide
  <2>8. SelectionKept'
    BY <1>1 DEF Apple!Decide, AppleInv, SelectionKept, Apple!HasSelected, Apple!SelectedFor
  <2> QED BY <1>1, <2>4, <2>5, <2>7, <2>8 DEF AppleInv, Apple!Decide
<1>2. CASE Apple!Elsewhere
  <2> DEFINE n == apple.sent + 1
  <2>1. /\ apple' \in Services /\ apple'.sent = n /\ apple'.source[n] = "elsewhere"
        /\ apple'.status[n] = "InProgress"
        /\ \A m \in Apple!Number :
             m # n => apple'.source[m] = apple.source[m] /\ apple'.status[m] = apple.status[m]
    BY <1>2, ReceivedKept DEF AppleInv, Apple!Elsewhere
  <2>2. /\ n \in Apple!Number /\ apple.sent \in Nat /\ apple.source[n] = "none"
        /\ "elsewhere" \notin Signed
    BY <1>2, HostAssumptions DEF Apple!Elsewhere, Apple!AppleAssumption, AppleInv, Services,
       Apple!Number, SubmissionsKept
  <2>3. \A m \in Apple!Number : m \in Nat /\ (m > n <=> m > apple.sent /\ m # n)
    BY <2>2 DEF Apple!Number
  <2>4. SubmissionsKept'
    <3>1. journal' = journal /\ runner' = runner
      BY <1>2 DEF Apple!Elsewhere
    <3>2. \A m \in Apple!Number :
            /\ m > apple'.sent <=> apple'.source[m] = "none"
            /\ apple'.source[m] = "none" <=> apple'.status[m] = "none"
      BY <2>1, <2>2, <2>3 DEF AppleInv, SubmissionsKept
    <3>3. /\ \A m, o \in Apple!Number :
               apple'.source[m] \in Signed /\ apple'.source[m] = apple'.source[o] => m = o
          /\ \A m \in Apple!Number :
               apple'.source[m] \in Signed => apple'.source[m] \in journal.started
      BY <2>1, <2>2 DEF AppleInv, SubmissionsKept
    <3>4. \A t \in Runner : runner[t].phase # "idle" => runner[t].of \in Signed
      BY DEF AppleInv, NumbersKept
    <3> QED BY <2>1, <2>2, <3>1, <3>2, <3>3, <3>4 DEF AppleInv, SubmissionsKept
  <2>5. AppleGrows
    BY <2>1, <2>2 DEF AppleGrows
  <2>6. NumbersKept'
    BY <1>2, <2>5, NumbersStay DEF Apple!Elsewhere
  <2>7. SelectionKept'
    BY <1>2 DEF Apple!Elsewhere, AppleInv, SelectionKept, Apple!HasSelected, Apple!SelectedFor
  <2> QED BY <1>2, <2>1, <2>4, <2>6, <2>7 DEF AppleInv, Apple!Elsewhere
<1>3. CASE Apple!Validate
  <2>1. PICK bundle \in SUBSET store :
          /\ \A one, other \in bundle : one.of = other.of => one = other
          /\ publication' = [bundle |-> bundle, valid |-> Apple!HasSelected(bundle)]
    BY <1>3 DEF Apple!Validate
  <2>2. UNCHANGED <<journal, apple, store, runner>>
    BY <1>3 DEF Apple!Validate
  <2>3. SubmissionsKept' /\ NumbersKept'
    BY <2>2 DEF AppleInv, SubmissionsKept, NumbersKept, Ticketed, Holds
  <2>4. SelectionKept'
    BY <2>1, <2>2 DEF AppleInv, SelectionKept, Apple!HasSelected, Apple!SelectedFor
  <2> QED BY <2>2, <2>3, <2>4 DEF AppleInv
<1> QED BY <1>1, <1>2, <1>3

LEMMA AppleStep == ASSUME AppleInv, Apple!Next PROVE AppleInv'
BY BeginStep, SubmitStep, RecordStep, PollStep, ProductStep, SelectStep, ElsewhereStep
   DEF Apple!Next

LEMMA AppleFinite ==
  ASSUME NEW S
  PROVE  Apple!Cardinality(S) = Cardinality(S)
BY DEF Apple!Cardinality, Cardinality

LEMMA AppleSafe ==
  ASSUME AppleInv
  PROVE  Apple!TicketsGenuine /\ Apple!SubmittedOnce /\ Apple!SelectedShipped
<1>1. Apple!TicketsGenuine
  BY DEF AppleInv, NumbersKept, Ticketed, Holds, Apple!TicketsGenuine
<1>2. Apple!SubmittedOnce
  <2>1. ASSUME NEW p \in Signed
        PROVE  Cardinality({n \in Apple!Number : apple.source[n] = p}) <= 1
    <3> DEFINE sent == {n \in Apple!Number : apple.source[n] = p}
    <3> SUFFICES Cardinality(sent) <= 1
      OBVIOUS
    <3>1. CASE sent = {}
      BY <3>1, FS_EmptySet
    <3>2. CASE sent # {}
      <4>1. PICK n \in sent : TRUE
        BY <3>2
      <4>2. sent = {n}
        BY <4>1 DEF AppleInv, SubmissionsKept
      <4> HIDE DEF sent
      <4>3. Cardinality(sent) = 1
        BY <4>2, FS_Singleton
      <4> QED BY <4>3
    <3> QED BY <3>1, <3>2
  <2> QED BY <2>1, AppleFinite DEF Apple!SubmittedOnce
<1>3. Apple!SelectedShipped
  <2>1. ASSUME publication.valid, NEW p \in Signed
        PROVE  /\ {output \in publication.bundle : output.of = p} = Apple!SelectedFor(p)
               /\ Apple!SelectedFor(p) # {}
    <3>1. PICK chosen \in journal.selected : chosen.of = p
      BY <2>1 DEF AppleInv, SelectionKept, Apple!HasSelected, Apple!SelectedFor
    <3>2. /\ journal.selected \subseteq publication.bundle
          /\ \A one, other \in publication.bundle : one.of = other.of => one = other
      BY <2>1 DEF AppleInv, SelectionKept, Apple!HasSelected
    <3> QED BY <3>1, <3>2 DEF Apple!SelectedFor
  <2> QED BY <2>1 DEF Apple!SelectedShipped
<1> QED BY <1>1, <1>2, <1>3

-----------------------------------------------------------------------------
(* The credentials of one request *)

LEMMA AuthFinite ==
  ASSUME NEW S
  PROVE  Auth!Cardinality(S) = Cardinality(S)
BY DEF Auth!Cardinality, Cardinality

LEMMA AuthInit == ASSUME Auth!Init PROVE AuthInv
<1>1. PICK ask \in Auth!Ask : grant = Auth!Fresh(ask)
  BY DEF Auth!Init
<1>2. now = 0 /\ 0 \in Auth!Time
  BY HostAssumptions DEF Auth!Init, Auth!CredentialsAssumption, Auth!Time
<1>3. grant \in Grants
  BY <1>1, <1>2 DEF Grants, Auth!Fresh
<1>4. BindingKept /\ GrantKept /\ ToldKept
  BY <1>1 DEF BindingKept, GrantKept, ToldKept, Auth!Fresh
<1> QED BY <1>2, <1>3, <1>4 DEF AuthInv

\* Time passes, and a secret that was told was told before.
LEMMA TickStep == ASSUME AuthInv, Auth!Tick PROVE AuthInv'
<1>1. /\ now \in Nat /\ MaxTime \in Nat /\ now' = now + 1 /\ now < MaxTime /\ grant' = grant
      /\ grant.verified \in Nat
  BY HostAssumptions DEF Auth!CredentialsAssumption, AuthInv, Auth!Tick, Auth!Time, Grants
<1>2. now' \in Auth!Time /\ GrantKept'
  BY <1>1 DEF Auth!Time, AuthInv, GrantKept, IdentityGood
<1> QED BY <1>1, <1>2 DEF AuthInv, BindingKept, ToldKept, IdentityGood

\* A step that tells nothing and changes what was read only before it is used.
LEMMA PhaseStep ==
  ASSUME AuthInv, NEW phase \in {"admitted", "checked", "granted", "refused"},
         grant' = [grant EXCEPT !.phase = phase], now' = now,
         grant.phase \in {"asked", "admitted", "checked", "asking", "identified", "keyed",
                         "verified", "exchanging", "exchanged"},
         phase # "refused" => grant.phase \in {"asked", "admitted"},
         phase \in {"admitted", "checked"} => Auth!BoundToOperation(grant.ask),
         phase = "checked" =>
           grant.ask.environment.github /\ grant.ask.environment.run = grant.ask.claimed
  PROVE  AuthInv'
<1>1. /\ grant' \in Grants /\ grant'.phase = phase /\ grant'.ask = grant.ask
      /\ grant'.token = grant.token /\ grant'.credential = grant.credential
      /\ grant'.verified = grant.verified /\ grant'.told = grant.told
  BY DEF AuthInv, Grants
<1>2. BindingKept' /\ GrantKept'
  BY <1>1 DEF BindingKept, GrantKept
<1>3. ToldKept'
  BY <1>1 DEF AuthInv, ToldKept, IdentityGood
<1> QED BY <1>1, <1>2, <1>3 DEF AuthInv

\* What the services answer is read before anything is told of it.
LEMMA ReadStep ==
  ASSUME AuthInv, Auth!ReadToken \/ Auth!ReadKeys \/ Auth!ReadCredential, ~ Auth!Refuse
  PROVE  AuthInv'
<1>1. CASE Auth!ReadToken
  <2>1. PICK token \in Auth!Token :
          grant' = [grant EXCEPT !.phase = "identified", !.token = {token}] /\ now' = now
    BY <1>1 DEF Auth!ReadToken
  <2>2. /\ grant' \in Grants /\ grant'.phase = "identified" /\ grant.phase = "asking"
        /\ grant'.ask = grant.ask /\ grant'.credential = grant.credential
        /\ grant'.verified = grant.verified /\ grant'.told = grant.told
    BY <1>1, <2>1 DEF AuthInv, Grants, Auth!ReadToken
  <2> QED BY <2>1, <2>2 DEF AuthInv, BindingKept, GrantKept, ToldKept
<1>2. CASE Auth!ReadKeys
  <2>1. PICK keys \in SUBSET [kid : Key, key : IssuerKey] :
          grant' = [grant EXCEPT !.phase = "keyed", !.keys = keys] /\ now' = now
    BY <1>2 DEF Auth!ReadKeys
  <2>2. /\ grant' \in Grants /\ grant'.phase = "keyed" /\ grant.phase = "identified"
        /\ grant'.ask = grant.ask /\ grant'.credential = grant.credential
        /\ grant'.verified = grant.verified /\ grant'.told = grant.told
    BY <1>2, <2>1 DEF AuthInv, Grants, Auth!ReadKeys
  <2> QED BY <2>1, <2>2 DEF AuthInv, BindingKept, GrantKept, ToldKept
<1>3. CASE Auth!ReadCredential
  <2>1. PICK until \in Auth!Time :
          grant' = [grant EXCEPT !.phase = "exchanged", !.credential = {until}] /\ now' = now
    BY <1>3 DEF Auth!ReadCredential
  <2>2. /\ grant' \in Grants /\ grant'.phase = "exchanged" /\ grant.phase = "exchanging"
        /\ grant'.ask = grant.ask /\ grant'.credential = {until} /\ grant'.token = grant.token
        /\ grant'.verified = grant.verified /\ grant'.told = grant.told
    BY <1>3, <2>1 DEF AuthInv, Grants, Auth!ReadCredential
  <2>3. IdentityGood'
    BY <2>2 DEF AuthInv, GrantKept, IdentityGood
  <2> QED BY <2>1, <2>2, <2>3 DEF AuthInv, BindingKept, GrantKept, ToldKept
<1> QED BY <1>1, <1>2, <1>3

\* The token that is verified is of this registry and run, and alive.
LEMMA VerifyStep ==
  ASSUME AuthInv, Auth!VerifyToken, ~ Auth!Refuse
  PROVE  AuthInv'
<1>1. PICK token \in grant.token :
        /\ Auth!VerifiedToken(token, grant.keys, grant.ask)
        /\ grant' = [grant EXCEPT !.phase = "verified", !.verified = now] /\ now' = now
  BY DEF Auth!VerifyToken
<1>2. /\ grant' \in Grants /\ grant'.phase = "verified" /\ grant.phase = "keyed"
      /\ grant'.ask = grant.ask /\ grant'.credential = grant.credential
      /\ grant'.token = grant.token /\ grant'.verified = now /\ grant'.told = grant.told
  BY <1>1 DEF AuthInv, Grants, Auth!VerifyToken
<1>3. \E k \in grant.keys : k.kid = token.kid /\ k.key = token.signer
  <2> DEFINE named == {k \in grant.keys : k.kid = token.kid}
  <2>1. Cardinality(named) = 1 /\ \A k \in named : k.key = token.signer
    BY <1>1, AuthFinite DEF Auth!VerifiedToken
  <2>2. named # {}
    BY <2>1, FS_EmptySet
  <2> QED BY <2>1, <2>2
<1>4. /\ token.signer \in IssuerKey /\ token.aud = grant.ask.registry
      /\ token.run = grant.ask.environment.run /\ token.from <= now /\ now < token.until
  <2>1. token.signer \in IssuerKey
    BY <1>3 DEF AuthInv, Grants
  <2>2. [aud |-> token.aud, run |-> token.run]
          \in [aud : {grant.ask.registry}, run : {grant.ask.claimed}]
    BY <1>1 DEF Auth!VerifiedToken, Auth!Expected
  <2>3. token.aud = grant.ask.registry /\ token.run = grant.ask.claimed
    BY <2>2
  <2>4. grant.ask.environment.run = grant.ask.claimed
    BY <1>2 DEF AuthInv, BindingKept
  <2> QED BY <1>1, <2>1, <2>3, <2>4 DEF Auth!VerifiedToken
<1>5. grant.token = {token}
  BY <1>1, <1>2 DEF AuthInv, GrantKept
<1>6. IdentityGood' /\ now \in Nat
  BY <1>2, <1>4, <1>5 DEF IdentityGood, AuthInv, Auth!Time
<1> QED BY <1>1, <1>2, <1>6 DEF AuthInv, BindingKept, GrantKept, ToldKept

\* What is told is told in the phase it is of, and when it was checked.
LEMMA TellStep ==
  ASSUME AuthInv, NEW phase, NEW secret, NEW to, Auth!Tell(phase, secret, to),
         \/ /\ phase = "granted" /\ secret = "token" /\ to = grant.ask.binding.endpoint
            /\ grant.phase = "admitted"
         \/ /\ phase = "asking" /\ secret = "request" /\ to = "runner" /\ grant.phase = "checked"
         \/ /\ phase = "exchanging" /\ secret = "identity" /\ to = grant.ask.registry
            /\ grant.phase = "verified"
         \/ /\ phase = "granted" /\ secret = "credential" /\ to = grant.ask.binding.endpoint
            /\ grant.phase = "exchanged"
            /\ grant.ask.registry = "mcp" => \A until \in grant.credential : now < until
  PROVE  AuthInv'
<1> DEFINE told == [secret |-> secret, to |-> to, at |-> now]
           all == grant.told \cup {told}
<1>1. grant' = [grant EXCEPT !.phase = phase, !.told = all] /\ now' = now
  BY DEF Auth!Tell
<1>2. /\ grant \in Grants /\ now \in Auth!Time /\ Auth!BoundToOperation(grant.ask)
      /\ grant.phase # "admitted" => grant.ask.environment.github
      /\ grant.phase \in {"verified", "exchanged"} => IdentityGood /\ grant.verified <= now
  BY DEF AuthInv, BindingKept, GrantKept
<1>3. to \in {"write", "observe", "runner", "npm", "pypi", "mcp", "github"}
  BY <1>2 DEF Auth!BoundToOperation, Grants, Auth!Ask, Auth!Registry
<1>4. told.secret = secret /\ told.to = to /\ told.at = now
  OBVIOUS
<1>5. all \in SUBSET [secret : {"token", "request", "identity", "credential"},
                     to : {"write", "observe", "runner", "npm", "pypi", "mcp", "github"},
                     at : Auth!Time]
  BY <1>2, <1>3 DEF Grants
<1>6. \A t \in all : t \in grant.told \/ t = told
  OBVIOUS
<1> HIDE DEF told, all
<1>7. /\ grant' \in Grants /\ grant'.phase = phase /\ grant'.ask = grant.ask
      /\ grant'.token = grant.token /\ grant'.credential = grant.credential
      /\ grant'.verified = grant.verified /\ grant'.told = all
  BY <1>1, <1>2, <1>5 DEF Grants
<1>8. BindingKept'
  BY <1>2, <1>7 DEF AuthInv, BindingKept
<1>9. GrantKept'
  BY <1>1, <1>2, <1>7 DEF AuthInv, GrantKept, IdentityGood
<1>10. ToldKept'
  <2>1. IdentityGood => IdentityGood'
    BY <1>7 DEF IdentityGood
  <2>2. ASSUME NEW t \in grant.told
        PROVE  /\ t.secret = "identity" =>
                    /\ grant'.phase \in {"exchanging", "exchanged", "granted", "refused"}
                    /\ IdentityGood' /\ t.to = grant'.ask.registry /\ grant'.verified <= t.at
               /\ t.secret \in {"token", "credential"} =>
                    /\ grant'.phase = "granted" /\ Auth!BoundToOperation(grant'.ask)
                    /\ t.to = grant'.ask.binding.endpoint
               /\ t.secret = "request" => t.to = "runner" /\ grant'.ask.environment.github
               /\ t.secret = "credential" /\ grant'.ask.registry = "mcp" =>
                    \A until \in grant'.credential : t.at < until
    BY <1>7, <2>1 DEF AuthInv, ToldKept
  <2>3. /\ told.secret = "identity" =>
                    /\ grant'.phase \in {"exchanging", "exchanged", "granted", "refused"}
                    /\ IdentityGood' /\ told.to = grant'.ask.registry /\ grant'.verified <= told.at
        /\ told.secret \in {"token", "credential"} =>
                    /\ grant'.phase = "granted" /\ Auth!BoundToOperation(grant'.ask)
                    /\ told.to = grant'.ask.binding.endpoint
        /\ told.secret = "request" => told.to = "runner" /\ grant'.ask.environment.github
        /\ told.secret = "credential" /\ grant'.ask.registry = "mcp" =>
                    \A until \in grant'.credential : told.at < until
    BY <1>2, <1>4, <1>7, <2>1
  <2> QED BY <1>6, <1>7, <2>2, <2>3 DEF ToldKept
<1> QED BY <1>1, <1>2, <1>7, <1>8, <1>9, <1>10 DEF AuthInv

LEMMA AuthStep == ASSUME AuthInv, Auth!Next PROVE AuthInv'
<1> USE DEF Auth!To, Auth!Refuse
<1>1. CASE Auth!Admit
  BY <1>1, PhaseStep DEF Auth!Admit
<1>2. CASE Auth!GrantToken
  BY <1>2, PhaseStep, TellStep DEF Auth!GrantToken
<1>3. CASE Auth!CheckEnvironment
  BY <1>3, PhaseStep DEF Auth!CheckEnvironment, AuthInv, BindingKept
<1>4. CASE Auth!CheckService
  BY <1>4, PhaseStep, TellStep DEF Auth!CheckService
<1>5. CASE Auth!ReadToken \/ Auth!ReadKeys \/ Auth!ReadCredential
  BY <1>5, PhaseStep, ReadStep DEF Auth!ReadToken, Auth!ReadKeys, Auth!ReadCredential
<1>6. CASE Auth!VerifyToken
  BY <1>6, PhaseStep, VerifyStep DEF Auth!VerifyToken
<1>7. CASE Auth!Exchange
  BY <1>7, PhaseStep, TellStep DEF Auth!Exchange
<1>8. CASE Auth!GrantCredential
  <2>1. PICK until \in grant.credential :
          IF Auth!Usable(grant.ask.registry, until)
          THEN Auth!Tell("granted", "credential", grant.ask.binding.endpoint)
          ELSE Auth!Refuse
    BY <1>8 DEF Auth!GrantCredential
  <2>2. grant.phase = "exchanged" /\ grant.credential = {until}
    BY <1>8 DEF Auth!GrantCredential, AuthInv, GrantKept
  <2>3. CASE Auth!Usable(grant.ask.registry, until)
    BY <2>1, <2>2, <2>3, TellStep DEF Auth!Usable
  <2>4. CASE ~ Auth!Usable(grant.ask.registry, until)
    BY <2>1, <2>2, <2>4, PhaseStep
  <2> QED BY <2>3, <2>4
<1> QED BY <1>1, <1>2, <1>3, <1>4, <1>5, <1>6, <1>7, <1>8, TickStep DEF Auth!Next

LEMMA AuthSafe ==
  ASSUME AuthInv
  PROVE  Auth!CredentialsPlaced /\ Auth!IdentitiesVerified
BY DEF AuthInv, ToldKept, IdentityGood, Auth!BoundToOperation, Auth!CredentialsPlaced,
   Auth!IdentitiesVerified

-----------------------------------------------------------------------------
(* One npm session *)

\* What can be read, by where it is.
LEMMA ErasedMeans ==
  /\ Npm!SecretsErased <=>
       /\ session.closed => session.challenges = {} /\ session.passwords = {}
       /\ session.readable = session.challenges \cup session.passwords \cup InFlight
  /\ Npm!SecretsErased' <=>
       /\ session'.closed => session'.challenges = {} /\ session'.passwords = {}
       /\ session'.readable = session'.challenges \cup session'.passwords \cup InFlight'
BY DEF Npm!SecretsErased, InFlight, Completing

LEMMA SecretsApart ==
  ASSUME NEW p \in Passwords, NEW k \in Npm!Challenge
  PROVE  p # k
<1>1. DOMAIN p = {"for", "of"} /\ DOMAIN k = {"request", "serial"}
  BY DEF Passwords, Npm!Challenge
<1> QED BY <1>1

LEMMA NpmInit == ASSUME Npm!Init PROVE NpmInv
<1>1. session \in Sessions /\ callers \in [Caller -> Callers]
  BY DEF Npm!Init, Sessions, Callers
<1>2. InFlight = {} /\ \A c \in Caller : ~ Completing(c)
  BY DEF Npm!Init, Npm!Idle, InFlight, Completing
<1>3. OnePlace
  BY <1>2 DEF Npm!Init, OnePlace
<1>4. Npm!SecretsErased
  BY <1>2, ErasedMeans DEF Npm!Init
<1> QED BY <1>1, <1>3, <1>4 DEF NpmInv

\* The challenges in flight but for one caller's.
Elsewhere(c) == {callers[d].challenge : d \in {o \in Caller \ {c} : Completing(o)}}

LEMMA FlightMoves ==
  ASSUME NpmInv, NEW c \in Caller, NEW what \in Callers, callers' = [callers EXCEPT ![c] = what]
  PROVE  /\ callers' \in [Caller -> Callers] /\ callers'[c] = what
         /\ \A d \in Caller : d # c => callers'[d] = callers[d] /\ (Completing(d)' <=> Completing(d))
         /\ InFlight = Elsewhere(c) \cup (IF Completing(c) THEN {callers[c].challenge} ELSE {})
         /\ InFlight' = Elsewhere(c) \cup
              (IF what.doing \in {"notifying", "polling", "waiting"} THEN {what.challenge} ELSE {})
         /\ Completing(c) => callers[c].challenge \notin Elsewhere(c)
         /\ Completing(c)' <=> what.doing \in {"notifying", "polling", "waiting"}
<1>1. /\ callers' \in [Caller -> Callers] /\ callers'[c] = what
      /\ \A d \in Caller : d # c => callers'[d] = callers[d] /\ (Completing(d)' <=> Completing(d))
      /\ Completing(c)' <=> what.doing \in {"notifying", "polling", "waiting"}
  BY DEF NpmInv, Completing
<1>2. InFlight = Elsewhere(c) \cup (IF Completing(c) THEN {callers[c].challenge} ELSE {})
  BY DEF InFlight, Elsewhere
<1>3. InFlight' = Elsewhere(c) \cup
        (IF what.doing \in {"notifying", "polling", "waiting"} THEN {what.challenge} ELSE {})
  BY <1>1 DEF InFlight, Elsewhere
<1>4. Completing(c) => callers[c].challenge \notin Elsewhere(c)
  BY DEF Elsewhere, NpmInv, OnePlace
<1> QED BY <1>1, <1>2, <1>3, <1>4

\* Typing of what callers hold.
LEMMA CallersHold ==
  ASSUME NpmInv, NEW c \in Caller
  PROVE  /\ Completing(c) => callers[c].challenge \in Npm!Challenge
         /\ callers[c].doing = "resolving" => callers[c].request \in Writing
         /\ ~ Completing(c) => callers[c].doing \in {"idle", "resolving"}
         /\ callers[c] = Npm!Idle => callers[c].doing = "idle" /\ ~ Completing(c)
         /\ Npm!Idle \in Callers /\ Npm!Idle.doing = "idle"
<1>1. callers[c] \in Callers
  BY DEF NpmInv
<1>2. Npm!Idle.doing = "idle"
  BY DEF Npm!Idle
<1> QED BY <1>1, <1>2 DEF Callers, Completing

\* What is in flight, where the caller completes nothing after the step, and where it does.
LEMMA FlightParts ==
  ASSUME NpmInv, NEW c \in Caller, NEW what \in Callers, callers' = [callers EXCEPT ![c] = what]
  PROVE  /\ callers' \in [Caller -> Callers]
         /\ Completing(c) => /\ InFlight = Elsewhere(c) \cup {callers[c].challenge}
                             /\ callers[c].challenge \notin Elsewhere(c)
         /\ ~ Completing(c) => InFlight = Elsewhere(c)
         /\ what.doing \in {"notifying", "polling", "waiting"} =>
              InFlight' = Elsewhere(c) \cup {what.challenge}
         /\ ~ what.doing \in {"notifying", "polling", "waiting"} => InFlight' = Elsewhere(c)
<1> DEFINE busy == {"notifying", "polling", "waiting"}
           before == Completing(c)
           after == what.doing \in busy
<1>1. /\ callers' \in [Caller -> Callers]
      /\ InFlight = Elsewhere(c) \cup (IF before THEN {callers[c].challenge} ELSE {})
      /\ InFlight' = Elsewhere(c) \cup (IF after THEN {what.challenge} ELSE {})
      /\ before => callers[c].challenge \notin Elsewhere(c)
  BY FlightMoves
<1> HIDE DEF before, after
<1>2. /\ before => InFlight = Elsewhere(c) \cup {callers[c].challenge}
      /\ ~ before => InFlight = Elsewhere(c)
      /\ after => InFlight' = Elsewhere(c) \cup {what.challenge}
      /\ ~ after => InFlight' = Elsewhere(c)
  BY <1>1
<1> QED BY <1>1, <1>2 DEF before, after

\* Completions stay of different challenges.
LEMMA FlightsApart ==
  ASSUME NpmInv, NEW c \in Caller, NEW what \in Callers, callers' = [callers EXCEPT ![c] = what],
         what.doing \in {"notifying", "polling", "waiting"} => what.challenge \notin Elsewhere(c)
  PROVE  \A d, e \in Caller :
           Completing(d)' /\ Completing(e)' /\ callers'[d].challenge = callers'[e].challenge
             => d = e
<1>1. /\ callers'[c] = what
      /\ \A d \in Caller : d # c => callers'[d] = callers[d] /\ (Completing(d)' <=> Completing(d))
      /\ Completing(c)' <=> what.doing \in {"notifying", "polling", "waiting"}
  BY FlightMoves
<1>2. \A d \in Caller : d # c /\ Completing(d) => callers[d].challenge \in Elsewhere(c)
  BY DEF Elsewhere
<1>3. \A d, e \in Caller :
        Completing(d) /\ Completing(e) /\ callers[d].challenge = callers[e].challenge => d = e
  BY DEF NpmInv, OnePlace
<1> QED BY <1>1, <1>2, <1>3

\* The session is as it was, and what is in flight too.
LEMMA NpmMoves ==
  ASSUME NpmInv, NEW c \in Caller, NEW what \in Callers, callers' = [callers EXCEPT ![c] = what],
         UNCHANGED session,
         Completing(c) <=> what.doing \in {"notifying", "polling", "waiting"},
         Completing(c) => what.challenge = callers[c].challenge
  PROVE  NpmInv'
<1>1. InFlight' = InFlight /\ callers' \in [Caller -> Callers]
  BY ZenonT(60), FlightParts
<1>2. what.doing \in {"notifying", "polling", "waiting"} => what.challenge \notin Elsewhere(c)
  BY FlightParts
<1>3. OnePlace'
  BY <1>1, <1>2, FlightsApart DEF NpmInv, OnePlace
<1>4. Npm!SecretsErased'
  BY <1>1, ErasedMeans DEF NpmInv
<1> QED BY <1>1, <1>3, <1>4 DEF NpmInv

\* A completion ends without a password.
LEMMA NpmSettles ==
  ASSUME NpmInv, NEW c \in Caller, Completing(c),
         Npm!Settle(c, callers[c].challenge, session)
  PROVE  NpmInv'
<1> DEFINE challenge == callers[c].challenge
<1>1. callers' = [callers EXCEPT ![c] = Npm!Idle] /\ Npm!Idle \in Callers
      /\ ~ Npm!Idle.doing \in {"notifying", "polling", "waiting"}
  BY CallersHold DEF Npm!Settle, Npm!Doing
<1>2. /\ callers' \in [Caller -> Callers] /\ InFlight' = Elsewhere(c)
      /\ InFlight = Elsewhere(c) \cup {challenge} /\ challenge \notin Elsewhere(c)
  BY <1>1, FlightParts
<1>3. /\ session' \in Sessions /\ session'.closed = session.closed
      /\ session'.challenges = session.challenges /\ session'.passwords = session.passwords
      /\ session'.made = session.made /\ session'.sent = session.sent
      /\ session'.readable = session.readable \ {challenge}
  BY DEF Npm!Settle, NpmInv, Sessions
<1>4. challenge \in Npm!Challenge /\ challenge \notin session.challenges
  BY <1>2, CallersHold DEF NpmInv, OnePlace
<1>5. challenge \notin session.passwords
  BY <1>4, SecretsApart DEF NpmInv, Sessions
<1>6. \A d, e \in Caller :
        Completing(d)' /\ Completing(e)' /\ callers'[d].challenge = callers'[e].challenge => d = e
  BY <1>1, FlightsApart
<1> HIDE DEF challenge
<1>7. OnePlace'
  BY <1>2, <1>3, <1>6 DEF NpmInv, OnePlace
<1>8. Npm!SecretsErased'
  BY <1>2, <1>3, <1>4, <1>5, ErasedMeans DEF NpmInv
<1> QED BY <1>2, <1>3, <1>7, <1>8 DEF NpmInv

\* The password of a challenge takes the place of an earlier one.
LEMMA NpmAnswered ==
  ASSUME NpmInv, NEW c \in Caller, Npm!PollAnswered(c)
  PROVE  NpmInv'
<1> DEFINE challenge == callers[c].challenge
           password == [for |-> challenge.request, of |-> challenge]
           earlier == Npm!PasswordsFor(challenge.request)
<1>1. Completing(c)
  BY DEF Npm!PollAnswered, Completing
<1>2. CASE Npm!Settle(c, challenge, session)
  BY <1>1, <1>2, NpmSettles
<1>3. CASE /\ Npm!Storable
           /\ Npm!Settle(c, challenge,
                [session EXCEPT !.passwords = (@ \ earlier) \cup {password},
                                !.readable = (@ \ earlier) \cup {password}])
  <2>1. callers' = [callers EXCEPT ![c] = Npm!Idle] /\ Npm!Idle \in Callers
        /\ ~ Npm!Idle.doing \in {"notifying", "polling", "waiting"}
    BY <1>3, CallersHold DEF Npm!Settle, Npm!Doing
  <2>2. /\ callers' \in [Caller -> Callers] /\ InFlight' = Elsewhere(c)
        /\ InFlight = Elsewhere(c) \cup {challenge} /\ challenge \notin Elsewhere(c)
    BY <1>1, <2>1, FlightParts
  <2>3. challenge \in Npm!Challenge /\ challenge \notin session.challenges
        /\ challenge \in session.made
    BY <1>1, <2>2, CallersHold DEF NpmInv, OnePlace
  <2>4. /\ password \in Passwords /\ password.for = password.of.request
        /\ password.of = challenge
    BY <2>3 DEF Passwords, Npm!Challenge
  <2>5. \A p \in session.passwords \cup {password} :
          p # challenge /\ p \notin session.challenges \cup InFlight
    BY <2>2, <2>3, <2>4, SecretsApart DEF NpmInv, Sessions, OnePlace
  <2>6. earlier \subseteq session.passwords
    BY DEF Npm!PasswordsFor
  <2> HIDE DEF earlier, password, challenge
  <2>7. /\ session'.closed = session.closed
        /\ session'.challenges = session.challenges /\ session'.made = session.made
        /\ session'.passwords = (session.passwords \ earlier) \cup {password}
        /\ session'.readable = ((session.readable \ earlier) \cup {password}) \ {challenge}
        /\ session'.sent = session.sent
        /\ session' \in Sessions
    BY <1>3, <2>3, <2>4 DEF Npm!Settle, NpmInv, Sessions
  <2>8. \A d, e \in Caller :
          Completing(d)' /\ Completing(e)' /\ callers'[d].challenge = callers'[e].challenge
            => d = e
    BY <2>1, FlightsApart
  <2>9. OnePlace'
    BY <2>2, <2>3, <2>4, <2>7, <2>8 DEF NpmInv, OnePlace
  <2>10. ~ session.closed
    BY <1>3 DEF Npm!Storable
  <2>11. session'.readable = session'.challenges \cup session'.passwords \cup InFlight'
    <3>1. session.readable = session.challenges \cup session.passwords \cup InFlight
      BY ErasedMeans DEF NpmInv
    <3> QED BY <3>1, <2>2, <2>3, <2>5, <2>6, <2>7
  <2>12. Npm!SecretsErased'
    BY <2>7, <2>10, <2>11, ErasedMeans
  <2> QED BY <2>2, <2>7, <2>9, <2>12 DEF NpmInv
<1> QED BY <1>2, <1>3 DEF Npm!PollAnswered

\* A challenge leaves the session for its completion.
LEMMA NpmBegins ==
  ASSUME NpmInv, NEW c \in Caller, NEW operation, Npm!CompleteBegin(c, operation)
  PROVE  NpmInv'
<1>1. PICK challenge \in session.challenges :
        /\ session' = [session EXCEPT !.challenges = @ \ {challenge}]
        /\ callers' = [callers EXCEPT ![c] = [doing |-> "notifying", challenge |-> challenge]]
  BY DEF Npm!CompleteBegin, Npm!Doing
<1> DEFINE what == [doing |-> "notifying", challenge |-> challenge]
<1>2. challenge \in Npm!Challenge /\ challenge \notin InFlight
  BY DEF NpmInv, Sessions, OnePlace
<1>3. what \in Callers /\ what.doing = "notifying" /\ what.challenge = challenge
  BY <1>2 DEF Callers
<1>4. ~ Completing(c) /\ ~ session.closed
  BY CallersHold DEF Npm!CompleteBegin
<1>5. callers' = [callers EXCEPT ![c] = what]
  BY <1>1
<1> HIDE DEF what
<1>6. /\ callers' \in [Caller -> Callers] /\ InFlight = Elsewhere(c)
      /\ InFlight' = InFlight \cup {challenge}
  BY <1>3, <1>4, <1>5, FlightParts
<1>7. /\ session' \in Sessions /\ session'.closed = session.closed
      /\ session'.challenges = session.challenges \ {challenge}
      /\ session'.passwords = session.passwords /\ session'.readable = session.readable
      /\ session'.made = session.made /\ session'.sent = session.sent
  BY <1>1 DEF NpmInv, Sessions
<1>8. \A d, e \in Caller :
        Completing(d)' /\ Completing(e)' /\ callers'[d].challenge = callers'[e].challenge => d = e
  BY <1>2, <1>3, <1>5, <1>6, FlightsApart
<1>9. OnePlace'
  BY <1>2, <1>6, <1>7, <1>8 DEF NpmInv, OnePlace
<1>10. Npm!SecretsErased'
  BY <1>4, <1>6, <1>7, ErasedMeans DEF NpmInv
<1> QED BY <1>6, <1>7, <1>9, <1>10 DEF NpmInv

\* A password is spent.
LEMMA NpmSpends ==
  ASSUME NpmInv, NEW c \in Caller, Npm!ResolveEnd(c)
  PROVE  NpmInv'
<1> DEFINE request == callers[c].request
           spent == Npm!PasswordsFor(request)
           Again(p) == \E s \in session.sent : s.of = p.of
           told == {[request |-> request, of |-> p.of, again |-> Again(p)] : p \in spent}
<1>1. callers' = [callers EXCEPT ![c] = Npm!Idle] /\ Npm!Idle \in Callers
      /\ ~ Npm!Idle.doing \in {"notifying", "polling", "waiting"}
  BY CallersHold DEF Npm!ResolveEnd, Npm!Doing
<1>2. ~ Completing(c) /\ request \in Writing
  BY CallersHold DEF Npm!ResolveEnd, Completing
<1>3. callers' \in [Caller -> Callers] /\ InFlight' = InFlight
  BY <1>1, <1>2, FlightParts
<1>4. /\ spent \subseteq session.passwords /\ \A p \in spent : p.for = request
      /\ \A p \in session.passwords : p.for = request => p \in spent
  BY DEF Npm!PasswordsFor
<1>5. \A p \in spent : ~ Again(p)
  BY <1>4 DEF NpmInv, OnePlace
<1>6. \A s \in told : \E p \in spent : s = [request |-> request, of |-> p.of, again |-> FALSE]
  BY <1>5
<1>7. \A p \in session.passwords : p.of \in Npm!Challenge /\ p.for = p.of.request
  BY DEF NpmInv, Sessions, Passwords, OnePlace
<1>8. \A s \in told :
        /\ s \in [request : Writing, of : Npm!Challenge, again : BOOLEAN]
        /\ s.of.request = s.request /\ ~ s.again /\ s.request = request
        /\ \E p \in spent : s.of = p.of
  <2> TAKE s \in told
  <2>1. PICK p \in spent : s = [request |-> request, of |-> p.of, again |-> FALSE]
    BY <1>6
  <2>2. p.of \in Npm!Challenge /\ p.of.request = request
    BY <1>4, <1>7
  <2> HIDE DEF request, spent, told
  <2> QED BY <1>2, <2>1, <2>2
<1>9. session' = [session EXCEPT !.passwords = @ \ spent, !.readable = @ \ spent,
                                 !.sent = @ \cup told]
  BY DEF Npm!ResolveEnd
<1> HIDE DEF request, spent, told
<1>10. /\ session' \in Sessions /\ session'.closed = session.closed
       /\ session'.challenges = session.challenges /\ session'.made = session.made
       /\ session'.passwords = session.passwords \ spent
       /\ session'.readable = session.readable \ spent
       /\ session'.sent = session.sent \cup told
  <2>1. told \subseteq [request : Writing, of : Npm!Challenge, again : BOOLEAN]
    BY <1>8
  <2> QED BY <1>9, <2>1 DEF NpmInv, Sessions
<1>11. \A d, e \in Caller :
        Completing(d)' /\ Completing(e)' /\ callers'[d].challenge = callers'[e].challenge => d = e
  BY <1>1, FlightsApart
<1>12. \A s \in session'.sent :
        /\ s.of.request = s.request /\ ~ s.again /\ s.of \in session.made
        /\ s.of \notin session.challenges \cup InFlight
        /\ \A p \in session'.passwords : p.of # s.of
  <2> TAKE s \in session'.sent
  <2>1. CASE s \in session.sent
    BY <2>1, <1>10 DEF NpmInv, OnePlace
  <2>2. CASE s \in told
    BY <2>2, <1>4, <1>7, <1>8, <1>10 DEF NpmInv, OnePlace
  <2> QED BY <2>1, <2>2, <1>10
<1>13. OnePlace'
  BY <1>3, <1>10, <1>11, <1>12 DEF NpmInv, OnePlace
<1>14. \A p \in spent : p \notin session.challenges \cup InFlight
  BY <1>4, SecretsApart DEF NpmInv, Sessions, OnePlace
<1>15. Npm!SecretsErased'
  BY <1>3, <1>4, <1>10, <1>14, ErasedMeans DEF NpmInv
<1> QED BY <1>3, <1>10, <1>13, <1>15 DEF NpmInv

\* The callers keep what they hold, and nothing else is in flight.
LEMMA NpmWaits ==
  ASSUME UNCHANGED callers
  PROVE  InFlight' = InFlight /\ \A c \in Caller : Completing(c)' <=> Completing(c)
BY DEF InFlight, Completing

\* A new challenge takes the place of the one of the same write.
LEMMA NpmCaptures ==
  ASSUME NpmInv, NEW request \in Writing, NEW serial \in Serial, Npm!Capture(request, serial)
  PROVE  NpmInv'
<1> DEFINE fresh == [request |-> request, serial |-> serial]
           previous == Npm!Of(session.challenges, request)
           full == Npm!Cardinality(session.challenges) >= MaxChallenges /\ previous = {}
           added == IF full THEN {} ELSE {fresh}
           replaced == Npm!PasswordsFor(request)
<1>1. fresh \in Npm!Challenge /\ fresh \notin session.made
  BY DEF Npm!Capture, Npm!Challenge
<1>2. InFlight' = InFlight /\ \A c \in Caller : Completing(c)' <=> Completing(c)
  BY NpmWaits DEF Npm!Capture
<1>3. callers' = callers
  BY DEF Npm!Capture
<1>4. CASE session.closed
  <2>1. session' = [session EXCEPT !.made = @ \cup {fresh}]
    BY <1>4 DEF Npm!Capture
  <2> HIDE DEF fresh
  <2>2. /\ session' \in Sessions /\ session'.closed = session.closed
        /\ session'.challenges = session.challenges /\ session'.passwords = session.passwords
        /\ session'.made = session.made \cup {fresh} /\ session'.sent = session.sent
        /\ session'.readable = session.readable
    BY <1>1, <2>1 DEF NpmInv, Sessions
  <2>3. OnePlace'
    BY <1>2, <1>3, <2>2 DEF NpmInv, OnePlace
  <2>4. Npm!SecretsErased'
    BY <1>2, <2>2, ErasedMeans DEF NpmInv
  <2> QED BY <1>3, <2>2, <2>3, <2>4 DEF NpmInv
<1>5. CASE ~ session.closed
  <2>1. session' = [session EXCEPT
          !.made = @ \cup {fresh}, !.passwords = @ \ replaced,
          !.readable = ((@ \ previous) \ replaced) \cup added,
          !.challenges = (@ \ previous) \cup added]
    BY <1>5 DEF Npm!Capture
  <2>2. /\ added \subseteq {fresh} /\ previous \subseteq session.challenges
        /\ replaced \subseteq session.passwords
    BY DEF Npm!Of, Npm!PasswordsFor
  <2> HIDE DEF fresh, previous, full, added, replaced
  <2>3. /\ session' \in Sessions /\ session'.closed = session.closed
        /\ session'.challenges = (session.challenges \ previous) \cup added
        /\ session'.passwords = session.passwords \ replaced
        /\ session'.made = session.made \cup {fresh} /\ session'.sent = session.sent
        /\ session'.readable = ((session.readable \ previous) \ replaced) \cup added
    BY <1>1, <2>1, <2>2 DEF NpmInv, Sessions
  <2>4. OnePlace'
    BY <1>1, <1>2, <1>3, <2>2, <2>3 DEF NpmInv, OnePlace
  <2>5. /\ InFlight \cap session.challenges = {}
        /\ session.challenges \cup InFlight \subseteq Npm!Challenge
    BY DEF NpmInv, OnePlace, Sessions
  <2>6. \A p \in session.passwords : p \notin session.challenges \cup InFlight
    BY <2>5, SecretsApart DEF NpmInv, Sessions
  <2>7. session.readable = session.challenges \cup session.passwords \cup InFlight
    BY ErasedMeans DEF NpmInv
  <2>8. session'.readable = session'.challenges \cup session'.passwords \cup InFlight'
    BY <1>2, <2>2, <2>3, <2>5, <2>6, <2>7
  <2>9. Npm!SecretsErased'
    BY <1>5, <2>3, <2>8, ErasedMeans
  <2> QED BY <1>3, <2>3, <2>4, <2>9 DEF NpmInv
<1> QED BY <1>4, <1>5

\* The session ends.
LEMMA NpmCloses == ASSUME NpmInv, Npm!Close PROVE NpmInv'
<1>1. InFlight' = InFlight /\ callers' = callers /\ \A c \in Caller : Completing(c)' <=> Completing(c)
  BY NpmWaits DEF Npm!Close
<1>2. /\ session' \in Sessions /\ session'.closed
      /\ session'.challenges = {} /\ session'.passwords = {}
      /\ session'.made = session.made /\ session'.sent = session.sent
      /\ session'.readable = (session.readable \ session.challenges) \ session.passwords
  BY DEF Npm!Close, NpmInv, Sessions
<1>3. OnePlace'
  BY <1>1, <1>2 DEF NpmInv, OnePlace
<1>4. InFlight \cap session.challenges = {} /\ InFlight \subseteq Npm!Challenge
  BY DEF NpmInv, OnePlace, Sessions
<1>5. \A p \in session.passwords : p \notin InFlight
  BY <1>4, SecretsApart DEF NpmInv, Sessions
<1>6. Npm!SecretsErased'
  BY <1>1, <1>2, <1>4, <1>5, ErasedMeans DEF NpmInv
<1> QED BY <1>1, <1>2, <1>3, <1>6 DEF NpmInv

\* A step of one caller.
LEMMA CallerStep ==
  ASSUME NpmInv, NEW c \in Caller,
         \/ \E operation \in Operation : Npm!CompleteBegin(c, operation)
         \/ Npm!Notify(c) \/ Npm!PollAnswered(c) \/ Npm!PollPending(c) \/ Npm!PollAgain(c)
         \/ Npm!CompleteFails(c)
         \/ \E request \in Writing : Npm!ResolveBegin(c, request)
         \/ Npm!ResolveEnd(c)
  PROVE  NpmInv'
<1>1. ASSUME NEW to \in {"polling", "waiting"}, Completing(c), UNCHANGED session,
             Npm!Doing(c, [callers[c] EXCEPT !.doing = to])
      PROVE  NpmInv'
  <2> DEFINE what == [callers[c] EXCEPT !.doing = to]
  <2>1. callers[c] \in [doing : {"notifying", "polling", "waiting"}, challenge : Npm!Challenge]
    BY <1>1 DEF NpmInv, Callers, Completing, Npm!Idle
  <2>2. what \in Callers /\ what.doing = to /\ what.challenge = callers[c].challenge
    BY <2>1 DEF Callers
  <2>3. callers' = [callers EXCEPT ![c] = what]
    BY <1>1 DEF Npm!Doing
  <2> HIDE DEF what
  <2> QED BY <1>1, <2>2, <2>3, NpmMoves
<1>2. CASE Npm!Notify(c)
  BY <1>1, <1>2, NpmSettles DEF Npm!Notify, Completing
<1>3. CASE Npm!PollPending(c)
  BY <1>1, <1>3 DEF Npm!PollPending, Completing
<1>4. CASE Npm!PollAgain(c)
  BY <1>1, <1>4 DEF Npm!PollAgain, Completing
<1>5. CASE Npm!CompleteFails(c)
  BY <1>5, NpmSettles DEF Npm!CompleteFails, Completing
<1>6. ASSUME NEW request \in Writing, Npm!ResolveBegin(c, request)
      PROVE  NpmInv'
  <2> DEFINE what == [doing |-> "resolving", request |-> request]
  <2>1. what \in Callers /\ what.doing = "resolving"
    BY DEF Callers
  <2>2. callers' = [callers EXCEPT ![c] = what] /\ UNCHANGED session /\ callers[c] = Npm!Idle
    BY <1>6 DEF Npm!ResolveBegin, Npm!Doing
  <2>3. ~ Completing(c)
    BY <2>2, CallersHold
  <2> HIDE DEF what
  <2> QED BY <2>1, <2>2, <2>3, NpmMoves
<1> QED BY <1>2, <1>3, <1>4, <1>5, <1>6, NpmBegins, NpmAnswered, NpmSpends

LEMMA NpmStep == ASSUME NpmInv, Npm!Next PROVE NpmInv'
<1>1. CASE Npm!CaptureForeign
  <2>1. session' = session /\ callers' = callers
    BY <1>1 DEF Npm!CaptureForeign, Npm!vars
  <2> QED BY <2>1 DEF NpmInv, OnePlace, Npm!SecretsErased, InFlight, Completing
<1> QED BY <1>1, NpmCaptures, NpmCloses, CallerStep DEF Npm!Next

LEMMA NpmSafe == ASSUME NpmInv PROVE Npm!PasswordsSpentOnce /\ Npm!SecretsErased
BY DEF NpmInv, OnePlace, Npm!PasswordsSpentOnce

-----------------------------------------------------------------------------
(* One bounded observation *)

LEMMA ObservingInit == ASSUME Bounded!Init PROVE ObservingInv
<1>1. Watched \in Seq(STRING) /\ 1 \in DOMAIN Watched /\ FirstDelay \in Nat /\ Budget \in Nat
  BY HostAssumptions DEF Bounded!ObservationAssumption
<1> DEFINE event == [of |-> Watched[1], status |-> "Pending", id |-> 0]
<1>2. event \in Observed /\ event.id = 0
  BY <1>1 DEF Observed, Bounded!Status
<1>3. /\ time = 0 /\ history = <<>> /\ pushes = {}
      /\ sweep = [phase |-> "checking", at |-> 1, delay |-> FirstDelay, wake |-> 0,
                  report |-> 0, failed |-> FALSE, joined |-> {}, event |-> event]
  BY DEF Bounded!Init
<1> HIDE DEF event
<1>4. sweep \in Sweeps /\ history \in Seq(Observed) /\ time \in Nat
  BY <1>1, <1>2, <1>3 DEF Sweeps
<1>5. PushesKept /\ ReportKept
  BY <1>2, <1>3 DEF PushesKept, ReportKept
<1> QED BY <1>3, <1>4, <1>5 DEF ObservingInv

\* What the invariant says of the state a step is taken in.
LEMMA SweepState ==
  ASSUME ObservingInv
  PROVE  /\ sweep \in Sweeps /\ sweep.at \in Nat /\ sweep.report \in Nat
         /\ sweep.event \in Observed /\ sweep.event.id \in Nat
         /\ time \in Nat /\ history \in Seq(Observed) /\ Len(history) \in Nat
         /\ Len(Watched) \in Nat /\ Watched \in Seq(STRING)
         /\ \A i \in DOMAIN history : history[i].id \in Nat /\ i \in Nat /\ i <= Len(history)
<1>1. time \in Nat /\ history \in Seq(Observed) /\ sweep \in Sweeps
  BY DEF ObservingInv
<1>2. Watched \in Seq(STRING)
  BY HostAssumptions DEF Bounded!ObservationAssumption
<1>3. sweep.at \in Nat /\ sweep.report \in Nat /\ sweep.event \in Observed
  BY <1>1 DEF Sweeps
<1>4. \A event \in Observed : event.id \in Nat
  BY DEF Observed
<1>5. \A i \in DOMAIN history : history[i] \in Observed /\ i \in Nat /\ i <= Len(history)
  BY <1>1
<1> QED BY <1>1, <1>2, <1>3, <1>4, <1>5

\* The call goes on, and nothing is recorded.
LEMMA SweepMoves ==
  ASSUME ObservingInv, UNCHANGED <<time, history, pushes>>, NEW next \in Sweeps, sweep' = next,
         \/ next.event = sweep.event
         \/ /\ sweep.phase = "observing" /\ next.phase = "appending"
            /\ next.event.id = sweep.event.id + 1,
         next.phase \in {"observing", "appending", "pushing"} => next.at >= 1,
         next.phase \in {"appending", "pushing"} => next.event.id # 0,
         next.failed => next.phase = "failed",
         next.joined # {} => next.phase \in {"reconciling", "returned", "failed"},
         next.phase = "reconciling" => next.joined # {},
         next.phase \notin {"appending", "pushing", "settling", "failed"} /\ next.joined = {}
           => pushes = {},
         next.phase \in {"checking", "looking", "sleeping", "returned"} =>
           \/ next.report = Len(history)
           \/ /\ next.report = sweep.report /\ next.joined = sweep.joined
              /\ sweep.phase \in {"checking", "looking", "sleeping", "returned"},
         \A joined \in next.joined : joined <= Len(history)
  PROVE  ObservingInv'
<1>1. /\ next.event \in Observed /\ next.event.id \in Nat
  BY DEF Sweeps, Observed
<1>2. next.event # sweep.event => pushes = {}
  BY DEF ObservingInv, ReportKept
<1>3. \A push \in pushes' :
        push.event = sweep'.event /\ sweep'.event.id # 0 /\ push.rev <= Len(history')
  BY <1>2 DEF ObservingInv, PushesKept
<1>4. pushes' # {} => ~ Bounded!Recorded(sweep.event)'
  BY <1>2 DEF ObservingInv, PushesKept, Bounded!Recorded
<1>5. \A i \in DOMAIN history' : history'[i].id <= sweep'.event.id
  BY <1>1, SweepState DEF ObservingInv, PushesKept
<1>6. PushesKept'
  BY <1>3, <1>4, <1>5 DEF ObservingInv, PushesKept, Bounded!Recorded
<1>7. next.phase \in {"checking", "looking", "sleeping", "returned"} =>
        \A i \in DOMAIN history :
          history[i].id # 0 /\ i > next.report =>
            \E joined \in next.joined : i > joined /\ history[i] = next.event
  BY SweepState DEF ObservingInv, ReportKept
<1>8. ReportKept'
  BY <1>7 DEF ReportKept
<1> QED BY <1>6, <1>8 DEF ObservingInv

\* An observation is recorded: another process's, or the one whose push may still land.
LEMMA HistoryGrows ==
  ASSUME ObservingInv, UNCHANGED <<time, sweep>>, NEW event \in Observed,
         history' = Append(history, event), pushes' \subseteq pushes,
         event.id # 0 => event = sweep.event /\ pushes # {} /\ pushes' = {}
  PROVE  ObservingInv'
<1>1. /\ history' \in Seq(Observed) /\ Len(history') = Len(history) + 1
      /\ DOMAIN history' = DOMAIN history \cup {Len(history) + 1}
      /\ history'[Len(history) + 1] = event
      /\ \A i \in DOMAIN history : history'[i] = history[i]
  BY SweepState
<1>2. \A push \in pushes' :
        push.event = sweep'.event /\ sweep'.event.id # 0 /\ push.rev <= Len(history')
  BY <1>1, SweepState DEF ObservingInv, PushesKept
<1>3. ASSUME pushes' # {} PROVE ~ Bounded!Recorded(sweep.event)'
  BY <1>1, <1>2, <1>3 DEF ObservingInv, PushesKept, Bounded!Recorded
<1>4. \A i \in DOMAIN history' : history'[i].id <= sweep'.event.id
  BY <1>1, SweepState DEF ObservingInv, PushesKept
<1>5. ASSUME event.id # 0 PROVE \A i \in DOMAIN history : history[i].id # event.id
  BY <1>5 DEF ObservingInv, PushesKept, Bounded!Recorded
<1>6. \A i, j \in DOMAIN history' :
        history'[i].id # 0 /\ history'[i].id = history'[j].id => i = j
  BY <1>1, <1>5 DEF ObservingInv, PushesKept
<1>7. PushesKept'
  BY <1>2, <1>3, <1>4, <1>6 DEF PushesKept
<1>8. ASSUME event.id # 0, sweep.phase \in {"checking", "looking", "sleeping", "returned"}
      PROVE  \E joined \in sweep.joined : Len(history) + 1 > joined
  <2>1. sweep.joined # {} /\ \A joined \in sweep.joined : joined <= Len(history)
    BY <1>8 DEF ObservingInv, ReportKept
  <2>2. sweep.joined \subseteq Nat
    BY SweepState DEF Sweeps
  <2> QED BY <2>1, <2>2, SweepState
<1>9. sweep.phase \in {"checking", "looking", "sleeping", "returned"} =>
        \A i \in DOMAIN history' :
          history'[i].id # 0 /\ i > sweep.report =>
            \E joined \in sweep.joined : i > joined /\ history'[i] = sweep.event
  BY <1>1, <1>8 DEF ObservingInv, ReportKept
<1>10. \A joined \in sweep.joined : joined <= Len(history')
  <2>1. sweep.joined \subseteq Nat
    BY SweepState DEF Sweeps
  <2> QED BY <1>1, <2>1, SweepState DEF ObservingInv, ReportKept
<1>11. ReportKept'
  BY <1>9, <1>10 DEF ObservingInv, ReportKept
<1> QED BY <1>1, <1>7, <1>11 DEF ObservingInv

\* The steps of a call that record nothing and push nothing.
LEMMA SweepStep ==
  ASSUME ObservingInv,
         \/ Bounded!Tick \/ Bounded!Check \/ Bounded!Fail \/ Bounded!ReadReport
         \/ Bounded!Interrupt \/ Bounded!Settle \/ Bounded!Reconcile \/ Bounded!Wake
  PROVE  ObservingInv'
<1>1. /\ sweep \in Sweeps
      /\ sweep.failed => sweep.phase = "failed"
      /\ sweep.joined # {} => sweep.phase \in {"reconciling", "returned", "failed"}
      /\ sweep.phase = "reconciling" => sweep.joined # {}
      /\ sweep.phase \in {"checking", "observing", "reading", "looking", "sleeping"}
           => pushes = {} /\ sweep.joined = {}
      /\ \A joined \in sweep.joined : joined <= Len(history)
  BY SweepState DEF ObservingInv, ReportKept
<1>2. CASE Bounded!Tick
  <2>1. time' \in Nat /\ UNCHANGED <<history, sweep, pushes>>
    BY <1>2, SweepState DEF Bounded!Tick
  <2> QED BY <2>1 DEF ObservingInv, PushesKept, ReportKept, Bounded!Recorded
<1>3. CASE Bounded!Check
  <2> DEFINE phase == IF Bounded!Remaining = 0 THEN "returned" ELSE "observing"
             next == [sweep EXCEPT !.phase = phase, !.at = 1]
  <2>1. /\ next \in Sweeps /\ next.phase = phase /\ next.at = 1
        /\ phase \in {"returned", "observing"} /\ next.report = sweep.report
        /\ next.failed = sweep.failed /\ next.joined = sweep.joined /\ next.event = sweep.event
    BY <1>1 DEF Sweeps
  <2>2. sweep' = next /\ UNCHANGED <<time, history, pushes>> /\ sweep.phase = "checking"
    BY <1>3 DEF Bounded!Check, Bounded!Step, Bounded!Quiet
  <2> HIDE DEF phase, next
  <2> QED BY <1>1, <2>1, <2>2, SweepMoves
<1>4. CASE Bounded!Fail
  <2> DEFINE next == [sweep EXCEPT !.phase = "failed", !.failed = TRUE]
  <2>1. /\ next \in Sweeps /\ next.phase = "failed" /\ next.joined = sweep.joined
        /\ next.event = sweep.event
    BY <1>1 DEF Sweeps
  <2>2. sweep' = next /\ UNCHANGED <<time, history, pushes>>
    BY <1>4 DEF Bounded!Fail, Bounded!Step, Bounded!Quiet
  <2> HIDE DEF next
  <2> QED BY <1>1, <2>1, <2>2, SweepMoves
<1>5. CASE Bounded!ReadReport
  <2> DEFINE next == [sweep EXCEPT !.phase = "looking", !.report = Len(history)]
  <2>1. /\ next \in Sweeps /\ next.phase = "looking" /\ next.report = Len(history)
        /\ next.failed = sweep.failed /\ next.joined = sweep.joined /\ next.event = sweep.event
    BY <1>1, SweepState DEF Sweeps
  <2>2. sweep' = next /\ UNCHANGED <<time, history, pushes>> /\ sweep.phase = "reading"
    BY <1>5 DEF Bounded!ReadReport, Bounded!Step, Bounded!Quiet
  <2> HIDE DEF next
  <2> QED BY <1>1, <2>1, <2>2, SweepMoves
<1>6. CASE Bounded!Interrupt
  <2> DEFINE next == [sweep EXCEPT !.phase = "settling"]
  <2>1. /\ next \in Sweeps /\ next.phase = "settling"
        /\ next.failed = sweep.failed /\ next.joined = sweep.joined /\ next.event = sweep.event
    BY <1>1 DEF Sweeps
  <2>2. /\ sweep' = next /\ UNCHANGED <<time, history, pushes>>
        /\ sweep.phase \in {"observing", "appending", "pushing", "reading"}
    BY <1>6 DEF Bounded!Interrupt, Bounded!Step, Bounded!Quiet
  <2> HIDE DEF next
  <2> QED BY <1>1, <2>1, <2>2, SweepMoves
<1>7. CASE Bounded!Settle
  <2> DEFINE joined == {Len(history)}
             goes == [sweep EXCEPT !.phase = "reconciling", !.joined = joined]
             fails == [sweep EXCEPT !.phase = "failed", !.failed = TRUE, !.joined = joined]
  <2>1. joined \in SUBSET Nat /\ joined # {} /\ \A n \in joined : n <= Len(history)
    BY SweepState
  <2>2. /\ sweep' \in {goes, fails} /\ UNCHANGED <<time, history, pushes>>
        /\ sweep.phase = "settling"
    BY <1>7 DEF Bounded!Settle, Bounded!Step, Bounded!Quiet, Bounded!OnFailure
  <2> HIDE DEF joined
  <2>3. /\ goes \in Sweeps /\ goes.phase = "reconciling" /\ goes.failed = sweep.failed
        /\ goes.joined = joined /\ goes.event = sweep.event
    BY <1>1, <2>1 DEF Sweeps
  <2>4. /\ fails \in Sweeps /\ fails.phase = "failed" /\ fails.joined = joined
        /\ fails.event = sweep.event
    BY <1>1, <2>1 DEF Sweeps
  <2> HIDE DEF goes, fails
  <2>5. CASE sweep' = goes
    BY <1>1, <2>1, <2>2, <2>3, <2>5, SweepMoves
  <2>6. CASE sweep' = fails
    BY <1>1, <2>1, <2>2, <2>4, <2>6, SweepMoves
  <2> QED BY <2>2, <2>5, <2>6
<1>8. CASE Bounded!Reconcile
  <2> DEFINE next == [sweep EXCEPT !.phase = "returned", !.report = Len(history)]
  <2>1. /\ next \in Sweeps /\ next.phase = "returned" /\ next.report = Len(history)
        /\ next.failed = sweep.failed /\ next.joined = sweep.joined /\ next.event = sweep.event
    BY <1>1, SweepState DEF Sweeps
  <2>2. sweep' = next /\ UNCHANGED <<time, history, pushes>> /\ sweep.phase = "reconciling"
    BY <1>8 DEF Bounded!Reconcile, Bounded!ReportedNow, Bounded!Step, Bounded!Quiet
  <2> HIDE DEF next
  <2> QED BY <1>1, <2>1, <2>2, SweepMoves
<1>9. CASE Bounded!Wake
  <2> DEFINE next == [sweep EXCEPT !.phase = "checking"]
  <2>1. /\ next \in Sweeps /\ next.phase = "checking" /\ next.report = sweep.report
        /\ next.failed = sweep.failed /\ next.joined = sweep.joined /\ next.event = sweep.event
    BY <1>1 DEF Sweeps
  <2>2. sweep' = next /\ UNCHANGED <<time, history, pushes>> /\ sweep.phase = "sleeping"
    BY <1>9 DEF Bounded!Wake, Bounded!Step, Bounded!Quiet
  <2> HIDE DEF next
  <2> QED BY <1>1, <2>1, <2>2, SweepMoves
<1> QED BY <1>2, <1>3, <1>4, <1>5, <1>6, <1>7, <1>8, <1>9

LEMMA LookStep == ASSUME ObservingInv, Bounded!Look PROVE ObservingInv'
<1>1. /\ Budget \in Nat /\ FirstDelay \in Nat /\ LastDelay \in Nat /\ time \in Nat
      /\ sweep \in Sweeps /\ sweep.delay \in Nat
  BY HostAssumptions DEF Bounded!ObservationAssumption, ObservingInv, Sweeps
<1>2. /\ UNCHANGED <<time, history, pushes>> /\ sweep.phase = "looking" /\ ~ sweep.failed
      /\ pushes = {} /\ sweep.joined = {}
  BY DEF Bounded!Look, Bounded!Quiet, ObservingInv, ReportKept
<1>3. CASE sweep' = [sweep EXCEPT !.phase = "returned"]
  <2> DEFINE next == [sweep EXCEPT !.phase = "returned"]
  <2>1. /\ next \in Sweeps /\ next.phase = "returned" /\ next.report = sweep.report
        /\ next.failed = sweep.failed /\ next.joined = sweep.joined /\ next.event = sweep.event
    BY <1>1 DEF Sweeps
  <2>2. sweep' = next
    BY <1>3
  <2> HIDE DEF next
  <2> QED BY <1>2, <2>1, <2>2, SweepMoves
<1>4. CASE /\ Bounded!Remaining # 0
           /\ sweep' = [sweep EXCEPT !.phase = "sleeping", !.wake = time + Bounded!Sleep,
                          !.delay = IF 2 * @ < LastDelay THEN 2 * @ ELSE LastDelay]
  <2>1. time + Bounded!Sleep \in 0..Budget
    BY <1>1, <1>4 DEF Bounded!Sleep, Bounded!Remaining
  <2> DEFINE wake == time + Bounded!Sleep
             delay == IF 2 * sweep.delay < LastDelay THEN 2 * sweep.delay ELSE LastDelay
             next == [sweep EXCEPT !.phase = "sleeping", !.wake = wake, !.delay = delay]
  <2>2. wake \in 0..Budget /\ delay \in Nat
    BY <1>1, <2>1
  <2>3. sweep' = next
    BY <1>4
  <2> HIDE DEF wake, delay
  <2>4. /\ next \in Sweeps /\ next.phase = "sleeping" /\ next.report = sweep.report
        /\ next.failed = sweep.failed /\ next.joined = sweep.joined /\ next.event = sweep.event
    BY <1>1, <2>2 DEF Sweeps
  <2> HIDE DEF next
  <2> QED BY <1>2, <2>3, <2>4, SweepMoves
<1> QED BY <1>3, <1>4 DEF Bounded!Look, Bounded!Step

\* One operation is observed and what was seen of it is pushed, until it is recorded.
LEMMA OperationStep ==
  ASSUME ObservingInv, Bounded!Observe \/ Bounded!AppendFact \/ Bounded!Answer
  PROVE  ObservingInv'
<1>1. /\ ~ sweep.failed /\ sweep.joined = {} /\ sweep.at \in Nat /\ sweep.at >= 1
      /\ sweep.phase \in {"observing", "appending", "pushing"} /\ sweep \in Sweeps
      /\ sweep.phase \in {"appending", "pushing"} => sweep.event.id # 0
  BY SweepState
  DEF ObservingInv, ReportKept, Bounded!Observe, Bounded!AppendFact, Bounded!Answer
<1>2. ASSUME UNCHANGED <<time, history, pushes>>, sweep' = Bounded!NextOperation,
             Bounded!Recorded(sweep.event)
      PROVE  ObservingInv'
  <2> DEFINE at == sweep.at + 1
             next == [sweep EXCEPT !.phase = "observing", !.at = at]
  <2>1. sweep' = next /\ at \in Nat /\ at >= 1
    BY <1>1, <1>2 DEF Bounded!NextOperation
  <2>2. pushes = {}
    BY <1>2 DEF ObservingInv, PushesKept
  <2> HIDE DEF at
  <2>3. /\ next \in Sweeps /\ next.phase = "observing" /\ next.at = at
        /\ next.failed = sweep.failed /\ next.joined = sweep.joined /\ next.event = sweep.event
    BY <1>1, <2>1 DEF Sweeps
  <2> HIDE DEF next
  <2> QED BY <1>1, <1>2, <2>1, <2>2, <2>3, SweepMoves
<1>3. CASE Bounded!Observe
  <2>1. UNCHANGED <<time, history, pushes>> /\ sweep.phase = "observing" /\ pushes = {}
    BY <1>1, <1>3 DEF Bounded!Observe, Bounded!Quiet, ObservingInv, ReportKept
  <2>2. ASSUME sweep' = [sweep EXCEPT !.phase = "reading"] PROVE ObservingInv'
    <3> DEFINE next == [sweep EXCEPT !.phase = "reading"]
    <3>1. /\ next \in Sweeps /\ next.phase = "reading"
          /\ next.failed = sweep.failed /\ next.joined = sweep.joined
          /\ next.event = sweep.event
      BY <1>1 DEF Sweeps
    <3>2. sweep' = next
      BY <2>2
    <3> HIDE DEF next
    <3> QED BY <1>1, <2>1, <3>1, <3>2, SweepMoves
  <2>3. ASSUME sweep.at <= Len(Watched), NEW status \in Bounded!Status,
               sweep' = [sweep EXCEPT !.phase = "appending", !.event = Bounded!Seen(status)]
        PROVE  ObservingInv'
    <3> DEFINE event == Bounded!Seen(status)
               next == [sweep EXCEPT !.phase = "appending", !.event = event]
    <3>1. sweep.at \in DOMAIN Watched
      BY <1>1, <2>3, SweepState
    <3>2. event \in Observed /\ event.id = sweep.event.id + 1 /\ event.id # 0
      BY <3>1, SweepState DEF Bounded!Seen, Observed
    <3>3. sweep' = next
      BY <2>3
    <3> HIDE DEF event
    <3>4. /\ next \in Sweeps /\ next.phase = "appending" /\ next.at = sweep.at
          /\ next.failed = sweep.failed /\ next.joined = sweep.joined /\ next.event = event
      BY <1>1, <3>2 DEF Sweeps
    <3> HIDE DEF next
    <3> QED BY <1>1, <2>1, <3>2, <3>3, <3>4, SweepMoves
  <2> QED BY <1>3, <2>2, <2>3 DEF Bounded!Observe, Bounded!Step
<1>4. CASE Bounded!AppendFact
  <2>1. CASE Bounded!Recorded(sweep.event)
    BY <1>2, <1>4, <2>1 DEF Bounded!AppendFact, Bounded!Step
  <2>2. CASE ~ Bounded!Recorded(sweep.event)
    <3> DEFINE next == [sweep EXCEPT !.phase = "pushing"]
               push == [rev |-> Len(history), event |-> sweep.event]
    <3>1. /\ sweep' = next /\ pushes' = {push} /\ UNCHANGED <<time, history>>
          /\ sweep.phase = "appending"
      BY <1>4, <2>2 DEF Bounded!AppendFact, Bounded!Step
    <3>2. /\ push \in [rev : Nat, event : Observed] /\ push.event = sweep.event
          /\ push.rev <= Len(history)
      BY SweepState
    <3>3. /\ next \in Sweeps /\ next.phase = "pushing" /\ next.at = sweep.at
          /\ next.failed = sweep.failed /\ next.joined = sweep.joined
          /\ next.event = sweep.event
      BY <1>1 DEF Sweeps
    <3> HIDE DEF next, push
    <3>4. PushesKept'
      BY <1>1, <2>2, <3>1, <3>2, <3>3 DEF ObservingInv, PushesKept, Bounded!Recorded
    <3>5. ReportKept'
      BY <1>1, <3>1, <3>3 DEF ReportKept
    <3>6. sweep' \in Sweeps /\ pushes' \subseteq [rev : Nat, event : Observed]
      BY <3>1, <3>2, <3>3
    <3> QED BY <3>1, <3>4, <3>5, <3>6 DEF ObservingInv
  <2> QED BY <2>1, <2>2
<1>5. CASE Bounded!Answer
  <2>1. UNCHANGED <<time, history, pushes>> /\ sweep.phase = "pushing"
    BY <1>5 DEF Bounded!Answer, Bounded!Quiet
  <2>2. CASE sweep' = [sweep EXCEPT !.phase = "appending"]
    <3> DEFINE next == [sweep EXCEPT !.phase = "appending"]
    <3>1. /\ next \in Sweeps /\ next.phase = "appending" /\ next.at = sweep.at
          /\ next.failed = sweep.failed /\ next.joined = sweep.joined
          /\ next.event = sweep.event
      BY <1>1 DEF Sweeps
    <3>2. sweep' = next
      BY <2>2
    <3> HIDE DEF next
    <3> QED BY <1>1, <2>1, <3>1, <3>2, SweepMoves
  <2> QED BY <1>2, <1>5, <2>1, <2>2 DEF Bounded!Answer, Bounded!Landed, Bounded!Step
<1> QED BY <1>3, <1>4, <1>5

\* A push lands, or another process records an observation.
LEMMA RecordingStep ==
  ASSUME ObservingInv, Bounded!Land \/ Bounded!Foreign
  PROVE  ObservingInv'
<1>1. CASE Bounded!Land
  <2>1. PICK push \in pushes :
          history' = IF push.rev = Len(history) THEN Append(history, push.event) ELSE history
    BY <1>1 DEF Bounded!Land
  <2>2. UNCHANGED <<time, sweep>> /\ pushes' = {} /\ pushes # {}
    BY <1>1, <2>1 DEF Bounded!Land
  <2>3. push.event = sweep.event /\ sweep.event \in Observed
    BY SweepState DEF ObservingInv, PushesKept
  <2>4. CASE history' = history
    <3>1. PushesKept'
      BY <2>2, <2>4 DEF ObservingInv, PushesKept, Bounded!Recorded
    <3>2. ReportKept'
      BY <2>2, <2>4 DEF ObservingInv, ReportKept
    <3> QED BY <2>2, <2>4, <3>1, <3>2 DEF ObservingInv
  <2>5. CASE history' = Append(history, sweep.event)
    BY <2>2, <2>3, <2>5, HistoryGrows
  <2> QED BY <2>1, <2>3, <2>4, <2>5
<1>2. CASE Bounded!Foreign
  <2>1. PICK i \in DOMAIN Watched, status \in Bounded!Status :
          history' = Append(history, [of |-> Watched[i], status |-> status, id |-> 0])
    BY <1>2 DEF Bounded!Foreign
  <2> DEFINE seen == [of |-> Watched[i], status |-> status, id |-> 0]
  <2>2. seen \in Observed /\ seen.id = 0 /\ history' = Append(history, seen)
    BY <2>1 DEF Observed
  <2>3. UNCHANGED <<time, sweep, pushes>>
    BY <1>2 DEF Bounded!Foreign
  <2> HIDE DEF seen
  <2> QED BY <2>2, <2>3, HistoryGrows
<1> QED BY <1>1, <1>2

LEMMA ObservingStep == ASSUME ObservingInv, Bounded!Next PROVE ObservingInv'
BY SweepStep, LookStep, OperationStep, RecordingStep DEF Bounded!Next

LEMMA ObservingSafe == ASSUME ObservingInv PROVE Bounded!ReportTrue
BY HostAssumptions
DEF Bounded!ObservationAssumption, ObservingInv, PushesKept, ReportKept, Sweeps,
    Bounded!ReportTrue

-----------------------------------------------------------------------------
(* Journals of several plans *)

\* An event follows a history whatever comes after the history.
LEMMA FollowsStays ==
  ASSUME NEW events, NEW longer, NEW last \in Nat, NEW event, NEW plans,
         \A i \in 1..last : longer[i] = events[i],
         Follows(events, last, event, plans)
  PROVE  Follows(longer, last, event, plans)
BY DEF Follows, GivenUp

LEMMA OneActiveGrows ==
  ASSUME NEW S, NEW plans, NEW events \in Seq(S), NEW event \in S,
         OneActive(events, plans), Follows(events, Len(events), event, plans)
  PROVE  OneActive(Append(events, event), plans)
<1> DEFINE longer == Append(events, event)
<1>1. /\ Len(events) \in Nat /\ DOMAIN longer = 1..(Len(events) + 1)
      /\ longer[Len(events) + 1] = event
      /\ \A i \in 1..Len(events) : longer[i] = events[i]
  OBVIOUS
<1>2. \A k \in 1..Len(events) : Follows(events, k - 1, events[k], plans)
  BY DEF OneActive
<1> HIDE DEF longer
<1>3. ASSUME NEW k \in 1..(Len(events) + 1)
      PROVE  Follows(longer, k - 1, longer[k], plans)
  <2>1. k - 1 \in Nat /\ \A i \in 1..(k - 1) : longer[i] = events[i]
    BY <1>1
  <2>2. Follows(events, k - 1, longer[k], plans)
    BY <1>1, <1>2
  <2> QED BY <2>1, <2>2, FollowsStays
<1>4. OneActive(longer, plans)
  BY <1>1, <1>3 DEF OneActive
<1> QED BY <1>4 DEF longer

\* Where one plan was started, the others were given up, whenever they wrote.
LEMMA OneActiveMeans ==
  ASSUME NEW S, NEW plans, NEW events \in Seq(S), OneActive(events, plans),
         NEW k \in DOMAIN events, NEW j \in DOMAIN events,
         events[k].tag = "DispatchStarted", events[k].plan \in plans,
         events[j].plan \in plans, events[j].plan # events[k].plan
  PROVE  /\ \E i \in DOMAIN events :
              events[i].plan = events[j].plan /\ events[i].tag = "PlanSuperseded"
         /\ events[j].tag # "DispatchStarted"
<1>1. Len(events) \in Nat /\ DOMAIN events = 1..Len(events) /\ k # j
  OBVIOUS
<1>2. CASE j < k
  <2>1. j \in 1..(k - 1)
    BY <1>1, <1>2
  <2>2. GivenUp(events, events[j].plan, k - 1)
    BY <2>1 DEF OneActive, Follows
  <2>3. \A i \in 1..(k - 1) : i \in DOMAIN events
    BY <1>1
  <2> QED BY <2>1, <2>2, <2>3 DEF GivenUp
<1>3. CASE k < j
  <2>1. k \in 1..(j - 1)
    BY <1>1, <1>3
  <2>2. GivenUp(events, events[k].plan, j - 1)
    BY <2>1 DEF OneActive, Follows
  <2> QED BY <2>1, <2>2 DEF GivenUp
<1> QED BY <1>1, <1>2, <1>3

LEMMA SharedFinite ==
  ASSUME NEW S
  PROVE  (Shared!IsFiniteSet(S) <=> IsFiniteSet(S)) /\ Shared!Cardinality(S) = Cardinality(S)
BY DEF Shared!IsFiniteSet, IsFiniteSet, Shared!Cardinality, Cardinality

\* What a host admits of a publication follows the history it read.
LEMMA AdmittedFollows ==
  ASSUME log \in Seq(Shared!Event), NEW context \in Contexts, NEW event \in Shared!Event,
         Shared!Admits(context, event.plan, log), Shared!Legal(log, event)
  PROVE  Follows(log, Len(log), event, Publication)
<1>1. DOMAIN log = 1..Len(log)
  OBVIOUS
<1>2. ASSUME event.plan \in Publication, NEW i \in 1..Len(log),
             log[i].plan \in Publication \ {event.plan}
      PROVE  GivenUp(log, log[i].plan, Len(log))
  <2>1. /\ Publication \cap Preparation = {} /\ IsFiniteSet(context.publications)
        /\ context.preparations \subseteq Preparation
    BY HostAssumptions, SharedFinite DEF Shared!SharedAssumption
  <2>2. event.plan \in context.publications /\ Cardinality(context.publications) <= 1
    BY <1>2, <2>1, SharedFinite DEF Shared!Admits, Shared!Configured
  <2>3. context.publications = {event.plan}
    <3>1. Cardinality(context.publications) \in Nat /\ Cardinality(context.publications) # 0
      BY <2>1, <2>2, FS_CardinalityType, FS_EmptySet
    <3>2. Cardinality(context.publications) = 1
      BY <2>2, <3>1
    <3> QED BY <2>1, <2>2, <3>2, FS_Singleton
  <2>4. log[i].plan \in Shared!Registered(context)
    BY <1>1 DEF Shared!Admits, Shared!OnlyScopes
  <2>5. log[i].plan \in context.prior
    BY <1>2, <2>1, <2>3, <2>4 DEF Shared!Registered
  <2>6. Shared!HistoricalPlan(log[i].plan, log)
    BY <2>5 DEF Shared!Admits
  <2> QED BY <1>1, <2>6 DEF Shared!HistoricalPlan, Shared!Tagged, GivenUp
<1> QED BY <1>1, <1>2 DEF Follows, Shared!Legal, Shared!Tagged

LEMMA SharedInit == ASSUME Shared!Init PROVE SharedInv
<1>1. Shared!Idle \in Invoked /\ Shared!Idle.phase = "idle"
  BY HostAssumptions DEF Shared!SharedAssumption, Shared!Idle, Invoked
<1> QED BY <1>1 DEF Shared!Init, SharedInv, OneActive

\* A asked goes on, or ends, and nothing is appended.
LEMMA CallMoves ==
  ASSUME SharedInv, NEW p \in Process, NEW fields \in Invoked, Shared!Step(p, fields),
         UNCHANGED log,
         fields.phase = "appending" =>
           fields.revision <= Len(log) /\ Follows(log, fields.revision, fields.event, Publication)
  PROVE  SharedInv'
BY DEF SharedInv, Shared!Step

\* The event of a asked that read this history is appended to it.
LEMMA CallAppends ==
  ASSUME SharedInv, NEW p \in Process, NEW fields \in Invoked, Shared!Step(p, fields),
         fields.phase # "appending", invoked[p].phase = "appending", Shared!AtRevision(p),
         log' = Append(log, invoked[p].event)
  PROVE  SharedInv'
<1>1. /\ log \in Seq(Shared!Event) /\ invoked \in [Process -> Invoked] /\ Len(log) \in Nat
      /\ OneActive(log, Publication)
  BY DEF SharedInv
<1>2. invoked[p].event \in Shared!Event
  BY <1>1 DEF Invoked
<1>3. Follows(log, Len(log), invoked[p].event, Publication)
  BY DEF SharedInv, Shared!AtRevision
<1>4. log' \in Seq(Shared!Event) /\ OneActive(log', Publication)
  BY <1>1, <1>2, <1>3, OneActiveGrows
<1>5. invoked' \in [Process -> Invoked]
  BY <1>1 DEF Shared!Step
<1>6. ASSUME NEW q \in Process, invoked'[q].phase = "appending"
      PROVE  /\ invoked'[q].revision <= Len(log')
             /\ Follows(log', invoked'[q].revision, invoked'[q].event, Publication)
  <2>1. invoked'[q] = invoked[q]
    BY <1>1, <1>6 DEF Shared!Step
  <2>2. /\ invoked[q].phase = "appending" /\ invoked[q].revision <= Len(log)
        /\ Follows(log, invoked[q].revision, invoked[q].event, Publication)
    BY <1>6, <2>1 DEF SharedInv
  <2>3. invoked[q].revision \in Nat
    BY <1>1, <2>2 DEF Invoked
  <2>4. /\ Len(log') = Len(log) + 1
        /\ \A i \in 1..invoked[q].revision : log'[i] = log[i]
    BY <1>1, <1>2, <2>2, <2>3
  <2>5. Follows(log', invoked[q].revision, invoked[q].event, Publication)
    BY <2>2, <2>3, <2>4, FollowsStays
  <2> QED BY <1>1, <2>1, <2>2, <2>3, <2>4, <2>5
<1> QED BY <1>4, <1>5, <1>6 DEF SharedInv

\* A asked as it is after one of its steps.
LEMMA CallFields ==
  ASSUME SharedInv, NEW p \in Process
  PROVE  /\ [Shared!Idle EXCEPT !.calls = invoked[p].calls] \in Invoked
         /\ [Shared!Idle EXCEPT !.calls = invoked[p].calls].phase = "idle"
         /\ invoked[p].phase # "idle" =>
              /\ \A phase \in {"reading", "appending", "ambiguous", "owned"} :
                   /\ [invoked[p] EXCEPT !.phase = phase] \in Invoked
                   /\ [invoked[p] EXCEPT !.phase = phase].phase = phase
              /\ invoked[p].event \in Shared!Event /\ invoked[p].context \in Contexts
<1>1. invoked[p] \in Invoked /\ invoked[p].calls \in 0..MaxCalls
  BY DEF SharedInv, Invoked
<1>2. /\ [Shared!Idle EXCEPT !.calls = invoked[p].calls] \in Invoked
      /\ [Shared!Idle EXCEPT !.calls = invoked[p].calls].phase = "idle"
  BY <1>1 DEF Shared!Idle, Invoked
<1> QED BY <1>1, <1>2 DEF Invoked

\* A call reads the history, and appends only what it admits.
LEMMA CallReads ==
  ASSUME SharedInv, NEW p \in Process, NEW asked \in Invoked, asked.phase = "reading",
         Shared!Read(p, asked), UNCHANGED log
  PROVE  SharedInv'
<1>1. asked.context \in Contexts /\ asked.event \in Shared!Event /\ asked.calls \in 0..MaxCalls
  BY DEF Invoked
<1>2. Len(log) \in Nat /\ log \in Seq(Shared!Event)
  BY DEF SharedInv
<1> DEFINE next == [asked EXCEPT !.phase = "appending", !.revision = Len(log)]
           left == [Shared!Idle EXCEPT !.calls = asked.calls]
<1>3. /\ next \in Invoked /\ next.phase = "appending" /\ next.revision = Len(log)
      /\ next.event = asked.event
  BY <1>2 DEF Invoked
<1>4. left \in Invoked /\ left.phase = "idle"
  BY <1>1 DEF Shared!Idle, Invoked
<1>5. \/ /\ Shared!Admits(asked.context, asked.event.plan, log) /\ Shared!Legal(log, asked.event)
         /\ Shared!Step(p, next)
      \/ Shared!Step(p, left)
  BY DEF Shared!Read
<1> HIDE DEF next, left
<1>6. CASE /\ Shared!Admits(asked.context, asked.event.plan, log) /\ Shared!Legal(log, asked.event)
           /\ Shared!Step(p, next)
  <2>1. Follows(log, Len(log), asked.event, Publication)
    BY <1>1, <1>2, <1>6, AdmittedFollows
  <2> QED BY <1>2, <1>3, <1>6, <2>1, CallMoves
<1>7. CASE Shared!Step(p, left)
  BY <1>4, <1>7, CallMoves
<1> QED BY <1>5, <1>6, <1>7

LEMMA SharedStep == ASSUME SharedInv, Shared!Next PROVE SharedInv'
<1>1. PICK p \in Process :
        \/ \E context \in Contexts, plan \in Shared!Plan, tag \in Shared!Tags :
             Shared!Call(p, context, plan, tag)
        \/ Shared!ReadAgain(p) \/ Shared!Append_(p) \/ Shared!AppendAmbiguous(p)
        \/ Shared!Reconcile(p) \/ Shared!Send(p) \/ Shared!Crash(p)
  BY DEF Shared!Next
<1>2. invoked[p] \in Invoked
  BY DEF SharedInv
<1>3. ASSUME Shared!Return(p), UNCHANGED log
      PROVE  SharedInv'
  BY <1>3, CallFields, CallMoves DEF Shared!Return
<1>4. ASSUME NEW phase \in {"reading", "ambiguous", "owned"}, invoked[p].phase # "idle",
             Shared!Step(p, [invoked[p] EXCEPT !.phase = phase]), UNCHANGED log
      PROVE  SharedInv'
  BY <1>4, CallFields, CallMoves
<1>5. ASSUME NEW context \in Contexts, NEW plan \in Shared!Plan, NEW tag \in Shared!Tags,
             Shared!Call(p, context, plan, tag)
      PROVE  SharedInv'
  <2> DEFINE nth == invoked[p].calls + 1
             event == [tag |-> tag, plan |-> plan, by |-> p, call |-> nth]
             begun == [phase |-> "reading", calls |-> nth, context |-> context, revision |-> 0,
                       event |-> event]
  <2>1. nth \in 0..MaxCalls /\ nth \in Nat
    BY <1>2, <1>5, HostAssumptions DEF Shared!SharedAssumption, Shared!Call, Invoked
  <2>2. event \in Shared!Event
    BY <2>1 DEF Shared!Event
  <2>3. Shared!Read(p, begun) /\ UNCHANGED log
    BY <1>5 DEF Shared!Call
  <2> HIDE DEF nth, event
  <2>4. begun \in Invoked /\ begun.phase = "reading"
    BY <2>1, <2>2 DEF Invoked
  <2> HIDE DEF begun
  <2> QED BY <2>3, <2>4, CallReads
<1>6. CASE Shared!ReadAgain(p)
  BY <1>2, <1>6, CallReads DEF Shared!ReadAgain
<1>7. CASE Shared!Append_(p)
  <2>1. CASE UNCHANGED log
    BY <1>3, <1>4, <1>7, <2>1 DEF Shared!Append_
  <2>2. CASE Shared!AtRevision(p) /\ log' = Append(log, invoked[p].event)
    <3>1. /\ invoked[p].phase = "appending"
          /\ \/ Shared!Step(p, [invoked[p] EXCEPT !.phase = "owned"])
             \/ Shared!Step(p, [Shared!Idle EXCEPT !.calls = invoked[p].calls])
      BY <1>7, <2>1, <2>2 DEF Shared!Append_, Shared!Return, Shared!IsStart
    <3> QED BY <2>2, <3>1, CallFields, CallAppends
  <2> QED BY <1>7, <2>1, <2>2 DEF Shared!Append_
<1>8. CASE Shared!AppendAmbiguous(p)
  <2>1. PICK phase \in {"reading", "ambiguous"} :
          Shared!Step(p, [invoked[p] EXCEPT !.phase = phase])
    BY <1>8 DEF Shared!AppendAmbiguous
  <2>2. CASE UNCHANGED log
    BY <1>4, <1>8, <2>1, <2>2 DEF Shared!AppendAmbiguous
  <2>3. CASE Shared!AtRevision(p) /\ log' = Append(log, invoked[p].event)
    BY <1>8, <2>1, <2>3, CallFields, CallAppends DEF Shared!AppendAmbiguous
  <2> QED BY <1>8, <2>2, <2>3 DEF Shared!AppendAmbiguous
<1>9. CASE Shared!Reconcile(p)
  BY <1>3, <1>4, <1>9 DEF Shared!Reconcile
<1>10. CASE Shared!Send(p) \/ Shared!Crash(p)
  BY <1>3, <1>10 DEF Shared!Send, Shared!Crash
<1> QED BY <1>1, <1>5, <1>6, <1>7, <1>8, <1>9, <1>10

LEMMA SharedPublishesOne == ASSUME SharedInv PROVE Shared!OnePublication
<1>1. log \in Seq(Shared!Event) /\ OneActive(log, Publication)
  BY DEF SharedInv
<1>2. ASSUME NEW plan \in Publication, Shared!Publishes(plan),
             NEW other \in Publication \ {plan}, NEW i \in DOMAIN log, log[i].plan = other
      PROVE  Shared!Tagged(log, other, "PlanSuperseded") /\ ~ Shared!Publishes(other)
  <2>1. PICK k \in DOMAIN log : log[k].plan = plan /\ log[k].tag = "DispatchStarted"
    BY <1>2 DEF Shared!Publishes, Shared!Tagged
  <2>2. ASSUME NEW j \in DOMAIN log, log[j].plan = other
        PROVE  /\ \E n \in DOMAIN log : log[n].plan = other /\ log[n].tag = "PlanSuperseded"
               /\ log[j].tag # "DispatchStarted"
    <3>1. /\ log[k].plan \in Publication /\ log[j].plan \in Publication
          /\ log[j].plan # log[k].plan
      BY <1>2, <2>1, <2>2
    <3> QED BY <1>1, <2>1, <2>2, <3>1, OneActiveMeans
  <2> QED BY <1>2, <2>2 DEF Shared!Publishes, Shared!Tagged
<1> QED BY <1>2 DEF Shared!OnePublication

\* A set of positions that is not empty has a last one.
LEMMA LastPosition ==
  ASSUME NEW n \in Nat, NEW S \in SUBSET (1..n), S # {}
  PROVE  \E last \in S : \A k \in S : k <= last
<1> DEFINE back == {n - k : k \in S}
<1>1. back \in SUBSET Nat /\ back # {}
  <2>1. \A k \in S : n - k \in Nat
    OBVIOUS
  <2> QED BY <2>1
<1>2. \E x \in back : \A y \in back : ~ (<<y, x>> \in OpToRel(<, Nat))
  BY <1>1, NatLessThanWellFounded, WFMin, Zenon
<1>3. OpToRel(<, Nat) = {pair \in Nat \X Nat : pair[1] < pair[2]}
  BY Zenon DEF OpToRel
<1>4. PICK x \in back : \A y \in back : <<y, x>> \notin {pair \in Nat \X Nat : pair[1] < pair[2]}
  BY <1>2, <1>3, Zenon
<1>5. \A y \in back : ~ (y < x)
  BY <1>1, <1>4
<1>6. \A y \in back : \E last \in S : y = n - last
  BY Zenon
<1>7. PICK last \in S : x = n - last
  BY <1>4, <1>6, Zenon
<1>8. \A k \in S : n - k \in back
  BY Zenon
<1>9. \A k \in S : ~ (n - k < n - last)
  BY <1>5, <1>7, <1>8, Zenon
<1>10. ASSUME NEW k \in S PROVE k <= last
  <2>1. k \in Nat /\ last \in Nat
    OBVIOUS
  <2>2. ~ (n - k < n - last)
    BY <1>9
  <2> HIDE DEF back
  <2> QED BY <2>1, <2>2
<1> QED BY <1>10

\* A host of the last plan that wrote, with the plans given up before it, admits the journal.
LEMMA SharedStaysAdmissible == ASSUME SharedInv PROVE Shared!StaysAdmissible
<1>1. /\ log \in Seq(Shared!Event) /\ DOMAIN log = 1..Len(log) /\ Len(log) \in Nat
      /\ Publication \cap Preparation = {} /\ Publication # {}
  BY HostAssumptions DEF SharedInv, Shared!SharedAssumption
<1>2. \A i \in DOMAIN log : log[i].plan \in Publication \cup Preparation
  <2>1. \A i \in DOMAIN log : log[i] \in Shared!Event
    BY <1>1
  <2> QED BY <2>1 DEF Shared!Event, Shared!Plan
<1> DEFINE written == {i \in DOMAIN log : log[i].plan \in Publication}
<1>3. PICK plan \in Publication :
        \A i \in written : log[i].plan # plan => GivenUp(log, log[i].plan, Len(log))
  <2>1. CASE written = {}
    BY <1>1, <2>1
  <2>2. CASE written # {}
    <3>1. PICK k \in written : \A i \in written : i <= k
      BY <1>1, <2>2, LastPosition
    <3>2. ASSUME NEW i \in written, log[i].plan # log[k].plan
          PROVE  GivenUp(log, log[i].plan, Len(log))
      <4>1. /\ i \in 1..(k - 1) /\ \A n \in 1..(k - 1) : n \in 1..Len(log)
            /\ k \in 1..Len(log)
        BY <1>1, <3>1, <3>2
      <4>2. GivenUp(log, log[i].plan, k - 1)
        BY <1>1, <3>1, <3>2, <4>1 DEF SharedInv, OneActive, Follows
      <4>3. \A n \in 1..Len(log) : log[n].plan = log[i].plan => n \in 1..(k - 1)
        BY <1>1, <3>1, <3>2
      <4> QED BY <4>1, <4>2, <4>3 DEF GivenUp
    <3> QED BY <3>1, <3>2
  <2> QED BY <2>1, <2>2
<1> DEFINE wrote == {log[i].plan : i \in DOMAIN log}
           host == [publications |-> {plan}, preparations |-> Preparation,
                    prior |-> (wrote \cap Publication) \ {plan}]
<1>4. Shared!Configured(host, plan)
  <2>1. Shared!Cardinality({plan}) = 1
    BY SharedFinite, FS_Singleton
  <2> QED BY <2>1 DEF Shared!Configured
<1>5. Shared!OnlyScopes(host, log)
  BY <1>2 DEF Shared!OnlyScopes, Shared!Registered
<1>6. \A past \in host.prior : Shared!HistoricalPlan(past, log)
  BY <1>1, <1>3 DEF Shared!HistoricalPlan, Shared!Tagged, GivenUp
<1>7. \A each \in Shared!Registered(host) : Shared!LawfulHistory(log, each)
  <2> SUFFICES ASSUME NEW i \in DOMAIN log
               PROVE  Shared!Legal(SubSeq(log, 1, i - 1), log[i])
    BY DEF Shared!LawfulHistory
  <2> DEFINE before == SubSeq(log, 1, i - 1)
  <2>1. DOMAIN before = 1..(i - 1) /\ \A n \in 1..(i - 1) : before[n] = log[n]
    BY <1>1
  <2>2. Follows(log, i - 1, log[i], Publication)
    BY DEF SharedInv, OneActive
  <2> HIDE DEF before
  <2>3. Shared!Legal(before, log[i])
    BY <2>1, <2>2 DEF Follows, Shared!Legal, Shared!Tagged
  <2> QED BY <2>3 DEF before
<1>8. Shared!Admits(host, plan, log)
  BY <1>4, <1>5, <1>6, <1>7 DEF Shared!Admits
<1> QED BY <1>8 DEF Shared!StaysAdmissible

-----------------------------------------------------------------------------
(* The release of this repository's own packages *)

\* Typing of what a run was asked for and holds.
LEMMA RunTyped ==
  ASSUME SelfInv, NEW r \in Run
  PROVE  /\ runs[r].phase = "idle" =>
              /\ runs[r] = Self!Idle /\ runs[r].plan = {} /\ ~ runs[r].complete
              /\ runs[r].exit = {}
         /\ runs[r].phase # "idle" =>
              /\ runs[r] \in Invocations /\ runs[r].input \in Input[r]
              /\ runs[r].input \in Asking
              /\ runs[r].input.mode \in Self!Modes
              /\ runs[r].input.selected.plan \in Planned
              /\ PlanKept(runs[r]) /\ PreflightKept(runs[r])
         /\ runs[r].plan # {} => runs[r].phase # "idle"
<1>1. RunKept(r)
  BY DEF SelfInv
<1>2. Self!Idle.phase = "idle" /\ Self!Idle.plan = {} /\ ~ Self!Idle.complete /\ Self!Idle.exit = {}
  BY DEF Self!Idle
<1>3. \A run \in Invocations : run.phase # "idle"
  BY DEF Invocations
<1>4. ASSUME runs[r].phase # "idle"
      PROVE  /\ runs[r] \in Invocations /\ runs[r].input \in Input[r]
             /\ runs[r].input \in Asking
             /\ runs[r].input.mode \in Self!Modes
             /\ runs[r].input.selected.plan \in Planned
  <2>1. runs[r] \in Invocations /\ runs[r].input \in Input[r]
    BY <1>1, <1>2, <1>4 DEF RunKept
  <2>2. Input[r] \subseteq
       [task : {"run", "observe", "supersede"}, authorize : BOOLEAN, mode : Self!Modes,
        directory : Directory, selected : Self!Candidate,
        remote : {"file", "github", "elsewhere"}, prior : SUBSET Self!Candidate,
        before : Directory]
    BY HostAssumptions DEF Self!SelfReleaseAssumption
  <2>3. runs[r].input.mode \in Self!Modes /\ runs[r].input.selected \in Self!Candidate
    BY <2>1, <2>2
  <2>4. runs[r].input.selected.plan \in Planned
    BY <2>3 DEF Self!Candidate
  <2> QED BY <2>1, <2>3, <2>4 DEF Asking
<1> QED BY <1>1, <1>2, <1>3, <1>4 DEF RunKept

\* A run that has a plan has the one selected.
LEMMA PlanIsSelected ==
  ASSUME SelfInv, NEW r \in Run, runs[r].plan # {}
  PROVE  LET selected == runs[r].input.selected
         IN  /\ runs[r].plan = {selected.plan} /\ Self!PlanOfRun(r) = selected.plan
             /\ selected.plan \in Planned /\ selected.plan.bundle = selected.bundle
             /\ selected.plan.journal = Self!ReleaseJournalId(selected.plan.bundle.source)
             /\ selected.plan.journal \in Self!Coordinate
             /\ Self!PublicationPolicy(selected.plan, selected.bundle.source,
                                       selected.bundle.notes, runs[r].input.mode)
<1>1. PlanKept(runs[r]) /\ runs[r].input.selected.plan \in Planned
  BY RunTyped
<1>2. /\ runs[r].plan = {runs[r].input.selected.plan}
      /\ Self!SelectedPlan(runs[r].input, runs[r].input.selected.plan)
      /\ Self!PublicationPolicy(runs[r].input.selected.plan, runs[r].input.selected.bundle.source,
                                runs[r].input.selected.bundle.notes, runs[r].input.mode)
  BY <1>1 DEF PlanKept
<1>3. Self!PlanOfRun(r) = runs[r].input.selected.plan
  BY <1>2 DEF Self!PlanOfRun
<1>4. \A plan \in Planned : plan.journal \in Self!Coordinate
  BY HostAssumptions DEF Self!SelfReleaseAssumption, Self!Written
<1> QED BY <1>1, <1>2, <1>3, <1>4 DEF Self!SelectedPlan

LEMMA SelfInit == ASSUME Self!Init PROVE SelfInv
<1>1. directories \in [Directory -> Self!Files] /\ AuthorKept
  BY HostAssumptions DEF Self!SelfReleaseAssumption, Self!Init, AuthorKept
<1>2. Self!Idle.phase = "idle" /\ Self!Idle.plan = {} /\ ~ Self!Idle.complete /\ Self!Idle.exit = {}
  BY DEF Self!Idle
<1>3. /\ runs \in [Run -> {Self!Idle} \cup Invocations]
      /\ \A r \in Run : runs[r] = Self!Idle
  BY DEF Self!Init
<1>4. \A r \in Run : RunKept(r)
  BY <1>2, <1>3 DEF RunKept, ExitKept
<1>5. JournalsKept
  BY HostAssumptions DEF Self!SelfReleaseAssumption, Self!Init, JournalsKept, OneActive
<1>6. opened \subseteq Handed /\ Self!AuthorityAdmitted
  BY DEF Self!Init, Self!AuthorityAdmitted
<1> QED BY <1>1, <1>3, <1>4, <1>5, <1>6 DEF SelfInv

\* The journals have what they had, and what was added is as JournalsKept says.
JournalsGrow ==
  /\ journals' \in [Self!Remote \X Self!Coordinate -> Seq(Recordings)]
  /\ \A key \in Self!Remote \X Self!Coordinate :
       /\ OneActive(journals'[key], Planned) /\ Len(journals'[key]) <= MaxReleased
       /\ \A i \in DOMAIN journals'[key] :
            LET event == journals'[key][i]
            IN  event.plan.journal = key[2] /\ runs[event.by].plan = {event.plan}
       /\ \A i \in DOMAIN journals[key] :
            i \in DOMAIN journals'[key] /\ journals'[key][i] = journals[key][i]

LEMMA JournalsStay == ASSUME SelfInv, UNCHANGED journals PROVE JournalsGrow
BY DEF SelfInv, JournalsKept, JournalsGrow

\* What is in a journal of a run that keeps its plan and its store stays there.
LEMMA RecordedStays ==
  ASSUME SelfInv, JournalsGrow, NEW r \in Run, NEW tag, runs[r].plan # {},
         runs[r].input.remote \in Self!Remote,
         runs'[r].plan = runs[r].plan, runs'[r].input = runs[r].input, Self!Recorded(r, tag)
  PROVE  Self!Recorded(r, tag)'
<1> DEFINE plan == runs[r].input.selected.plan
           key == <<runs[r].input.remote, plan.journal>>
<1>1. /\ Self!PlanOfRun(r) = plan /\ key \in Self!Remote \X Self!Coordinate
  BY PlanIsSelected
<1>2. Self!PlanOfRun(r)' = Self!PlanOfRun(r)
  BY DEF Self!PlanOfRun
<1>3. Self!Journal(r) = journals[key] /\ Self!Journal(r)' = journals'[key]
  BY <1>1, <1>2 DEF Self!Journal, Self!Asked
<1> HIDE DEF plan, key
<1>4. \E i \in DOMAIN journals[key] : journals[key][i].plan = plan /\ journals[key][i].tag = tag
  BY <1>1, <1>3 DEF Self!Recorded, Self!Host!Tagged
<1>5. \E i \in DOMAIN journals'[key] : journals'[key][i].plan = plan /\ journals'[key][i].tag = tag
  BY <1>1, <1>4 DEF JournalsGrow
<1> QED BY <1>1, <1>2, <1>3, <1>5 DEF Self!Recorded, Self!Host!Tagged

\* To whom a run may hand a secret.
Admitted(each, run) ==
  /\ run.plan = {run.input.selected.plan}
  /\ each.to = "registry" =>
       /\ run.input.authorize /\ run.preflighted
       /\ each.secret = CASE run.input.mode = "Trusted" -> "identity"
                          [] run.input.mode = "Token" -> "token"
                          [] run.input.mode = "Local" -> "config"
  /\ each.to = "session" => (run.input.authorize => run.preflighted)
  /\ each.to = "journal" => run.input.remote = "github"

LEMMA AdmittedMeans ==
  /\ Self!AuthorityAdmitted <=> \A each \in opened : Admitted(each, runs[each.by])
  /\ Self!AuthorityAdmitted' <=> \A each \in opened' : Admitted(each, runs'[each.by])
BY DEF Self!AuthorityAdmitted, Admitted, Self!Asked

\* One run goes on; it keeps its plan and what it was asked for once it has a plan.
LEMMA RunMoves ==
  ASSUME SelfInv, NEW r \in Run, NEW next \in Invocations, runs' = [runs EXCEPT ![r] = next],
         UNCHANGED <<directories, author>>, JournalsGrow,
         next.input \in Input[r], PlanKept(next), PreflightKept(next),
         runs[r].plan # {} =>
           /\ next.plan = runs[r].plan /\ next.input = runs[r].input
           /\ runs[r].preflighted => next.preflighted,
         next.complete =>
           \/ runs[r].complete
           \/ /\ runs[r].plan # {} /\ runs[r].input.remote \in Self!Remote
              /\ Self!Recorded(r, "ObservationRecorded"),
         next.exit # {} => next.phase = "over",
         next.exit = {0} => next.signal = 0 /\ next.complete,
         opened' \subseteq Handed,
         \A each \in opened' \ opened : each.by = r /\ Admitted(each, next)
  PROVE  SelfInv'
<1>1. /\ runs \in [Run -> {Self!Idle} \cup Invocations]
      /\ runs' \in [Run -> {Self!Idle} \cup Invocations] /\ runs'[r] = next
      /\ \A q \in Run : q # r => runs'[q] = runs[q]
  BY DEF SelfInv
<1>2. \A q \in Run : runs[q].plan # {} => runs'[q].plan = runs[q].plan /\ runs'[q].input = runs[q].input
  BY <1>1
<1>3. ASSUME NEW q \in Run
      PROVE  RunKept(q)'
  <2>1. /\ runs'[q].phase # "idle" =>
             runs'[q].input \in Input[q] /\ PlanKept(runs'[q]) /\ PreflightKept(runs'[q])
    BY <1>1 DEF SelfInv, RunKept
  <2>2. ASSUME runs'[q].complete
        PROVE  /\ runs'[q].plan # {} /\ runs'[q].input.remote \in Self!Remote
               /\ Self!Recorded(q, "ObservationRecorded")'
    <3>1. /\ runs[q].plan # {} /\ runs[q].input.remote \in Self!Remote
          /\ Self!Recorded(q, "ObservationRecorded")
      <4>1. CASE q = r
        BY <1>1, <2>2, <4>1 DEF SelfInv, RunKept, ExitKept
      <4>2. CASE q # r
        BY <1>1, <2>2, <4>2 DEF SelfInv, RunKept, ExitKept
      <4> QED BY <4>1, <4>2
    <3> QED BY <1>2, <3>1, RecordedStays
  <2>3. /\ runs'[q].exit # {} => runs'[q].phase = "over"
        /\ runs'[q].exit = {0} => runs'[q].signal = 0 /\ runs'[q].complete
    BY <1>1 DEF SelfInv, RunKept, ExitKept
  <2> QED BY <1>1, <2>1, <2>2, <2>3 DEF RunKept, ExitKept
<1>4. JournalsKept'
  <2> SUFFICES ASSUME NEW key \in Self!Remote \X Self!Coordinate,
                      NEW i \in DOMAIN journals'[key]
               PROVE  runs'[journals'[key][i].by].plan = {journals'[key][i].plan}
    BY DEF JournalsGrow, JournalsKept
  <2>1. runs[journals'[key][i].by].plan = {journals'[key][i].plan}
    BY DEF JournalsGrow
  <2>2. journals'[key][i].by \in Run
    <3>1. journals'[key] \in Seq(Recordings)
      BY DEF JournalsGrow
    <3>2. journals'[key][i] \in Recordings
      BY <3>1
    <3> QED BY <3>2 DEF Recordings
  <2> QED BY <1>2, <2>1, <2>2
<1>5. Self!AuthorityAdmitted'
  <2> SUFFICES ASSUME NEW each \in opened'
               PROVE  Admitted(each, runs'[each.by])
    BY AdmittedMeans
  <2>1. CASE each \in opened
    <3>1. Admitted(each, runs[each.by]) /\ each.by \in Run
      BY <2>1, AdmittedMeans DEF SelfInv, Handed
    <3> QED BY ZenonT(60), <1>1, <3>1 DEF Admitted
  <2>2. CASE each \notin opened
    BY <1>1, <2>2
  <2> QED BY <2>1, <2>2
<1>6. directories' \in [Directory -> Self!Files] /\ AuthorKept'
  BY DEF SelfInv, AuthorKept
<1> QED BY <1>1, <1>3, <1>4, <1>5, <1>6 DEF SelfInv

-----------------------------------------------------------------------------
\* The preparation, and whoever else writes to a directory.
LEMMA AuthorMoves ==
  ASSUME SelfInv, UNCHANGED <<journals, runs, opened>>,
         directories' \in [Directory -> Self!Files], AuthorKept'
  PROVE  SelfInv'
<1>1. ASSUME NEW r \in Run
      PROVE  RunKept(r)'
  <2>1. RunKept(r)
    BY DEF SelfInv
  <2>2. ExitKept(r)'
    BY <2>1 DEF RunKept, ExitKept, Self!Recorded, Self!Journal, Self!PlanOfRun, Self!Asked
  <2>3. PlanKept(runs[r])' <=> PlanKept(runs[r])
    BY DEF PlanKept
  <2>4. PreflightKept(runs[r])' <=> PreflightKept(runs[r])
    BY DEF PreflightKept
  <2> QED BY <2>1, <2>2, <2>3, <2>4 DEF RunKept
<1>2. JournalsKept'
  BY DEF SelfInv, JournalsKept
<1>3. Self!AuthorityAdmitted'
  BY AdmittedMeans DEF SelfInv
<1> QED BY <1>1, <1>2, <1>3 DEF SelfInv

\* One file of each name: what a directory is after a write.
LEMMA WritesTyped ==
  ASSUME SelfInv, NEW d \in Directory, NEW fields \in Self!Files, Self!Writes(d, fields)
  PROVE  directories' \in [Directory -> Self!Files]
BY DEF SelfInv, Self!Writes

LEMMA RequestTyped ==
  ASSUME NEW request \in Preparing
  PROVE  Self!BundleOf(request) \in Self!Bundle
<1>1. request.source \in Self!Source /\ request.notes \in Notes
  BY HostAssumptions DEF Self!SelfReleaseAssumption
<1> QED BY <1>1 DEF Self!BundleOf, Self!Bundle

LEMMA PlanTyped ==
  ASSUME NEW request \in Preparing
  PROVE  Self!PlanOf(request) \in Self!Written
<1>1. /\ request \in [source : Self!Source, notes : Notes, authorization : {"Token", "Trusted"},
                      provenance : BOOLEAN, archives : SUBSET [name : Package, version : Version]]
      /\ Self!BundleOf(request) \in Self!Bundle
  BY RequestTyped, HostAssumptions DEF Self!SelfReleaseAssumption
<1>2. /\ request.source.repository \in Self!Repository /\ request.source.commit \in Commit
      /\ request.source.version \in Version /\ request.notes \in Notes
  BY <1>1 DEF Self!Source
<1>3. Self!ReleaseJournalId(request.source) \in Self!Coordinate
  BY <1>2 DEF Self!ReleaseJournalId, Self!Coordinate
<1>4. ASSUME NEW archive \in request.archives
      PROVE  [name |-> archive.name, version |-> archive.version,
              authorization |-> request.authorization, principal |-> Self!NPM_PRINCIPAL,
              provenance |-> IF request.provenance THEN request.source.commit ELSE Self!None]
               \in Self!PublishIntent
  BY <1>1, <1>2 DEF Self!PublishIntent
<1> QED BY <1>1, <1>2, <1>3, <1>4 DEF Self!PlanOf, Self!Written

\* What the preparation holds, once it was asked.
LEMMA AuthorTyped ==
  ASSUME SelfInv, author.phase # "idle"
  PROVE  /\ author \in Authors /\ author.directory \in Directory /\ author.request \in Preparing
         /\ directories[author.directory] \in Self!Files
         /\ \A phase \in {"retaining", "bundle", "plan", "prepared", "failed"} :
              /\ [author EXCEPT !.phase = phase] \in Authors
              /\ [author EXCEPT !.phase = phase].phase = phase
              /\ [author EXCEPT !.phase = phase].request = author.request
<1>1. author \in Authors
  BY DEF SelfInv, AuthorKept
<1> QED BY <1>1 DEF Authors, SelfInv

\* A preparation goes on with what it was asked for.
LEMMA AuthorGoes ==
  ASSUME SelfInv, author.phase # "idle", UNCHANGED <<journals, runs, opened>>,
         directories' \in [Directory -> Self!Files],
         NEW phase \in {"retaining", "bundle", "plan", "prepared", "failed"},
         author' = [author EXCEPT !.phase = phase],
         phase \in {"bundle", "plan", "prepared"} => Self!Cohort(author.request)
  PROVE  SelfInv'
<1>1. /\ author' \in Authors /\ author'.phase = phase /\ author'.request = author.request
      /\ Self!PreparationPolicy(author.request)
  BY AuthorTyped DEF SelfInv, AuthorKept
<1>2. AuthorKept'
  BY <1>1 DEF AuthorKept, Self!PreparationPolicy, Self!Cohort
<1> QED BY <1>2, AuthorMoves

LEMMA AuthorStep ==
  ASSUME SelfInv,
         \/ \E d \in Directory : Self!Replace(d) \/ \E request \in Preparing : Self!Prepare(d, request)
         \/ Self!Retain \/ Self!WriteBundle \/ Self!WritePlan \/ Self!Abandon
  PROVE  SelfInv'
<1>1. /\ Self!Absent \in Self!Files /\ Intruding \subseteq Self!Files
      /\ [Self!Absent EXCEPT !.made = TRUE] \in Self!Files
  BY HostAssumptions
  DEF Self!SelfReleaseAssumption, Self!Absent, Self!Files, Self!AtMostOne
<1>2. ASSUME NEW d \in Directory, Self!Replace(d)
      PROVE  SelfInv'
  <2>1. directories' \in [Directory -> Self!Files]
    BY <1>1, <1>2, WritesTyped DEF Self!Replace
  <2>2. AuthorKept'
    BY <1>2 DEF Self!Replace, SelfInv, AuthorKept
  <2> QED BY <1>2, <2>1, <2>2, AuthorMoves DEF Self!Replace
<1>3. ASSUME NEW d \in Directory, NEW request \in Preparing, Self!Prepare(d, request)
      PROVE  SelfInv'
  <2>1. directories' \in [Directory -> Self!Files]
    BY <1>1, <1>3, WritesTyped DEF Self!Prepare
  <2>2. author' = [phase |-> "retaining", directory |-> d, request |-> request]
    BY <1>3 DEF Self!Prepare, Self!Prepares
  <2>3. author' \in Authors /\ author'.phase = "retaining" /\ author'.request = request
    BY <2>2 DEF Authors
  <2>4. AuthorKept'
    BY <1>3, <2>3 DEF AuthorKept, Self!Prepare, Self!PreparationPolicy
  <2> QED BY <1>3, <2>1, <2>4, AuthorMoves DEF Self!Prepare, Self!Prepares
<1>4. CASE Self!Retain
  <2> DEFINE held == directories[author.directory]
             fields == [held EXCEPT !.content = @ \cup {Self!BundleOf(author.request)}]
  <2>1. author.phase = "retaining" /\ Self!Writes(author.directory, fields)
    BY <1>4 DEF Self!Retain
  <2>2. held \in Self!Files /\ Self!BundleOf(author.request) \in Self!Bundle
    BY <2>1, AuthorTyped, RequestTyped
  <2>3. fields \in Self!Files
    BY <2>2 DEF Self!Files
  <2>4. directories' \in [Directory -> Self!Files]
    BY <2>1, <2>3, AuthorTyped, WritesTyped
  <2>5. PICK phase \in {"bundle", "failed"} :
          /\ author' = [author EXCEPT !.phase = phase]
          /\ phase = "bundle" => Self!Cohort(author.request)
    BY <1>4 DEF Self!Retain, Self!Prepares
  <2>6. UNCHANGED <<journals, runs, opened>>
    BY <1>4 DEF Self!Retain, Self!Prepares
  <2> QED BY <2>1, <2>4, <2>5, <2>6, AuthorGoes
<1>5. CASE Self!WriteBundle
  <2> DEFINE held == directories[author.directory]
             fields == [held EXCEPT !.bundle = {Self!BundleOf(author.request)}]
  <2>1. author.phase = "bundle" /\ UNCHANGED <<journals, runs, opened>>
    BY <1>5 DEF Self!WriteBundle, Self!Prepares
  <2>2. held \in Self!Files /\ Self!BundleOf(author.request) \in Self!Bundle
        /\ Self!Cohort(author.request)
    BY <2>1, AuthorTyped, RequestTyped DEF SelfInv, AuthorKept
  <2>3. fields \in Self!Files
    BY <2>2 DEF Self!Files, Self!AtMostOne
  <2>4. directories' \in [Directory -> Self!Files]
    BY <1>5, <2>1, <2>3, AuthorTyped, WritesTyped DEF Self!WriteBundle, SelfInv
  <2>5. PICK phase \in {"plan", "failed"} : author' = [author EXCEPT !.phase = phase]
    BY <1>5 DEF Self!WriteBundle, Self!Prepares
  <2> QED BY <2>1, <2>2, <2>4, <2>5, AuthorGoes
<1>6. CASE Self!WritePlan
  <2> DEFINE held == directories[author.directory]
             plan == Self!PlanOf(author.request)
             fields == [held EXCEPT !.plan = {plan}]
  <2>1. author.phase = "plan" /\ UNCHANGED <<journals, runs, opened>>
    BY <1>6 DEF Self!WritePlan, Self!Prepares
  <2>2. held \in Self!Files /\ Self!Cohort(author.request)
    BY <2>1, AuthorTyped DEF SelfInv, AuthorKept
  <2>3. plan \in Self!Written
    BY <2>1, AuthorTyped, PlanTyped
  <2>4. fields \in Self!Files
    BY <2>2, <2>3 DEF Self!Files, Self!AtMostOne
  <2>5. directories' \in [Directory -> Self!Files]
    BY <1>6, <2>1, <2>4, AuthorTyped, WritesTyped DEF Self!WritePlan, SelfInv
  <2>6. PICK phase \in {"prepared", "failed"} : author' = [author EXCEPT !.phase = phase]
    BY <1>6 DEF Self!WritePlan, Self!Prepares
  <2> QED BY <2>1, <2>2, <2>5, <2>6, AuthorGoes
<1>7. CASE Self!Abandon
  <2>1. /\ author.phase # "idle" /\ author' = [author EXCEPT !.phase = "failed"]
        /\ UNCHANGED <<journals, runs, opened, directories>>
    BY <1>7 DEF Self!Abandon, Self!Prepares
  <2> QED BY <2>1, AuthorGoes DEF SelfInv
<1> QED BY <1>2, <1>3, <1>4, <1>5, <1>6, <1>7

\* A run goes to another phase, and nothing else of it changes.
LEMMA PhaseMoves ==
  ASSUME SelfInv, NEW r \in Run, runs[r].phase \notin {"idle", "over"},
         NEW phase \in Self!Phases \ {"idle", "over"}, Self!Goes(r, phase),
         UNCHANGED <<directories, author>>, JournalsGrow,
         phase \in {"bundle", "content", "plan"} => runs[r].plan = {},
         phase \in {"past bundle", "past plan", "opening", "preflight", "local", "running",
                    "observed", "prepared", "reporting", "reported"} => runs[r].plan # {},
         phase \in {"preflight", "local", "running", "observed", "prepared", "reporting",
                    "reported"} => runs[r].input.remote \in Self!Remote,
         phase \in {"bundle", "content", "plan", "past bundle", "past plan", "opening",
                    "preflight"} => ~ runs[r].preflighted,
         phase \in {"local", "running", "observed", "prepared", "reporting", "reported"}
           /\ runs[r].input.authorize => runs[r].preflighted,
         opened' \subseteq Handed,
         \A each \in opened' \ opened : each.by = r /\ Admitted(each, runs[r])
  PROVE  SelfInv'
<1> DEFINE next == [runs[r] EXCEPT !.phase = phase]
<1>1. runs[r] \in Invocations /\ PlanKept(runs[r]) /\ PreflightKept(runs[r])
      /\ runs[r].input \in Input[r]
  BY RunTyped
<1>2. /\ next \in Invocations /\ next.phase = phase /\ next.plan = runs[r].plan
      /\ next.preflighted = runs[r].preflighted /\ next.local = runs[r].local
      /\ next.complete = runs[r].complete /\ next.signal = runs[r].signal
      /\ next.exit = runs[r].exit /\ next.input = runs[r].input
  BY <1>1 DEF Invocations
<1>3. runs' = [runs EXCEPT ![r] = next]
  BY DEF Self!Goes, Self!Steps
<1> HIDE DEF next
<1>4. next.exit = {}
  BY <1>2 DEF SelfInv, RunKept, ExitKept
<1>5. PlanKept(next)
  BY <1>1, <1>2 DEF PlanKept
<1>6. PreflightKept(next)
  BY <1>1, <1>2 DEF PreflightKept
<1>7. \A each \in opened' \ opened : each.by = r /\ Admitted(each, next)
  BY <1>2 DEF Admitted
<1> QED BY <1>1, <1>2, <1>3, <1>4, <1>5, <1>6, <1>7, RunMoves

\* A failure is always one of a run's next phases.
LEMMA RunFails ==
  ASSUME SelfInv, NEW r \in Run, runs[r].phase \notin {"idle", "over"}, Self!Goes(r, "failed"),
         UNCHANGED <<directories, author>>, JournalsGrow, opened' \subseteq Handed,
         \A each \in opened' \ opened : each.by = r /\ Admitted(each, runs[r])
  PROVE  SelfInv'
BY PhaseMoves DEF Self!Phases

\* The steps that read the candidates, one file after another.
LEMMA ReadingStep ==
  ASSUME SelfInv, NEW r \in Run,
         \/ Self!ReadBundle(r) \/ Self!ReadContent(r) \/ Self!ReadPastBundle(r)
         \/ Self!ReadPastPlan(r) \/ Self!OpenJournal(r) \/ Self!Interrupted(r)
  PROVE  SelfInv'
<1>1. UNCHANGED <<directories, author>> /\ JournalsGrow /\ opened' = opened
  BY JournalsStay
  DEF Self!ReadBundle, Self!ReadContent, Self!ReadPastBundle, Self!ReadPastPlan,
      Self!OpenJournal, Self!Interrupted, Self!Quiet
<1>2. opened' \subseteq Handed /\ opened' \ opened = {}
  BY <1>1 DEF SelfInv
<1>3. ASSUME runs[r].phase \notin {"idle", "over"}, Self!Goes(r, "failed")
      PROVE  SelfInv'
  BY <1>1, <1>2, <1>3, RunFails
<1>4. runs[r].phase # "idle" => PlanKept(runs[r]) /\ PreflightKept(runs[r])
  BY RunTyped
<1>5. CASE Self!ReadBundle(r)
  <2>1. runs[r].phase = "bundle" /\ (Self!Goes(r, "content") \/ Self!Goes(r, "failed"))
    BY <1>5 DEF Self!ReadBundle, Self!GoesIf
  <2>2. runs[r].plan = {} /\ ~ runs[r].preflighted
    BY <1>4, <2>1 DEF PlanKept, PreflightKept
  <2> QED BY <1>1, <1>2, <1>3, <2>1, <2>2, PhaseMoves DEF Self!Phases
<1>6. CASE Self!ReadContent(r)
  <2>1. runs[r].phase = "content" /\ (Self!Goes(r, "plan") \/ Self!Goes(r, "failed"))
    BY <1>6 DEF Self!ReadContent, Self!GoesIf
  <2>2. runs[r].plan = {} /\ ~ runs[r].preflighted
    BY <1>4, <2>1 DEF PlanKept, PreflightKept
  <2> QED BY <1>1, <1>2, <1>3, <2>1, <2>2, PhaseMoves DEF Self!Phases
<1>7. CASE Self!ReadPastBundle(r)
  <2>1. runs[r].phase = "past bundle" /\ (Self!Goes(r, "past plan") \/ Self!Goes(r, "failed"))
    BY <1>7 DEF Self!ReadPastBundle, Self!GoesIf
  <2>2. runs[r].plan # {} /\ ~ runs[r].preflighted
    BY <1>4, <2>1 DEF PlanKept, PreflightKept
  <2> QED BY <1>1, <1>2, <1>3, <2>1, <2>2, PhaseMoves DEF Self!Phases
<1>8. CASE Self!ReadPastPlan(r)
  <2>1. runs[r].phase = "past plan" /\ (Self!Goes(r, "opening") \/ Self!Goes(r, "failed"))
    BY <1>8 DEF Self!ReadPastPlan, Self!GoesIf
  <2>2. runs[r].plan # {} /\ ~ runs[r].preflighted
    BY <1>4, <2>1 DEF PlanKept, PreflightKept
  <2> QED BY <1>1, <1>2, <1>3, <2>1, <2>2, PhaseMoves DEF Self!Phases
<1>9. CASE Self!OpenJournal(r)
  <2>1. /\ runs[r].phase = "opening"
        /\ \/ Self!Goes(r, "failed")
           \/ /\ runs[r].input.remote # "elsewhere"
              /\ \/ runs[r].input.authorize /\ Self!Goes(r, "preflight")
                 \/ ~ runs[r].input.authorize /\ Self!Goes(r, "local")
    BY <1>9 DEF Self!OpenJournal, Self!GoesIf, Self!Asked
  <2>2. runs[r].plan # {} /\ ~ runs[r].preflighted
    BY <1>4, <2>1 DEF PlanKept, PreflightKept
  <2>3. runs[r].input.remote \in {"file", "github", "elsewhere"}
    <3>1. runs[r].input \in Input[r]
      BY <2>1, RunTyped
    <3> QED BY <3>1, HostAssumptions DEF Self!SelfReleaseAssumption
  <2> QED BY <1>1, <1>2, <1>3, <2>1, <2>2, <2>3, PhaseMoves DEF Self!Phases, Self!Remote
<1>10. CASE Self!Interrupted(r)
  BY <1>3, <1>10 DEF Self!Interrupted
<1> QED BY <1>5, <1>6, <1>7, <1>8, <1>9, <1>10

LEMMA RunFields ==
  ASSUME NEW run \in Invocations, NEW phase \in Self!Phases \ {"idle"}, NEW complete \in BOOLEAN,
         NEW exit \in SUBSET ExitCodes
  PROVE  /\ [run EXCEPT !.complete = complete, !.phase = phase] \in Invocations
         /\ [run EXCEPT !.phase = phase, !.exit = exit] \in Invocations
BY DEF Invocations

\* A run begins, reads the plan, hears a signal, reports or ends.
LEMMA FieldStep ==
  ASSUME SelfInv, NEW r \in Run,
         \/ \E input \in Input[r] : Self!Invoke(r, input)
         \/ Self!ReadPlan(r)
         \/ \E code \in Signal[r] : Self!Interrupt(r, code)
         \/ Self!Report(r) \/ Self!Exit(r)
  PROVE  SelfInv'
<1>1. UNCHANGED <<directories, author>> /\ JournalsGrow /\ opened' = opened
  BY JournalsStay
  DEF Self!Invoke, Self!ReadPlan, Self!Interrupt, Self!Report, Self!Exit, Self!Quiet
<1>2. opened' \subseteq Handed /\ opened' \ opened = {}
  BY <1>1 DEF SelfInv
<1>3. ASSUME NEW input \in Input[r], Self!Invoke(r, input)
      PROVE  SelfInv'
  <2> DEFINE next == [phase |-> "bundle", plan |-> {}, preflighted |-> FALSE, local |-> FALSE,
                      complete |-> FALSE, signal |-> 0, exit |-> {}, input |-> input]
  <2>1. /\ next \in Invocations /\ next.phase = "bundle" /\ next.plan = {}
        /\ ~ next.preflighted /\ ~ next.local /\ ~ next.complete /\ next.exit = {}
        /\ next.input = input
    BY DEF Invocations, Self!Phases, Asking, SignalCodes
  <2>2. runs' = [runs EXCEPT ![r] = next] /\ runs[r].plan = {}
    BY <1>3, RunTyped DEF Self!Invoke, Self!Steps
  <2> HIDE DEF next
  <2>3. PlanKept(next) /\ PreflightKept(next) /\ next.exit # {0}
    BY <2>1 DEF PlanKept, PreflightKept
  <2> QED BY <1>1, <1>2, <2>1, <2>2, <2>3, RunMoves
<1>4. CASE Self!ReadPlan(r)
  <2> DEFINE selected == runs[r].input.selected
             admitted == {plan \in directories[runs[r].input.directory].plan :
                            /\ Self!SelectedPlan(runs[r].input, plan)
                            /\ Self!PublicationPolicy(plan, selected.bundle.source,
                                 selected.bundle.notes, runs[r].input.mode)}
             phase == IF admitted = {} THEN "failed" ELSE "past bundle"
             next == [runs[r] EXCEPT !.plan = admitted, !.phase = phase]
  <2>1. runs' = [runs EXCEPT ![r] = next] /\ runs[r].phase = "plan"
    BY <1>4 DEF Self!ReadPlan, Self!Steps, Self!Asked
  <2>2. /\ runs[r] \in Invocations /\ runs[r].plan = {} /\ ~ runs[r].preflighted
        /\ runs[r].input \in Input[r] /\ selected.plan \in Planned
        /\ runs[r].local => runs[r].input.mode = "Local"
    BY <2>1, RunTyped DEF PlanKept, PreflightKept
  <2>3. /\ ~ runs[r].complete /\ runs[r].exit = {}
    BY <2>1, <2>2 DEF SelfInv, RunKept, ExitKept
  <2>4. \A plan \in admitted : plan = selected.plan
    BY DEF Self!SelectedPlan
  <2>5. /\ admitted \subseteq Planned /\ phase \in {"failed", "past bundle"}
        /\ admitted # {} => admitted = {selected.plan}
        /\ phase = "past bundle" => admitted # {}
    BY <2>2, <2>4
  <2>6. admitted # {} =>
          /\ Self!SelectedPlan(runs[r].input, selected.plan)
          /\ Self!PublicationPolicy(selected.plan, selected.bundle.source,
                                    selected.bundle.notes, runs[r].input.mode)
    BY <2>4
  <2> HIDE DEF admitted, phase
  <2>7. /\ next \in Invocations /\ next.phase = phase /\ next.plan = admitted
        /\ next.preflighted = runs[r].preflighted /\ next.local = runs[r].local
        /\ next.complete = runs[r].complete /\ next.exit = runs[r].exit
        /\ next.input = runs[r].input
    BY <2>2, <2>5 DEF Invocations, Self!Phases
  <2> HIDE DEF next
  <2>8. PlanKept(next)
    BY <2>5, <2>6, <2>7 DEF PlanKept
  <2>9. PreflightKept(next)
    BY <2>2, <2>5, <2>7 DEF PreflightKept
  <2> QED BY <1>1, <1>2, <2>1, <2>2, <2>3, <2>7, <2>8, <2>9, RunMoves
<1>5. ASSUME NEW code \in Signal[r], Self!Interrupt(r, code)
      PROVE  SelfInv'
  <2> DEFINE next == [runs[r] EXCEPT !.signal = code]
  <2>1. /\ runs' = [runs EXCEPT ![r] = next] /\ runs[r].phase \notin {"idle", "over"}
        /\ code \in SignalCodes
    BY <1>5, HostAssumptions
    DEF Self!Interrupt, Self!Steps, Self!SelfReleaseAssumption, SignalCodes
  <2>2. /\ runs[r] \in Invocations /\ runs[r].input \in Input[r]
        /\ PlanKept(runs[r]) /\ PreflightKept(runs[r])
    BY <2>1, RunTyped
  <2>3. runs[r].exit = {}
    BY <2>1 DEF SelfInv, RunKept, ExitKept
  <2>4. /\ next \in Invocations /\ next.phase = runs[r].phase /\ next.plan = runs[r].plan
        /\ next.preflighted = runs[r].preflighted /\ next.local = runs[r].local
        /\ next.complete = runs[r].complete /\ next.exit = runs[r].exit
        /\ next.input = runs[r].input
    BY <2>1, <2>2 DEF Invocations
  <2> HIDE DEF next
  <2>5. PlanKept(next)
    BY <2>2, <2>4 DEF PlanKept
  <2>6. PreflightKept(next)
    BY <2>2, <2>4 DEF PreflightKept
  <2> QED BY <1>1, <1>2, <2>1, <2>2, <2>3, <2>4, <2>5, <2>6, RunMoves
<1>6. CASE Self!Report(r)
  <2> DEFINE complete == Self!Recorded(r, "ObservationRecorded")
  <2>1. PICK phase \in {"reported", "failed"} :
          runs' = [runs EXCEPT ![r] = [runs[r] EXCEPT !.complete = complete, !.phase = phase]]
    BY <1>6 DEF Self!Report, Self!Steps
  <2> DEFINE next == [runs[r] EXCEPT !.complete = complete, !.phase = phase]
  <2>2. /\ runs' = [runs EXCEPT ![r] = next] /\ runs[r].phase = "reporting"
    BY <1>6, <2>1 DEF Self!Report
  <2>3. /\ runs[r] \in Invocations /\ runs[r].input \in Input[r]
        /\ PlanKept(runs[r]) /\ PreflightKept(runs[r])
    BY <2>2, RunTyped
  <2>4. runs[r].exit = {}
    BY <2>2 DEF SelfInv, RunKept, ExitKept
  <2>5. runs[r].plan # {} /\ runs[r].input.remote \in Self!Remote
    BY <2>2, <2>3 DEF PlanKept, PreflightKept
  <2>6. complete \in BOOLEAN
    BY DEF Self!Recorded, Self!Host!Tagged
  <2>7. /\ next \in Invocations /\ next.phase = phase /\ next.plan = runs[r].plan
        /\ next.preflighted = runs[r].preflighted /\ next.local = runs[r].local
        /\ next.complete = complete /\ next.exit = runs[r].exit /\ next.input = runs[r].input
    <3> HIDE DEF complete
    <3>1. next \in Invocations
      BY <2>3, <2>6, RunFields DEF Self!Phases
    <3> QED BY <2>3, <3>1 DEF Invocations
  <2> HIDE DEF next
  <2>8. PlanKept(next)
    BY <2>3, <2>5, <2>7 DEF PlanKept
  <2>9. PreflightKept(next)
    BY <2>2, <2>3, <2>5, <2>7 DEF PreflightKept
  <2> QED BY <1>1, <1>2, <2>2, <2>3, <2>4, <2>5, <2>7, <2>8, <2>9, RunMoves
<1>7. CASE Self!Exit(r)
  <2> DEFINE code == Self!Code(r)
             next == [runs[r] EXCEPT !.phase = "over", !.exit = {code}]
  <2>1. runs' = [runs EXCEPT ![r] = next] /\ runs[r].phase \in {"reported", "failed"}
    BY <1>7 DEF Self!Exit, Self!Steps
  <2>2. /\ runs[r] \in Invocations /\ runs[r].input \in Input[r]
        /\ PlanKept(runs[r]) /\ PreflightKept(runs[r])
    BY <2>1, RunTyped
  <2>3. runs[r].signal \in SignalCodes /\ runs[r].complete \in BOOLEAN
    BY <2>2 DEF Invocations
  <2>4. /\ code \in ExitCodes
        /\ code = 0 => runs[r].signal = 0 /\ runs[r].complete
    BY <2>3 DEF Self!Code, SignalCodes, ExitCodes
  <2> HIDE DEF code
  <2>5. /\ next \in Invocations /\ next.phase = "over" /\ next.plan = runs[r].plan
        /\ next.preflighted = runs[r].preflighted /\ next.local = runs[r].local
        /\ next.complete = runs[r].complete /\ next.exit = {code} /\ next.input = runs[r].input
        /\ next.signal = runs[r].signal
    <3>1. {code} \in SUBSET ExitCodes
      BY <2>4
    <3>2. next \in Invocations
      BY <2>2, <3>1, RunFields DEF Self!Phases
    <3> QED BY <2>2, <3>2 DEF Invocations
  <2> HIDE DEF next
  <2>6. PlanKept(next)
    BY <2>2, <2>5 DEF PlanKept
  <2>7. PreflightKept(next)
    BY <2>2, <2>5 DEF PreflightKept
  <2>8. next.exit = {0} => next.signal = 0 /\ next.complete
    BY <2>4, <2>5
  <2> QED BY <1>1, <1>2, <2>1, <2>2, <2>5, <2>6, <2>7, <2>8, RunMoves
<1> QED BY <1>3, <1>4, <1>5, <1>6, <1>7

\* What a run may extend its journal by, follows the history it read.
LEMMA AdmittedEvent ==
  ASSUME SelfInv, NEW r \in Run, runs[r].plan # {}, runs[r].input.remote \in Self!Remote,
         NEW tag, Self!May(r, tag)
  PROVE  Follows(Self!Journal(r), Len(Self!Journal(r)), Self!Event(r, tag), Planned)
<1> DEFINE plan == Self!PlanOfRun(r)
           events == Self!Journal(r)
           event == Self!Event(r, tag)
           prior == {past.plan : past \in runs[r].input.prior}
           host == [publications |-> {plan}, preparations |-> {}, prior |-> prior]
<1>1. event.plan = plan /\ event.tag = tag
  BY DEF Self!Event
<1>2. Self!Host!Admits(host, plan, events) /\ Self!Host!Legal(events, event)
  BY DEF Self!May, Self!AdmitsJournal, Self!Asked
<1>3. events \in Seq(Recordings)
  <2>1. <<runs[r].input.remote, plan.journal>> \in Self!Remote \X Self!Coordinate
    BY PlanIsSelected
  <2> QED BY <2>1 DEF SelfInv, JournalsKept, Self!Journal, Self!Asked
<1>4. host.publications = {plan} /\ host.preparations = {} /\ host.prior = prior
  OBVIOUS
<1> HIDE DEF plan, events, event, prior, host
<1>5. DOMAIN events = 1..Len(events)
  BY <1>3
<1>6. ASSUME NEW i \in 1..Len(events), events[i].plan \in Planned \ {plan}
      PROVE  GivenUp(events, events[i].plan, Len(events))
  <2>1. events[i].plan \in Self!Host!Registered(host)
    BY <1>2, <1>5 DEF Self!Host!Admits, Self!Host!OnlyScopes
  <2>2. events[i].plan \in host.prior
    BY <1>4, <1>6, <2>1 DEF Self!Host!Registered
  <2>3. Self!Host!HistoricalPlan(events[i].plan, events)
    BY <1>2, <2>2 DEF Self!Host!Admits
  <2> QED BY <1>5, <2>3 DEF Self!Host!HistoricalPlan, Self!Host!Tagged, GivenUp
<1>7. Follows(events, Len(events), event, Planned)
  BY <1>1, <1>2, <1>5, <1>6 DEF Follows, Self!Host!Legal, Self!Host!Tagged
<1> QED BY <1>7 DEF events, event

LEMMA ExtendsGrows ==
  ASSUME SelfInv, NEW r \in Run, runs[r].plan # {}, runs[r].input.remote \in Self!Remote,
         NEW tag \in {"DispatchStarted", "ObservationRecorded", "PlanSuperseded"}, NEW wanted,
         Self!Extends(r, wanted, tag)
  PROVE  JournalsGrow
<1> DEFINE plan == runs[r].input.selected.plan
           key == <<runs[r].input.remote, plan.journal>>
           event == Self!Event(r, tag)
           events == journals[key]
<1>1. /\ Self!PlanOfRun(r) = plan /\ runs[r].plan = {plan} /\ plan \in Planned
      /\ key \in Self!Remote \X Self!Coordinate
  BY PlanIsSelected
<1>2. Self!Journal(r) = events /\ key[2] = plan.journal
  BY <1>1 DEF Self!Journal, Self!Asked
<1>3. event \in Recordings /\ event.plan = plan /\ event.by = r
  BY <1>1 DEF Self!Event, Recordings
<1>4. CASE UNCHANGED journals
  BY <1>4, JournalsStay
<1>5. CASE /\ Self!May(r, tag) /\ Len(events) < MaxReleased
           /\ journals' = [journals EXCEPT ![key] = Append(events, event)]
  <2>1. Follows(events, Len(events), event, Planned)
    BY <1>1, <1>2, <1>5, AdmittedEvent
  <2>2. /\ journals \in [Self!Remote \X Self!Coordinate -> Seq(Recordings)]
        /\ MaxReleased \in Nat
    BY HostAssumptions DEF SelfInv, JournalsKept, Self!SelfReleaseAssumption
  <2>3. /\ events \in Seq(Recordings) /\ OneActive(events, Planned)
        /\ \A i \in DOMAIN events :
             events[i].plan.journal = key[2] /\ runs[events[i].by].plan = {events[i].plan}
    BY <1>1, <2>2 DEF SelfInv, JournalsKept
  <2> DEFINE longer == Append(events, event)
  <2>4. OneActive(longer, Planned)
    BY <1>3, <2>1, <2>3, OneActiveGrows
  <2>5. /\ longer \in Seq(Recordings) /\ Len(longer) <= MaxReleased
        /\ \A i \in DOMAIN longer : longer[i] = event \/ (i \in DOMAIN events /\ longer[i] = events[i])
        /\ \A i \in DOMAIN events : i \in DOMAIN longer /\ longer[i] = events[i]
    <3>1. Len(events) < MaxReleased
      BY <1>5
    <3> HIDE DEF plan, key, event, events
    <3> QED BY <1>3, <2>2, <2>3, <3>1
  <2> HIDE DEF longer
  <2>6. \A i \in DOMAIN longer :
          longer[i].plan.journal = key[2] /\ runs[longer[i].by].plan = {longer[i].plan}
    <3>1. event.plan.journal = key[2] /\ runs[event.by].plan = {event.plan}
      BY <1>1, <1>2, <1>3
    <3> HIDE DEF plan, key, event, events
    <3> QED BY ZenonT(60), <2>3, <2>5, <3>1
  <2>7. journals' = [journals EXCEPT ![key] = longer]
    BY <1>5 DEF longer
  <2> HIDE DEF plan, key, event
  <2>8. journals' \in [Self!Remote \X Self!Coordinate -> Seq(Recordings)]
    BY <2>2, <2>5, <2>7
  <2>9. ASSUME NEW k \in Self!Remote \X Self!Coordinate
        PROVE  /\ OneActive(journals'[k], Planned) /\ Len(journals'[k]) <= MaxReleased
               /\ \A i \in DOMAIN journals'[k] :
                    /\ journals'[k][i].plan.journal = k[2]
                    /\ runs[journals'[k][i].by].plan = {journals'[k][i].plan}
               /\ \A i \in DOMAIN journals[k] :
                    i \in DOMAIN journals'[k] /\ journals'[k][i] = journals[k][i]
    <3>1. CASE k = key
      BY <1>1, <2>2, <2>4, <2>5, <2>6, <2>7, <3>1
    <3>2. CASE k # key
      <4>1. journals'[k] = journals[k]
        BY <2>2, <2>7, <3>2
      <4> QED BY <4>1 DEF SelfInv, JournalsKept
    <3> QED BY <3>1, <3>2
  <2> QED BY <2>8, <2>9 DEF JournalsGrow
<1>6. \/ UNCHANGED journals
      \/ /\ Self!May(r, tag) /\ Len(events) < MaxReleased
         /\ journals' = [journals EXCEPT ![key] = Append(@, event)]
  BY <1>1, <1>2 DEF Self!Extends, Self!Asked
<1>7. journals[key] = events
  OBVIOUS
<1> HIDE DEF event, key, plan
<1> QED BY <1>4, <1>5, <1>6

\* Whom the journal's token is handed to.
LEMMA CredentialHanded ==
  ASSUME SelfInv, NEW r \in Run, Self!JournalCredential(r)
  PROVE  /\ opened' \subseteq Handed
         /\ \A each \in opened' \ opened :
              each.by = r /\ each.to = "journal" /\ runs[r].input.remote = "github"
BY DEF SelfInv, Self!JournalCredential, Self!Hands, Self!Asked, Handed

\* What the registry is shown: nothing for a read, and to write what the plan was retained for.
LEMMA RegistrySecrets ==
  ASSUME SelfInv, NEW r \in Run, runs[r].plan # {}
  PROVE  /\ Self!Registry(r, "GET") = {}
         /\ \A s \in Self!Registry(r, "PUT") :
              /\ s \in {"identity", "token", "config"}
              /\ s = CASE runs[r].input.mode = "Trusted" -> "identity"
                       [] runs[r].input.mode = "Token" -> "token"
                       [] runs[r].input.mode = "Local" -> "config"
<1> DEFINE mode == runs[r].input.mode
           plan == runs[r].input.selected.plan
<1>1. Self!Registry(r, "GET") = {}
  BY DEF Self!Registry, Self!NpmCredentials
<1>2. /\ Self!PlanOfRun(r) = plan
      /\ \A intent \in plan.publications : intent.authorization = "Trusted" <=> mode = "Trusted"
  BY PlanIsSelected DEF Self!PublicationPolicy
<1>3. mode \in {"Token", "Trusted", "Local"} /\ (runs[r].local => mode = "Local")
  BY RunTyped DEF Self!Modes, PreflightKept
<1>4. ASSUME NEW intent \in plan.publications, NEW s \in Self!NpmCredentials(r, intent, "PUT")
      PROVE  \/ mode = "Trusted" /\ s = "identity"
             \/ mode = "Token" /\ s = "token"
             \/ mode = "Local" /\ s = "config"
  <2>1. CASE mode = "Trusted"
    BY <1>2, <1>4, <2>1 DEF Self!NpmCredentials, Self!Asked
  <2>2. CASE mode # "Trusted" /\ runs[r].local
    BY <1>2, <1>3, <1>4, <2>2 DEF Self!NpmCredentials, Self!Asked
  <2>3. CASE mode # "Trusted" /\ ~ runs[r].local
    BY <1>2, <1>3, <1>4, <2>3 DEF Self!NpmCredentials, Self!Asked
  <2> QED BY <2>1, <2>2, <2>3
<1>5. \A s \in Self!Registry(r, "PUT") : \E intent \in plan.publications :
        s \in Self!NpmCredentials(r, intent, "PUT")
  BY <1>2 DEF Self!Registry
<1> HIDE DEF plan
<1> QED BY <1>1, <1>4, <1>5

\* The history and the requests are admitted, and npm's configuration is read after that.
LEMMA AdmittingStep ==
  ASSUME SelfInv, NEW r \in Run, Self!Preflight(r) \/ Self!Local(r) \/ Self!Start(r)
  PROVE  SelfInv'
<1>1. UNCHANGED <<directories, author>> /\ JournalsGrow
  BY JournalsStay DEF Self!Preflight, Self!Local, Self!Start
<1>2. /\ runs[r].phase \in {"preflight", "local"}
      /\ runs[r] \in Invocations /\ runs[r].input \in Input[r]
      /\ PlanKept(runs[r]) /\ PreflightKept(runs[r])
  BY RunTyped DEF Self!Preflight, Self!Local, Self!LocalDue, Self!Start
<1>3. /\ runs[r].plan = {runs[r].input.selected.plan} /\ runs[r].plan # {}
      /\ runs[r].input.remote \in Self!Remote /\ runs[r].exit = {}
  BY <1>2 DEF PlanKept, PreflightKept, SelfInv, RunKept, ExitKept
<1>4. CASE Self!Preflight(r)
  <2>1. PICK admitted \in BOOLEAN :
          runs' = [runs EXCEPT ![r] = [runs[r] EXCEPT
                     !.phase = IF admitted THEN "local" ELSE "failed", !.preflighted = admitted]]
    BY <1>4 DEF Self!Preflight, Self!Steps
  <2> DEFINE phase == IF admitted THEN "local" ELSE "failed"
             next == [runs[r] EXCEPT !.phase = phase, !.preflighted = admitted]
  <2>2. /\ runs' = [runs EXCEPT ![r] = next] /\ ~ runs[r].preflighted
    BY <1>2, <1>4, <2>1 DEF Self!Preflight, PreflightKept
  <2>3. phase \in {"local", "failed"} /\ (phase = "local" => admitted)
    OBVIOUS
  <2> HIDE DEF phase
  <2>4. next \in Invocations
    BY <1>2, <2>3 DEF Invocations, Self!Phases
  <2>5. /\ next.phase = phase /\ next.plan = runs[r].plan
        /\ next.preflighted = admitted /\ next.local = runs[r].local
        /\ next.complete = runs[r].complete /\ next.exit = runs[r].exit
        /\ next.input = runs[r].input
    BY <1>2 DEF Invocations
  <2> HIDE DEF next
  <2>6. PlanKept(next)
    BY <1>2, <1>3, <2>3, <2>5 DEF PlanKept
  <2>7. PreflightKept(next)
    BY <1>2, <1>3, <2>3, <2>5 DEF PreflightKept
  <2>8. opened' \subseteq Handed /\ \A each \in opened' \ opened : each.by = r /\ Admitted(each, next)
    BY ZenonT(60), <1>3, <1>4, <2>5, CredentialHanded DEF Self!Preflight, Admitted
  <2> QED BY <1>1, <1>2, <1>3, <2>2, <2>4, <2>5, <2>6, <2>7, <2>8, RunMoves
<1>5. CASE Self!Local(r)
  <2>1. PICK readable \in BOOLEAN :
          runs' = [runs EXCEPT ![r] = [runs[r] EXCEPT
                     !.local = readable, !.phase = IF readable THEN @ ELSE "failed"]]
    BY <1>5 DEF Self!Local, Self!Steps
  <2> DEFINE phase == IF readable THEN "local" ELSE "failed"
             next == [runs[r] EXCEPT !.local = readable, !.phase = phase]
  <2>2. /\ runs' = [runs EXCEPT ![r] = next] /\ runs[r].phase = "local"
        /\ runs[r].input.mode = "Local"
    BY <1>2, <1>5, <2>1 DEF Self!Local, Self!LocalDue, Self!Asked, Invocations
  <2>3. phase \in {"local", "failed"}
    OBVIOUS
  <2> HIDE DEF phase
  <2>4. next \in Invocations
    BY <1>2, <2>3 DEF Invocations, Self!Phases
  <2>5. /\ next.phase = phase /\ next.plan = runs[r].plan
        /\ next.preflighted = runs[r].preflighted
        /\ next.complete = runs[r].complete /\ next.exit = runs[r].exit
        /\ next.input = runs[r].input
    BY <1>2 DEF Invocations
  <2> HIDE DEF next
  <2>6. PlanKept(next)
    BY <1>2, <1>3, <2>3, <2>5 DEF PlanKept
  <2>7. PreflightKept(next)
    BY <1>2, <1>3, <2>2, <2>3, <2>5 DEF PreflightKept
  <2>8. /\ opened' = opened \cup {[secret |-> s, to |-> "session", by |-> r] : s \in {"config"}}
        /\ runs[r].input.authorize => runs[r].preflighted
    BY <1>2, <1>5, <2>2 DEF Self!Local, Self!Hands, PreflightKept
  <2>9. opened' \subseteq Handed /\ \A each \in opened' \ opened : each.by = r /\ Admitted(each, next)
    BY <1>3, <2>5, <2>8 DEF SelfInv, Handed, Admitted
  <2> QED BY <1>1, <1>2, <1>3, <2>2, <2>4, <2>5, <2>6, <2>7, <2>9, RunMoves
<1>6. CASE Self!Start(r)
  <2>1. /\ runs[r].phase = "local" /\ (Self!Goes(r, "running") \/ Self!Goes(r, "failed"))
        /\ runs[r].input.authorize => runs[r].preflighted
    BY <1>2, <1>6 DEF Self!Start, Self!GoesIf, PreflightKept
  <2>2. opened' \subseteq Handed
        /\ \A each \in opened' \ opened : each.by = r /\ Admitted(each, runs[r])
    BY <1>3, <1>6, CredentialHanded DEF Self!Start, Admitted
  <2>3. CASE Self!Goes(r, "running")
    BY <1>1, <1>3, <2>1, <2>2, <2>3, PhaseMoves DEF Self!Phases
  <2>4. CASE Self!Goes(r, "failed")
    BY <1>1, <2>1, <2>2, <2>4, RunFails
  <2> QED BY <2>1, <2>3, <2>4
<1> QED BY <1>4, <1>5, <1>6

\* A run that is past the preflight goes on with a secret of its own, or fails.
LEMMA RunningMoves ==
  ASSUME SelfInv, NEW r \in Run, runs[r].phase \in {"running", "observed", "prepared"},
         NEW phase \in {"observed", "prepared", "reporting", "failed"}, Self!Goes(r, phase),
         UNCHANGED <<directories, author>>, JournalsGrow, opened' \subseteq Handed,
         \A each \in opened' \ opened : each.by = r /\ Admitted(each, runs[r])
  PROVE  SelfInv'
<1>1. /\ runs[r].plan # {} /\ runs[r].input.remote \in Self!Remote
      /\ runs[r].input.authorize => runs[r].preflighted
  BY RunTyped DEF PlanKept, PreflightKept
<1> QED BY <1>1, PhaseMoves DEF Self!Phases

LEMMA RunningStep ==
  ASSUME SelfInv, NEW r \in Run,
         Self!Observe(r) \/ Self!PrepareRequest(r) \/ Self!Dispatch(r) \/ Self!Supersede(r)
  PROVE  SelfInv'
<1>1. /\ runs[r].phase \in {"running", "observed", "prepared"}
      /\ UNCHANGED <<directories, author>> /\ opened \subseteq Handed
  BY DEF Self!Observe, Self!PrepareRequest, Self!Dispatch, Self!Supersede, SelfInv
<1>2. /\ runs[r].plan # {} /\ runs[r].plan = {runs[r].input.selected.plan}
      /\ runs[r].input.remote \in Self!Remote
      /\ runs[r].input.authorize => runs[r].preflighted
  BY <1>1, RunTyped DEF PlanKept, PreflightKept
<1>3. CASE Self!Observe(r)
  <2>1. PICK phase \in {"observed", "reporting", "failed"} : Self!Goes(r, phase)
    BY <1>3 DEF Self!Observe, Self!GoesIf
  <2>2. JournalsGrow
    BY <1>2, <1>3, ExtendsGrows DEF Self!Observe
  <2>3. opened' = opened \cup {[secret |-> "github", to |-> "repository", by |-> r]}
    <3>1. Self!Registry(r, "GET") = {}
      BY <1>2, RegistrySecrets
    <3> QED BY <1>3, <3>1 DEF Self!Observe
  <2>4. opened' \subseteq Handed
        /\ \A each \in opened' \ opened : each.by = r /\ Admitted(each, runs[r])
    BY <1>1, <1>2, <2>3 DEF Handed, Admitted
  <2> QED BY <1>1, <2>1, <2>2, <2>4, RunningMoves
<1>4. CASE Self!PrepareRequest(r)
  <2>1. PICK phase \in {"prepared", "reporting", "failed"} : Self!Goes(r, phase)
    BY <1>4 DEF Self!PrepareRequest, Self!GoesIf
  <2>2. JournalsGrow
    BY <1>4, JournalsStay DEF Self!PrepareRequest
  <2>3. PICK secrets \in {{}, Self!Registry(r, "PUT")} :
          /\ opened' = opened \cup {[secret |-> s, to |-> "registry", by |-> r] : s \in secrets}
          /\ secrets # {} => runs[r].input.authorize
    BY <1>4 DEF Self!PrepareRequest, Self!Hands, Self!Asked
  <2>4. ASSUME NEW each \in opened' \ opened
        PROVE  each \in Handed /\ each.by = r /\ Admitted(each, runs[r])
    <3>1. PICK s \in secrets : each = [secret |-> s, to |-> "registry", by |-> r]
      BY <2>3, <2>4
    <3>2. s \in {"identity", "token", "config"}
          /\ s = CASE runs[r].input.mode = "Trusted" -> "identity"
                   [] runs[r].input.mode = "Token" -> "token"
                   [] runs[r].input.mode = "Local" -> "config"
      BY <1>2, <2>3, <3>1, RegistrySecrets
    <3>3. each.secret = s /\ each.to = "registry" /\ each.by = r
      BY <3>1
    <3>4. runs[r].input.authorize /\ runs[r].preflighted
      BY <1>2, <2>3, <3>1
    <3>5. each \in Handed
      BY <3>1, <3>2 DEF Handed
    <3> QED BY <1>2, <3>2, <3>3, <3>4, <3>5 DEF Admitted
  <2> QED BY <1>1, <2>1, <2>2, <2>4, RunningMoves
<1>5. CASE Self!Dispatch(r)
  <2>1. PICK phase \in {"reporting", "failed"} : Self!Goes(r, phase)
    BY <1>5 DEF Self!Dispatch, Self!GoesIf
  <2>2. JournalsGrow /\ opened' = opened
    BY <1>2, <1>5, ExtendsGrows DEF Self!Dispatch
  <2> QED BY <1>1, <2>1, <2>2, RunningMoves
<1>6. CASE Self!Supersede(r)
  <2>1. PICK phase \in {"reporting", "failed"} : Self!Goes(r, phase)
    BY <1>6 DEF Self!Supersede, Self!GoesIf
  <2>2. JournalsGrow /\ opened' = opened
    BY <1>2, <1>6, ExtendsGrows DEF Self!Supersede
  <2> QED BY <1>1, <2>1, <2>2, RunningMoves
<1> QED BY <1>3, <1>4, <1>5, <1>6

LEMMA SelfStep == ASSUME SelfInv, Self!Next PROVE SelfInv'
BY AuthorStep, ReadingStep, FieldStep, AdmittingStep, RunningStep DEF Self!Next

\* A start in a journal is of the plan that its run was given.
LEMMA StartedPlan ==
  ASSUME SelfInv, NEW remote \in Self!Remote, NEW e \in Self!Started(remote)
  PROVE  \E key \in Self!Remote \X Self!Coordinate : \E i \in DOMAIN journals[key] :
           /\ key[1] = remote /\ journals[key][i] = e /\ e.tag = "DispatchStarted"
           /\ e.by \in Run /\ e.plan \in Planned
           /\ e.plan = runs[e.by].input.selected.plan
           /\ e.plan.bundle = runs[e.by].input.selected.bundle
           /\ key[2] = Self!ReleaseJournalId(e.plan.bundle.source)
           /\ Self!PublicationPolicy(e.plan, e.plan.bundle.source, e.plan.bundle.notes,
                                     runs[e.by].input.mode)
<1>1. DOMAIN journals = Self!Remote \X Self!Coordinate
  BY DEF SelfInv, JournalsKept
<1>2. PICK key \in Self!Remote \X Self!Coordinate : \E i \in DOMAIN journals[key] :
        key[1] = remote /\ journals[key][i] = e /\ e.tag = "DispatchStarted"
  BY <1>1 DEF Self!Started
<1>3. PICK i \in DOMAIN journals[key] :
        key[1] = remote /\ journals[key][i] = e /\ e.tag = "DispatchStarted"
  BY <1>2
<1>4. e \in Recordings
  <2>1. journals[key] \in Seq(Recordings)
    BY DEF SelfInv, JournalsKept
  <2> QED BY <1>3, <2>1
<1>5. e.plan.journal = key[2] /\ runs[e.by].plan = {e.plan}
  BY <1>3 DEF SelfInv, JournalsKept
<1>6. e.by \in Run /\ e.plan \in Planned
  BY <1>4 DEF Recordings
<1>7. /\ runs[e.by].plan = {runs[e.by].input.selected.plan}
      /\ runs[e.by].input.selected.plan.bundle = runs[e.by].input.selected.bundle
      /\ runs[e.by].input.selected.plan.journal =
           Self!ReleaseJournalId(runs[e.by].input.selected.plan.bundle.source)
      /\ Self!PublicationPolicy(runs[e.by].input.selected.plan,
           runs[e.by].input.selected.bundle.source, runs[e.by].input.selected.bundle.notes,
           runs[e.by].input.mode)
  BY <1>5, <1>6, PlanIsSelected
<1>8. e.plan = runs[e.by].input.selected.plan
  BY <1>5, <1>7
<1> QED BY ZenonT(60), <1>3, <1>5, <1>6, <1>7, <1>8

\* What a preparation that ended made, an application admits.
LEMMA PreparedAdmitted ==
  ASSUME SelfInv, author.phase = "prepared"
  PROVE  LET plan == Self!PlanOf(author.request)
         IN  /\ Self!PublicationPolicy(plan, author.request.source, author.request.notes,
                                       author.request.authorization)
             /\ plan.journal = Self!ReleaseJournalId(author.request.source)
<1> DEFINE request == author.request
           plan == Self!PlanOf(request)
<1>1. /\ request \in Preparing /\ Self!Cohort(request) /\ Self!PreparationPolicy(request)
  BY AuthorTyped DEF SelfInv, AuthorKept
<1>2. request \in [source : Self!Source, notes : Notes, authorization : {"Token", "Trusted"},
                   provenance : BOOLEAN, archives : SUBSET [name : Package, version : Version]]
  BY <1>1, HostAssumptions DEF Self!SelfReleaseAssumption
<1>3. \A intent \in plan.publications : \E archive \in request.archives :
        /\ intent = [name |-> archive.name, version |-> archive.version,
                     authorization |-> request.authorization, principal |-> Self!NPM_PRINCIPAL,
                     provenance |-> IF request.provenance THEN request.source.commit
                                    ELSE Self!None]
        /\ archive.version = request.source.version
  BY <1>1 DEF Self!PlanOf, Self!Cohort
<1>4. /\ plan.publications # {} /\ plan.repository = request.source.repository
      /\ plan.tags = {[version |-> request.source.version, commit |-> request.source.commit]}
      /\ plan.drafts = {request.notes}
      /\ plan.journal = Self!ReleaseJournalId(request.source)
  BY <1>1 DEF Self!PlanOf, Self!Cohort
<1> HIDE DEF request, plan
<1>5. \A intent \in plan.publications :
        /\ intent.version = request.source.version /\ intent.principal = Self!NPM_PRINCIPAL
        /\ intent.authorization = request.authorization
        /\ intent.provenance \in {Self!None, request.source.commit}
  BY <1>3
<1>6. \A intent, other \in plan.publications : intent.name = other.name => intent = other
  BY <1>3
<1>7. Self!PublicationPolicy(plan, request.source, request.notes, request.authorization)
  BY <1>4, <1>5, <1>6 DEF Self!PublicationPolicy
<1> QED BY <1>4, <1>7 DEF request, plan

LEMMA SelfSafe ==
  ASSUME SelfInv
  PROVE  /\ Self!CandidatesWhole /\ Self!OneCandidate
         /\ Self!AuthorityAdmitted /\ Self!SuccessTrue
<1>1. Self!CandidatesWhole
  <2>1. ASSUME NEW remote \in Self!Remote, NEW e \in Self!Started(remote)
        PROVE  /\ e.plan = Self!Asked(e.by).selected.plan
               /\ e.plan.bundle = Self!Asked(e.by).selected.bundle
               /\ Self!OneRelease(e.plan)
    <3>1. /\ e.plan = runs[e.by].input.selected.plan
          /\ e.plan.bundle = runs[e.by].input.selected.bundle
          /\ Self!PublicationPolicy(e.plan, e.plan.bundle.source, e.plan.bundle.notes,
                                    runs[e.by].input.mode)
      BY StartedPlan
    <3>2. Self!OneRelease(e.plan)
      BY <3>1 DEF Self!PublicationPolicy, Self!OneRelease
    <3> QED BY <3>1, <3>2 DEF Self!Asked
  <2> QED BY <2>1, PreparedAdmitted DEF Self!CandidatesWhole
<1>2. Self!OneCandidate
  <2> SUFFICES ASSUME NEW remote \in Self!Remote,
                      NEW e \in Self!Started(remote), NEW f \in Self!Started(remote),
                      Self!ReleaseJournalId(e.plan.bundle.source) =
                        Self!ReleaseJournalId(f.plan.bundle.source),
                      e.plan # f.plan
               PROVE  FALSE
    BY DEF Self!OneCandidate
  <2>1. PICK key \in Self!Remote \X Self!Coordinate : \E i \in DOMAIN journals[key] :
          /\ key[1] = remote /\ journals[key][i] = e /\ e.tag = "DispatchStarted"
          /\ e.plan \in Planned /\ key[2] = Self!ReleaseJournalId(e.plan.bundle.source)
    BY StartedPlan
  <2>2. PICK other \in Self!Remote \X Self!Coordinate : \E i \in DOMAIN journals[other] :
          /\ other[1] = remote /\ journals[other][i] = f /\ f.tag = "DispatchStarted"
          /\ f.plan \in Planned /\ other[2] = Self!ReleaseJournalId(f.plan.bundle.source)
    BY StartedPlan
  <2>3. other = key
    BY <2>1, <2>2
  <2>4. PICK k \in DOMAIN journals[key] :
          journals[key][k] = e /\ e.tag = "DispatchStarted" /\ e.plan \in Planned
    BY <2>1
  <2>5. PICK j \in DOMAIN journals[key] :
          journals[key][j] = f /\ f.tag = "DispatchStarted" /\ f.plan \in Planned
    BY <2>2, <2>3
  <2>6. journals[key] \in Seq(Recordings) /\ OneActive(journals[key], Planned)
    BY DEF SelfInv, JournalsKept
  <2> QED BY <2>4, <2>5, <2>6, OneActiveMeans
<1>3. Self!AuthorityAdmitted
  BY DEF SelfInv
<1>4. ASSUME NEW r \in Run, runs[r].exit = {0}
      PROVE  /\ runs[r].signal = 0 /\ runs[r].plan = {Self!Asked(r).selected.plan}
             /\ Self!Recorded(r, "ObservationRecorded")
  <2>1. /\ runs[r].signal = 0 /\ runs[r].plan # {} /\ Self!Recorded(r, "ObservationRecorded")
    BY <1>4 DEF SelfInv, RunKept, ExitKept
  <2> QED BY <2>1, PlanIsSelected DEF Self!Asked
<1> QED BY <1>1, <1>2, <1>3, <1>4 DEF Self!SuccessTrue

-----------------------------------------------------------------------------
(* The host *)

\* A step is of the machine that is on, and changes that machine alone.
LEMMA OneMachineSteps ==
  ASSUME [Next]_vars
  PROVE  /\ on' = on
         /\ on = "http" => Http!Next \/ UNCHANGED http
         /\ on = "process" => Native!Next \/ UNCHANGED process
         /\ on = "npm" => Npm!Next \/ UNCHANGED npm
         /\ on = "auth" => Auth!Next \/ UNCHANGED auth
         /\ on = "tree" => Tree!Next \/ UNCHANGED tree
         /\ on = "apple" => Apple!Next \/ UNCHANGED preparing
         /\ on = "shared" => Shared!Next \/ UNCHANGED shared
         /\ on = "observing" => Bounded!Next \/ UNCHANGED observing
         /\ on = "self" => Self!Next \/ UNCHANGED releasing
BY DEF Next, OfHttp, OfProcess, vars

LEMMA HttpKept ==
  /\ Init /\ on = "http" => HttpInv
  /\ HttpInv /\ (Http!Next \/ UNCHANGED http) => HttpInv'
<1>1. HttpInv /\ UNCHANGED http => HttpInv'
  BY DEF http, HttpInv, ResponseKept, HandlesKept, HeadersKept, Lawful
<1> QED BY <1>1, HttpInit, HttpStep DEF Init

LEMMA NativeKept ==
  /\ Init /\ on = "process" => NativeInv
  /\ NativeInv /\ (Native!Next \/ UNCHANGED process) => NativeInv'
<1>1. NativeInv /\ UNCHANGED process => NativeInv'
  BY DEF process, NativeInv, OutputCounted, ProgramsHeld, CloseKept, Native!Alive, Native!Empty
<1> QED BY <1>1, NativeInit, NativeStep DEF Init

LEMMA NpmKept ==
  /\ Init /\ on = "npm" => NpmInv
  /\ NpmInv /\ (Npm!Next \/ UNCHANGED npm) => NpmInv'
<1>1. NpmInv /\ UNCHANGED npm => NpmInv'
  BY DEF npm, NpmInv, OnePlace, Npm!SecretsErased, InFlight, Completing
<1> QED BY <1>1, NpmInit, NpmStep DEF Init

LEMMA AuthKept ==
  /\ Init /\ on = "auth" => AuthInv
  /\ AuthInv /\ (Auth!Next \/ UNCHANGED auth) => AuthInv'
<1>1. AuthInv /\ UNCHANGED auth => AuthInv'
  BY DEF auth, AuthInv, BindingKept, GrantKept, ToldKept, IdentityGood
<1> QED BY <1>1, AuthInit, AuthStep DEF Init

LEMMA TreeKept ==
  /\ Init /\ on = "tree" => TreeInv
  /\ TreeInv /\ (Tree!Next \/ UNCHANGED tree) => TreeInv'
<1>1. TreeInv /\ UNCHANGED tree => TreeInv'
  BY DEF tree, TreeInv, TreeStands, StagingKept
<1> QED BY <1>1, TreeInit, TreeStep DEF Init

\* Nothing stored is ever removed, and what a runner stores it stapled.
LEMMA ProductsStay ==
  /\ Apple!Init => ProductsStored
  /\ AppleInv /\ ProductsStored /\ Apple!Next => ProductsStored'
<1>1. Apple!Init => ProductsStored
  BY DEF Apple!Init, ProductsStored
<1>2. ASSUME AppleInv, ProductsStored, Apple!Validate PROVE ProductsStored'
  BY <1>2 DEF Apple!Validate, Apple!HasSelected, ProductsStored
<1>3. ASSUME AppleInv, ProductsStored, NEW r \in Runner, Apple!Adopt(r) PROVE ProductsStored'
  BY <1>3 DEF Apple!Adopt, AppleInv, NumbersKept, ProductsStored
<1>4. ASSUME ProductsStored, UNCHANGED <<store, publication>> PROVE ProductsStored'
  BY <1>4 DEF ProductsStored
<1> QED
  BY <1>1, <1>2, <1>3, <1>4
  DEF Apple!Next, Apple!Decide, Apple!Elsewhere, Apple!Begin, Apple!Submit, Apple!Record,
      Apple!Poll, Apple!Staple, Apple!Select, Apple!Crash

LEMMA AppleKept ==
  /\ Init /\ on = "apple" => AppleInv /\ ProductsStored
  /\ AppleInv /\ ProductsStored /\ (Apple!Next \/ UNCHANGED preparing)
       => AppleInv' /\ ProductsStored'
<1>1. AppleInv /\ UNCHANGED preparing => AppleInv'
  BY DEF preparing, AppleInv, SubmissionsKept, NumbersKept, Ticketed, Holds, SelectionKept,
     Apple!HasSelected, Apple!SelectedFor
<1>2. ProductsStored /\ UNCHANGED preparing => ProductsStored'
  BY DEF preparing, ProductsStored
<1> QED BY <1>1, <1>2, AppleInit, AppleStep, ProductsStay DEF Init

LEMMA SharedKept ==
  /\ Init /\ on = "shared" => SharedInv
  /\ SharedInv /\ (Shared!Next \/ UNCHANGED shared) => SharedInv'
<1>1. SharedInv /\ UNCHANGED shared => SharedInv'
  BY DEF shared, SharedInv
<1> QED BY <1>1, SharedInit, SharedStep DEF Init

\* The history grows, and a report is of the history that there is.
LEMMA ReportStays ==
  /\ Bounded!Init => ReportBounded
  /\ ObservingInv /\ ReportBounded /\ Bounded!Next => ReportBounded'
<1>1. Bounded!Init => ReportBounded
  BY HostAssumptions DEF Bounded!Init, Bounded!ObservationAssumption, ReportBounded
<1>2. ASSUME ObservingInv, ReportBounded, Bounded!Tick PROVE ReportBounded'
  BY <1>2, HostAssumptions
  DEF Bounded!Tick, Bounded!ObservationAssumption, ObservingInv, ReportBounded
<1>3. ASSUME ObservingInv, ReportBounded, time' = time, NEW event, history' = Append(history, event),
             sweep'.report = sweep.report
      PROVE  ReportBounded'
  BY <1>3 DEF ObservingInv, Sweeps, ReportBounded
<1>4. ASSUME ObservingInv, ReportBounded, UNCHANGED <<time, history>>,
             sweep'.report \in {sweep.report, Len(history)}
      PROVE  ReportBounded'
  BY <1>4 DEF ObservingInv, Sweeps, ReportBounded
<1>5. ASSUME ObservingInv, ReportBounded, Bounded!Land \/ Bounded!Foreign
      PROVE  ReportBounded'
  BY <1>3, <1>4, <1>5 DEF Bounded!Land, Bounded!Foreign
<1>6. ASSUME ObservingInv, ReportBounded,
             \/ Bounded!Check \/ Bounded!Observe \/ Bounded!AppendFact \/ Bounded!Answer
             \/ Bounded!Fail \/ Bounded!ReadReport \/ Bounded!Interrupt \/ Bounded!Settle
             \/ Bounded!Reconcile \/ Bounded!Look \/ Bounded!Wake
      PROVE  ReportBounded'
  BY <1>4, <1>6
  DEF Bounded!Check, Bounded!Observe, Bounded!AppendFact, Bounded!NextOperation, Bounded!Answer,
      Bounded!Fail, Bounded!ReadReport, Bounded!Interrupt, Bounded!Settle, Bounded!Reconcile,
      Bounded!ReportedNow, Bounded!Look, Bounded!Wake, Bounded!Step, Bounded!Quiet, ObservingInv,
      Sweeps
<1> QED BY <1>1, <1>2, <1>5, <1>6 DEF Bounded!Next

LEMMA ObservingKept ==
  /\ Init /\ on = "observing" => ObservingInv /\ ReportBounded
  /\ ObservingInv /\ ReportBounded /\ (Bounded!Next \/ UNCHANGED observing)
       => ObservingInv' /\ ReportBounded'
<1>1. ObservingInv /\ UNCHANGED observing => ObservingInv'
  BY DEF observing, ObservingInv, PushesKept, ReportKept, Bounded!Recorded
<1>2. ReportBounded /\ UNCHANGED observing => ReportBounded'
  BY DEF observing, ReportBounded
<1> QED BY <1>1, <1>2, ObservingInit, ObservingStep, ReportStays DEF Init

LEMMA SelfKept ==
  /\ Init /\ on = "self" => SelfInv
  /\ SelfInv /\ (Self!Next \/ UNCHANGED releasing) => SelfInv'
<1>1. ASSUME SelfInv, UNCHANGED releasing PROVE SelfInv'
  <2>1. /\ directories' = directories /\ author' = author /\ journals' = journals
        /\ runs' = runs /\ opened' = opened
    BY <1>1 DEF releasing
  <2>2. AuthorKept' = AuthorKept /\ JournalsKept' = JournalsKept
    BY <2>1 DEF AuthorKept, JournalsKept
  <2>3. ASSUME NEW r \in Run PROVE RunKept(r)' = RunKept(r)
    <3>1. Self!Recorded(r, "ObservationRecorded")' = Self!Recorded(r, "ObservationRecorded")
      BY <2>1 DEF Self!Recorded, Self!Journal, Self!Asked, Self!PlanOfRun
    <3>2. PlanKept(runs[r])' = PlanKept(runs[r]) /\ PreflightKept(runs[r])' = PreflightKept(runs[r])
      BY <2>1
    <3> QED BY <2>1, <3>1, <3>2 DEF RunKept, ExitKept
  <2>4. Self!AuthorityAdmitted' = Self!AuthorityAdmitted
    BY <2>1 DEF Self!AuthorityAdmitted, Self!Asked
  <2> QED BY <1>1, <2>1, <2>2, <2>3, <2>4 DEF SelfInv
<1> QED BY <1>1, SelfInit, SelfStep DEF Init

\* The invariants give each machine its types.
LEMMA CallsTyped ==
  /\ HttpInv => Http!TypeOK
  /\ NativeInv => Native!TypeOK
  /\ TreeInv => Tree!TypeOK
<1>1. HttpInv => Http!TypeOK
  BY DEF HttpInv, Calls, Http!TypeOK
<1>2. NativeInv => Native!TypeOK
  BY DEF NativeInv, Commands, Systems, Native!TypeOK
<1>3. TreeInv => Tree!TypeOK
  BY DEF TreeInv, Disks, Restoring, Tree!TypeOK, Tree!None
<1> QED BY <1>1, <1>2, <1>3

LEMMA SecretsTyped ==
  /\ NpmInv => Npm!TypeOK
  /\ AuthInv => Auth!TypeOK
<1>1. ASSUME NpmInv PROVE Npm!TypeOK
  <2>1. session \in Sessions /\ callers \in [Caller -> Callers]
    BY <1>1 DEF NpmInv
  <2>2. session.challenges \cup session.made \subseteq Npm!Challenge
    BY <2>1 DEF Sessions
  <2>3. \A p \in session.passwords : p.for \in Writing /\ p.of \in Npm!Challenge
    BY <2>1 DEF Sessions, Passwords
  <2>4. Callers \subseteq {Npm!Idle}
          \cup [doing : {"resolving"}, request : Writing]
          \cup [doing : {"notifying", "polling", "waiting", "settled"}, challenge : Npm!Challenge]
    BY DEF Callers
  <2> QED BY <2>1, <2>2, <2>3, <2>4 DEF Npm!TypeOK
<1>2. ASSUME AuthInv PROVE Auth!TypeOK
  <2>1. now \in Auth!Time /\ grant \in Grants
    BY <1>2 DEF AuthInv
  <2>2. [kid : Key, key : IssuerKey] \subseteq [kid : Key, key : Key]
    BY HostAssumptions DEF Auth!CredentialsAssumption
  <2>3. grant.keys \subseteq [kid : Key, key : IssuerKey] /\ grant.token \subseteq Auth!Token
    BY <2>1 DEF Grants
  <2> QED BY <2>1, <2>2, <2>3 DEF Grants, Auth!TypeOK
<1> QED BY <1>1, <1>2

LEMMA AppleTyped == ASSUME AppleInv, ProductsStored PROVE Apple!TypeOK
<1>1. journal \in Journals /\ apple \in Services /\ runner \in [Runner -> Runners]
  BY DEF AppleInv
<1> QED BY <1>1 DEF Journals, Services, Runners, ProductsStored, Apple!TypeOK

LEMMA JournalTyped ==
  /\ SharedInv => Shared!TypeOK
  /\ ObservingInv /\ ReportBounded => Bounded!TypeOK
<1>1. ASSUME SharedInv PROVE Shared!TypeOK
  BY <1>1 DEF SharedInv, Invoked, Shared!TypeOK
<1>2. ASSUME ObservingInv, ReportBounded PROVE Bounded!TypeOK
  <2>1. Budget + Late \in Nat /\ Len(history) \in Nat /\ sweep.report \in Nat
    BY <1>2, HostAssumptions DEF Bounded!ObservationAssumption, ObservingInv, Sweeps
  <2>2. time \in 0..(Budget + Late) /\ sweep.report \in 0..Len(history)
    BY <1>2, <2>1 DEF ObservingInv, ReportBounded
  <2>3. pushes \subseteq [rev : 0..Len(history), event : Observed]
    BY <1>2, <2>1 DEF ObservingInv, PushesKept
  <2> QED BY <1>2, <2>2, <2>3 DEF ObservingInv, Observed, Sweeps, Bounded!Event, Bounded!TypeOK
<1> QED BY <1>1, <1>2

LEMMA AtMostOneCounts ==
  ASSUME NEW S, \A one, other \in S : one = other
  PROVE  Self!Cardinality(S) \in Nat /\ Self!Cardinality(S) <= 1
<1>1. Self!Cardinality(S) = Cardinality(S)
  BY DEF Self!Cardinality, Cardinality
<1>2. CASE S = {}
  BY <1>1, <1>2, FS_EmptySet
<1>3. CASE S # {}
  <2>1. PICK one \in S : TRUE
    BY <1>3
  <2>2. S = {one}
    BY <2>1
  <2>3. Cardinality({one}) = 1
    BY FS_Singleton
  <2>4. Self!Cardinality(S) = 1
    BY <1>1, <2>2, <2>3
  <2> QED BY <2>4
<1> QED BY <1>2, <1>3

LEMMA SelfTyped == ASSUME SelfInv PROVE Self!TypeOK
<1>1. ASSUME NEW d \in Directory
      PROVE  directories[d].bundle \subseteq Self!Bundle /\ Self!Cardinality(directories[d].plan) <= 1
  <2>1. directories[d] \in Self!Files
    BY DEF SelfInv
  <2> QED BY <2>1, AtMostOneCounts DEF Self!Files, Self!AtMostOne
<1>2. author.phase \in {"idle", "retaining", "bundle", "plan", "prepared", "failed"}
  BY DEF SelfInv, AuthorKept, Authors
<1>3. \A key \in DOMAIN journals : Len(journals[key]) <= MaxReleased
  BY DEF SelfInv, JournalsKept
<1>4. ASSUME NEW r \in Run
      PROVE  runs[r].phase \in Self!Phases /\ Self!Cardinality(runs[r].plan) <= 1
  <2>1. RunKept(r)
    BY DEF SelfInv
  <2>2. Self!Idle.phase \in Self!Phases /\ Self!Idle.phase = "idle" /\ Self!Idle.plan = {}
    BY DEF Self!Idle, Self!Phases
  <2>3. runs[r] = Self!Idle \/ (runs[r] \in Invocations /\ runs[r].phase # "idle")
    BY <2>1 DEF RunKept, Invocations
  <2>4. runs[r].phase \in Self!Phases
    BY <2>2, <2>3 DEF Invocations
  <2>5. runs[r].plan = {} \/ runs[r].plan = {runs[r].input.selected.plan}
    BY <2>1, <2>2, <2>3 DEF RunKept, PlanKept
  <2>6. \A one, other \in runs[r].plan : one = other
    BY <2>5
  <2> QED BY <2>4, <2>6, AtMostOneCounts
<1>5. \A each \in opened : each.by \in Run
  BY DEF SelfInv, Handed
<1> QED BY <1>1, <1>2, <1>3, <1>4, <1>5 DEF Self!TypeOK

\* Each machine of a host keeps its invariant, whatever the other sides of it do.
THEOREM HostKept == Spec => []HostInv
<1>1. Init => HostInv
  BY HttpKept, NativeKept, NpmKept, AuthKept, TreeKept, AppleKept, SharedKept, ObservingKept,
     SelfKept DEF HostInv
<1>2. HostInv /\ [Next]_vars => HostInv'
  BY OneMachineSteps, HttpKept, NativeKept, NpmKept, AuthKept, TreeKept, AppleKept, SharedKept,
     ObservingKept, SelfKept DEF HostInv
<1> QED BY <1>1, <1>2, PTL DEF Spec

\* The state of each machine stays of its types.
THEOREM HostTyped == Spec => []TypeOK
<1>1. HostInv => TypeOK
  BY CallsTyped, SecretsTyped, AppleTyped, JournalTyped, SelfTyped DEF HostInv, TypeOK
<1> QED BY <1>1, HostKept, PTL

\* A response that is passed on and the output of a program that succeeded are whole and
\* within their bounds, and a call that is over leaves nothing behind, whatever the other
\* side does and whenever the call is interrupted (HttpTransport.ts, Process.ts).
THEOREM CallsAreClean == Spec => []CallsClean
<1>1. HostInv => CallsClean
  BY HttpSafe, NativeSafe DEF HostInv, CallsClean
<1> QED BY <1>1, HostKept, PTL

\* Credentials, identities and one-time passwords reach only what they are for, whatever is
\* asked, answered, interrupted or closed (the providers' Auth.ts, GithubOidc.ts,
\* LocalAuthentication.ts, HttpTransport.ts).
THEOREM SecretsAreKept == Spec => []SecretsKept
<1>1. HostInv => SecretsKept
  BY HttpSafe, AuthSafe, NpmSafe, SelfSafe DEF HostInv, SecretsKept
<1> QED BY <1>1, HostKept, PTL

\* However many restorers and runners there are, wherever they crash: a destination holds
\* one whole tree or nothing, an Apple source is submitted once and ships as the one output
\* selected, and a release publishes what was prepared (EffectBuild.ts, Preparation.ts).
THEOREM ProductsAreWhole == Spec => []ProductsWhole
<1>1. HostInv => ProductsWhole
  BY TreeSafe, AppleSafe, SelfSafe DEF HostInv, ProductsWhole
<1> QED BY <1>1, HostKept, PTL

\* For any number of processes, plans and configurations of one journal, at most one
\* publication plan is ever dispatched and some configuration still admits the journal
\* (Host.ts, Release.ts supersedePlan).
THEOREM OnePlanPublishes == Spec => []OnePublication
<1>1. HostInv => OnePublication
  BY SharedPublishesOne, SharedStaysAdmissible, SelfSafe DEF HostInv, OnePublication
<1> QED BY <1>1, HostKept, PTL

\* Whatever the budget and the delays, the report of a bounded observation has everything
\* that the call recorded, but for the one append that the deadline cut off, if it was applied
\* after the join; nothing is recorded twice; and a release succeeds only with its plan observed
\* (Application.ts observeApplication, GitJournal.ts append, self-release).
THEOREM ReportsAreTrue == Spec => []ReportTrue
<1>1. HostInv => ReportTrue
  BY ObservingSafe, SelfSafe DEF HostInv, ReportTrue
<1> QED BY <1>1, HostKept, PTL

=============================================================================
