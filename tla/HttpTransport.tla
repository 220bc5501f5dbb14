----------------------------- MODULE HttpTransport -----------------------------
(***************************************************************************)
(* One HTTP call of the host: a request is admitted, given the credentials *)
(* of its authority, and sent over a connection of its own, whose          *)
(* callbacks race the deadline, the byte bounds and an interruption.       *)
(* packages/ts-release/src/platform/HttpTransport.ts with Http.ts.         *)
(*                                                                         *)
(* Lengths are counted in chunks.  A response is framed: the parser tells  *)
(* its end from the loss of the connection.                                *)
(***************************************************************************)
EXTENDS Naturals, FiniteSets

CONSTANTS
  Endpoint, Principal,
  Secure,          \* the endpoints reached by TLS
  Durable, Live,   \* headers of the journaled request, headers of a credential
  Registered,      \* the credentials of each registered authority
  Provider, Owns,  \* the requests each provider answers for
  MaxResponse, MaxWire

Authority == [endpoint : Endpoint, principal : Principal]
Facts == [kind : {"send", "read", "exchange"}, endpoint : Endpoint,
          principal : Principal, headers : SUBSET Durable]

HttpAssumption ==
  /\ Secure \subseteq Endpoint /\ Durable \cap Live = {}
  /\ \E S \in SUBSET Authority : Registered \in [S -> SUBSET (Durable \cup Live)]
  /\ Owns \in [Provider -> SUBSET Facts] /\ IsFiniteSet(Provider)
  /\ MaxResponse \in Nat /\ MaxWire \in Nat

VARIABLE call

\* What a call is before anything happened: the defaults of nativeRequest's locals.
NewCall(facts) ==
  [phase |-> "new", facts |-> facts, fields |-> {}, finished |-> FALSE, timer |-> FALSE,
   client |-> "none", socket |-> "none", final |-> FALSE, body |-> 0, wire |-> 0,
   server |-> 0, over |-> FALSE, result |-> "none", told |-> {}]

Init == \E facts \in Facts : call = NewCall(facts)

TypeOK ==
  /\ call.phase \in {"new", "admitted", "prepared", "waiting", "closing", "returned", "refused"}
  /\ call.socket \in {"none", "pending", "open", "closing", "closed"}
  /\ call.result \in {"none", "unknown", "interrupted", "whole"}
  /\ call.told \subseteq Endpoint \X (Durable \cup Live)

-----------------------------------------------------------------------------
(* Admission and credentials *)

Refuse == call' = [call EXCEPT !.phase = "refused"]

OwnersOf(facts) == {p \in Provider : facts \in Owns[p]}

\* Exactly one provider answers for a request that is sent; a read is nobody's.
Admissible(facts) ==
  CASE facts.kind = "send" -> Cardinality(OwnersOf(facts)) = 1
    [] facts.kind = "read" -> TRUE
    [] facts.kind = "exchange" -> facts.endpoint \in Secure

Admit ==
  /\ call.phase = "new"
  /\ IF Admissible(call.facts) THEN call' = [call EXCEPT !.phase = "admitted"] ELSE Refuse

AuthorityOf(facts) == [endpoint |-> facts.endpoint, principal |-> facts.principal]

\* Mutant: credentials are kept by principal alone.
AnyEndpoint(facts) ==
  {Registered[a] : a \in {b \in DOMAIN Registered : b.principal = facts.principal}}

\* makeCredentialResolver: the credentials of exactly this authority, if registered.
Resolved(facts) ==
  {Registered[a] : a \in {b \in DOMAIN Registered : b = AuthorityOf(facts)}}

\* authorize: live headers only over TLS, and none in the place of a durable one.
Authorized(facts, live) ==
  /\ live # {} => facts.endpoint \in Secure
  /\ live \cap facts.headers = {}

\* An exchange carries what its caller resolved.
Authorize ==
  /\ call.phase = "admitted"
  /\ \/ \E live \in (IF call.facts.kind = "exchange" THEN {Live} ELSE Resolved(call.facts)) :
          /\ Authorized(call.facts, live)
          /\ call' = [call EXCEPT !.phase = "prepared", !.fields = call.facts.headers \cup live]
     \/ Refuse

-----------------------------------------------------------------------------
(* The native request *)

\* sendPrepared: only the request that was prepared.  The client is made, the timer
\* set, and the connector called, unless one of them throws.
SendPrepared(actual) ==
  /\ call.phase = "prepared"
  /\ IF actual # call.facts THEN Refuse
     ELSE \/ call' = [call EXCEPT !.phase = "waiting", !.timer = TRUE, !.client = "open",
                                  !.socket = "pending"]
          \/ \E client \in {"none", "open"} :
               call' = [call EXCEPT !.phase = "waiting", !.timer = TRUE, !.client = client,
                                    !.finished = TRUE, !.result = "unknown"]

\* The first result is the call's.
Complete(c, result) ==
  IF c.finished THEN c ELSE [c EXCEPT !.finished = TRUE, !.result = result]
Failed(c) == Complete(c, "unknown")

Ongoing == call.phase \in {"waiting", "closing"}

\* The connector's callback: the request leaves, unless the call is over.
Connected ==
  /\ Ongoing /\ call.socket = "pending"
  /\ IF call.finished
     THEN call' = [call EXCEPT !.socket = "closing"]
     ELSE \E length \in 0 .. (MaxResponse + 1) :
            call' = [call EXCEPT !.socket = "open", !.server = length,
                       !.told = {call.facts.endpoint} \X call.fields]

\* count, registered before the parser: every byte is one of the response.
Counted(c) ==
  LET counted == [c EXCEPT !.wire = c.wire + 1]
  IN  IF counted.wire > MaxWire THEN Failed(counted) ELSE counted

Arriving == Ongoing /\ call.socket = "open" /\ ~call.over

\* Interim responses, trailers and framing are counted and discarded.
Framing == Arriving /\ call.wire <= MaxWire /\ call' = Counted(call)

\* onResponseStart: the final status, unless a header that must be single is not.
ResponseStart(ambiguous) ==
  /\ Arriving /\ ~call.final
  /\ LET c == [Counted(call) EXCEPT !.final = TRUE]
     IN  call' = IF ambiguous THEN Failed(c) ELSE c

\* Mutant: the bound is checked before the chunk is added.
LateBound(length) == length > MaxResponse + 1

TooLong(length) == length > MaxResponse

ResponseData ==
  /\ Arriving /\ call.final /\ call.server > 0
  /\ LET c == [Counted(call) EXCEPT !.server = call.server - 1]
         longer == c.body + 1
     IN  call' = CASE c.finished -> c
                   [] ~c.finished /\ TooLong(longer) -> Failed([c EXCEPT !.body = longer])
                   [] OTHER -> [c EXCEPT !.body = longer]

\* onResponseEnd: the parser saw the end of the framed response.
ResponseEnd ==
  /\ Arriving /\ call.final /\ call.server = 0
  /\ call' = Complete([call EXCEPT !.over = TRUE], "whole")

\* onResponseError, or an upgrade: the connection is lost or the bytes are no HTTP.
ConnectionLost ==
  /\ Ongoing /\ call.socket \in {"pending", "open"}
  /\ call' = [Failed(call) EXCEPT !.socket = "closed"]

Deadline == call.timer /\ call' = Failed([call EXCEPT !.timer = FALSE])

\* Mutant: the pending socket is left to the client.
OnlyClient(c) == [c EXCEPT !.client = "destroyed"]

\* Shutdown of both the connection and the client is asked for.
Destroyed(c) ==
  [c EXCEPT !.socket = IF c.socket \in {"pending", "open"} THEN "closing" ELSE c.socket,
            !.client = "destroyed"]

\* The fiber resumes with the result, or is interrupted: cleanup runs either way.
Cleanup(interrupted) ==
  /\ call.phase = "waiting" /\ (interrupted \/ call.result # "none")
  /\ call' = [Destroyed(call) EXCEPT
                !.phase = "closing", !.finished = TRUE, !.timer = FALSE,
                !.result = IF interrupted THEN "interrupted" ELSE call.result]

SocketCloses == call.socket = "closing" /\ call' = [call EXCEPT !.socket = "closed"]

\* Mutant: cleanup does not join the socket.
Unjoined(c) == TRUE

\* cleanup joins the close of the socket it destroyed.
Joined(c) == c.socket \in {"none", "closed"}

\* A shutdown that fails is the call's failure.
Return(clean) ==
  /\ call.phase = "closing" /\ Joined(call)
  /\ call' = [call EXCEPT !.phase = "returned",
                          !.result = IF clean THEN call.result ELSE "unknown"]

-----------------------------------------------------------------------------
Next ==
  \/ Admit \/ Authorize
  \/ \E actual \in Facts : SendPrepared(actual)
  \/ Connected \/ Framing \/ ResponseData \/ ResponseEnd \/ ConnectionLost
  \/ \E ambiguous \in BOOLEAN : ResponseStart(ambiguous)
  \/ Deadline \/ SocketCloses
  \/ \E interrupted \in BOOLEAN : Cleanup(interrupted)
  \/ \E clean \in BOOLEAN : Return(clean)

\* Timers fire, resumed fibers run, and destroyed sockets close.
Fairness ==
  /\ WF_call(Deadline) /\ WF_call(SocketCloses)
  /\ WF_call(Cleanup(FALSE)) /\ WF_call(\E clean \in BOOLEAN : Return(clean))

Spec == Init /\ [][Next]_call /\ Fairness

-----------------------------------------------------------------------------
\* A response is passed on only when all of it arrived: the final status and every
\* chunk the server sent, within both bounds.
ResponsesWhole ==
  call.phase = "returned" /\ call.result = "whole" =>
    call.over /\ call.final /\ call.server = 0
      /\ call.body <= MaxResponse /\ call.wire <= MaxWire

\* A call that returned has no socket, no client and no timer left, however the
\* deadline, the connection and an interruption met.
NothingLeft ==
  call.phase = "returned" =>
    call.socket \in {"none", "closed"} /\ call.client = "destroyed" /\ ~call.timer

\* A credential leaves only by TLS, to the endpoint and for the principal it is
\* registered for, in a request one provider answers for.
CredentialsBound ==
  \A pair \in call.told :
    pair[2] \in Live =>
      /\ pair[1] \in Secure
      /\ \/ call.facts.kind = "exchange"
         \/ \E a \in DOMAIN Registered :
              /\ a = [endpoint |-> pair[1], principal |-> call.facts.principal]
              /\ pair[2] \in Registered[a]
      /\ call.facts.kind = "send" => \E p \in Provider : OwnersOf(call.facts) = {p}

\* Every call that was sent returns.
CallEnds == call.phase = "waiting" ~> call.phase = "returned"
=============================================================================
