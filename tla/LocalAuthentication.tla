------------------------- MODULE LocalAuthentication -------------------------
(***************************************************************************)
(* The local npm session: a publish that npm answers by 401 leaves a       *)
(* browser challenge, completing it leaves a one-time password for that    *)
(* exact request, and the next resolution of credentials spends it.        *)
(* packages/npm/src/LocalAuthentication.ts.                                *)
(*                                                                         *)
(* Captures, completions, resolutions and the end of the session           *)
(* interleave: each keeps what it read while it awaits npm or the user.    *)
(***************************************************************************)
EXTENDS Naturals, FiniteSets

CONSTANTS
  Request,         \* the exact writes of this session's authorization
  Operation, OperationOf,
  Caller,          \* the fibers that complete and resolve
  MaxChallenges,   \* how many challenges are kept
  Serial           \* bound: names for the challenges npm makes

LocalAssumption ==
  /\ OperationOf \in [Request -> Operation]
  /\ MaxChallenges \in Nat /\ Serial \subseteq Nat /\ IsFiniteSet(Serial)

VARIABLES session, callers
vars == <<session, callers>>

Challenge == [request : Request, serial : Serial]
Idle == [doing |-> "idle"]

\* readable: the challenges whose URLs, and the passwords, not wiped yet.
Init ==
  /\ session = [closed |-> FALSE, challenges |-> {}, passwords |-> {}, made |-> {},
                readable |-> {}, sent |-> {}]
  /\ callers = [c \in Caller |-> Idle]

TypeOK ==
  /\ session.challenges \cup session.made \subseteq Challenge
  /\ \A p \in session.passwords : p.for \in Request /\ p.of \in Challenge
  /\ callers \in [Caller -> {Idle}
       \cup [doing : {"resolving"}, request : Request]
       \cup [doing : {"notifying", "polling", "waiting", "settled"}, challenge : Challenge]]

-----------------------------------------------------------------------------
(* What npm answers a publish: the challenge of exactly that request *)

Of(kept, request) == {c \in kept : c.request = request}

\* Mutant: passwords are kept by operation, whatever the bytes sent.
PasswordsForOperation(request) ==
  {p \in session.passwords : OperationOf[p.for] = OperationOf[request]}

\* The key of a password is the whole binding of the write.
PasswordsFor(request) == {p \in session.passwords : p.for = request}

\* capture: a fresh challenge replaces the one of the same write, and its password.
Capture(request, serial) ==
  LET fresh == [request |-> request, serial |-> serial]
      previous == Of(session.challenges, request)
      full == Cardinality(session.challenges) >= MaxChallenges /\ previous = {}
  IN  /\ ~ \E c \in session.made : c.serial = serial
      /\ UNCHANGED callers
      /\ session' =
           IF session.closed THEN [session EXCEPT !.made = @ \cup {fresh}]
           ELSE [session EXCEPT
             !.made = @ \cup {fresh},
             !.passwords = @ \ PasswordsFor(request),
             !.readable = ((@ \ previous) \ PasswordsFor(request))
                            \cup (IF full THEN {} ELSE {fresh}),
             !.challenges = (@ \ previous) \cup (IF full THEN {} ELSE {fresh})]

\* Another authorization's challenge is erased and nothing is kept.
CaptureForeign == ~ session.closed /\ UNCHANGED vars

-----------------------------------------------------------------------------
(* complete: the user answers the challenge, npm gives a password *)

Doing(c, what) == callers' = [callers EXCEPT ![c] = what]

CompleteBegin(c, operation) ==
  /\ callers[c] = Idle /\ ~ session.closed
  /\ \E challenge \in {k \in session.challenges : OperationOf[k.request] = operation} :
       /\ session' = [session EXCEPT !.challenges = @ \ {challenge}]
       /\ Doing(c, [doing |-> "notifying", challenge |-> challenge])

\* Whatever ends a completion erases its challenge.
Settle(c, challenge, kept) ==
  /\ session' = [kept EXCEPT !.readable = @ \ {challenge}]
  /\ Doing(c, Idle)

Notify(c) ==
  /\ callers[c].doing = "notifying"
  /\ \/ /\ ~ session.closed
        /\ Doing(c, [callers[c] EXCEPT !.doing = "polling"])
        /\ UNCHANGED session
     \/ Settle(c, callers[c].challenge, session)

\* Mutant: the end of the session is not looked at again.
AlwaysStorable == TRUE

\* The session may have ended while npm answered.
Storable == ~ session.closed

\* 200: the password is kept for the request, in the place of an earlier one.
PollAnswered(c) ==
  /\ callers[c].doing = "polling"
  /\ LET challenge == callers[c].challenge
         password == [for |-> challenge.request, of |-> challenge]
         earlier == PasswordsFor(challenge.request)
     IN  \/ /\ Storable
            /\ Settle(c, challenge,
                 [session EXCEPT !.passwords = (@ \ earlier) \cup {password},
                                 !.readable = (@ \ earlier) \cup {password}])
         \/ ~ Storable /\ Settle(c, challenge, session)

\* 202: the user has not answered yet.
PollPending(c) ==
  /\ callers[c].doing = "polling"
  /\ Doing(c, [callers[c] EXCEPT !.doing = "waiting"])
  /\ UNCHANGED session

PollAgain(c) ==
  /\ callers[c].doing = "waiting" /\ ~ session.closed
  /\ Doing(c, [callers[c] EXCEPT !.doing = "polling"])
  /\ UNCHANGED session

\* Another answer, the deadline or an interruption; a poll after the end has no token.
CompleteFails(c) ==
  /\ callers[c].doing \in {"notifying", "polling", "waiting"}
  /\ Settle(c, callers[c].challenge, session)

-----------------------------------------------------------------------------
(* credentials: a read needs nothing, a write the token and its password *)

ResolveBegin(c, request) ==
  /\ callers[c] = Idle /\ ~ session.closed
  /\ Doing(c, [doing |-> "resolving", request |-> request])
  /\ UNCHANGED session

\* The password is taken and wiped as it is written into the headers.
ResolveEnd(c) ==
  /\ callers[c].doing = "resolving"
  /\ LET request == callers[c].request
     IN  session' = [session EXCEPT
           !.passwords = @ \ PasswordsFor(request),
           !.readable = @ \ PasswordsFor(request),
           !.sent = @ \cup
             {[request |-> request, of |-> p.of, again |-> \E s \in session.sent : s.of = p.of] :
                p \in PasswordsFor(request)}]
  /\ Doing(c, Idle)

\* The scope ends: everything the session holds is wiped.
Close ==
  /\ ~ session.closed
  /\ session' = [session EXCEPT !.closed = TRUE, !.challenges = {}, !.passwords = {},
                   !.readable = (@ \ session.challenges) \ session.passwords]
  /\ UNCHANGED callers

Next ==
  \/ \E request \in Request, serial \in Serial : Capture(request, serial)
  \/ CaptureForeign
  \/ \E c \in Caller :
       \/ \E operation \in Operation : CompleteBegin(c, operation)
       \/ Notify(c)
       \/ PollAnswered(c)
       \/ PollPending(c)
       \/ PollAgain(c)
       \/ CompleteFails(c)
       \/ \E request \in Request : ResolveBegin(c, request)
       \/ ResolveEnd(c)
  \/ Close

Spec == Init /\ [][Next]_vars

-----------------------------------------------------------------------------
(* Properties *)

\* A password leaves once, for the request whose challenge it answers.
PasswordsSpentOnce ==
  \A s \in session.sent : s.of.request = s.request /\ ~ s.again

\* What can still be read is held by the maps or by a completion in flight; after
\* the end, by a completion alone.
SecretsErased ==
  /\ session.closed => session.challenges = {} /\ session.passwords = {}
  /\ session.readable = session.challenges \cup session.passwords
       \cup {callers[c].challenge : c \in {d \in Caller : callers[d].doing \in
               {"notifying", "polling", "waiting"}}}
=============================================================================
