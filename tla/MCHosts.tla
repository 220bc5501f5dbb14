-------------------------------- MODULE MCHosts --------------------------------
(* An instance of module Hosts, and of its invariants, for TLC. *)
EXTENDS HostInvariants, TLC

Facts == [kind : {"send", "read", "exchange"}, endpoint : {"e1", "e2"},
          principal : {"q1", "q2"}, headers : SUBSET {"durable"}]

\* One secret for each principal of the endpoint by TLS, but for q2 by the name of a
\* durable header; e2, without TLS, has one too.
Secrets ==
  [a \in {[endpoint |-> "e1", principal |-> "q1"], [endpoint |-> "e1", principal |-> "q2"],
          [endpoint |-> "e2", principal |-> "q1"]} |->
     IF a.endpoint = "e2" THEN {"s2"} ELSE IF a.principal = "q1" THEN {"s1"} ELSE {"durable"}]

\* g1 answers for one authority, g2 for the other endpoint and whatever has no header.
Owned ==
  [p \in {"g1", "g2"} |->
     IF p = "g1" THEN {f \in Facts : f.endpoint = "e1" /\ f.principal = "q1"}
     ELSE {f \in Facts : f.endpoint = "e2" \/ f.headers = {}}]

\* Two writes of one operation, and one of another.
Writes == [r \in {"r1", "r2", "r3"} |-> IF r = "r3" THEN "o2" ELSE "o1"]

\* What a host may be configured with: one publication, with or without the other as a
\* plan superseded before, both at once, or one side of the release alone.
Context(publications, preparations, prior) ==
  [publications |-> publications, preparations |-> preparations, prior |-> prior]
Configurations ==
  {Context({"u"}, {"x"}, {}), Context({"v"}, {"x"}, {}), Context({"v"}, {"x"}, {"u"}),
   Context({"u"}, {"x"}, {"v"}), Context({"u", "v"}, {"x"}, {}),
   Context({}, {"x"}, {}), Context({"v"}, {}, {"u"})}

TwoOperations == <<"a", "b">>

Lower == "Acme" :> "acme" @@ "acme" :> "acme"

\* Two candidates of one version: one of a token, one of another commit, spelling and identity.
Made(spelling, commit) == [repository |-> spelling, commit |-> commit, version |-> "v1"]
Bundle1 == [source |-> Made("Acme", "c1"), notes |-> "n1"]
Bundle2 == [source |-> Made("acme", "c2"), notes |-> "n2"]
PlanFor(bundle, version, draft) ==
  [bundle |-> bundle, journal |-> [repository |-> "acme", version |-> version],
   publications |-> {[name |-> "core", version |-> "v1", principal |-> "npm-publisher",
                      authorization |-> IF bundle = Bundle1 THEN "Token" ELSE "Trusted",
                      provenance |-> IF bundle = Bundle1 THEN "none" ELSE "c2"]},
   tags |-> {[version |-> "v1", commit |-> bundle.source.commit]}, drafts |-> {draft},
   repository |-> bundle.source.repository]
Plan1 == PlanFor(Bundle1, "v1", "n1")
Plan2 == PlanFor(Bundle2, "v1", "n2")

\* Not what a preparation makes: another version's journal, other notes.
OtherJournal == PlanFor(Bundle1, "v2", "n1")
OtherNotes == PlanFor(Bundle1, "v1", "n2")

Whole(plan) ==
  [made |-> TRUE, bundle |-> {plan.bundle}, plan |-> {plan}, content |-> {plan.bundle}]

Asks(task, authorize, mode, directory, plan, remote, prior) ==
  [task |-> task, authorize |-> authorize, mode |-> mode, directory |-> directory,
   selected |-> [bundle |-> plan.bundle, plan |-> plan], remote |-> remote,
   prior |-> {[bundle |-> past.bundle, plan |-> past] : past \in prior}, before |-> "d1"]

\* An archive of the other version does not belong to the release.
Requests ==
  {[source |-> Bundle2.source, notes |-> "n2", authorization |-> "Trusted", provenance |-> TRUE,
    archives |-> {[name |-> "core", version |-> v]}] : v \in {"v1", "v2"}}

Plans == {Plan1, Plan2, OtherJournal, OtherNotes}

Held ==
  {[d \in {"d1", "d2"} |-> IF d = "d1" THEN Whole(plan)
      ELSE IF plan = Plan1 THEN Whole(Plan2)
      ELSE [made |-> FALSE, bundle |-> {}, plan |-> {}, content |-> {}]] :
   plan \in {Plan1, OtherNotes}}
Others == {Whole(OtherJournal), Whole(Plan2)}

Inputs ==
  [r \in {"r1", "r2"} |->
    IF r = "r1"
    THEN {Asks("run", TRUE, "Token", "d1", Plan1, "file", {}),
          Asks("run", TRUE, "Local", "d1", Plan1, "github", {}),
          Asks("run", FALSE, "Local", "d1", Plan1, "github", {}),
          Asks("run", TRUE, "Token", "d1", OtherNotes, "file", {}),
          Asks("supersede", FALSE, "Token", "d1", Plan1, "file", {})}
    ELSE {Asks("observe", TRUE, "Token", "d1", Plan1, "file", {}),
          Asks("run", TRUE, "Token", "d1", OtherJournal, "file", {}),
          Asks("run", TRUE, "Trusted", "d2", Plan2, "file", {}),
          Asks("run", TRUE, "Trusted", "d2", Plan2, "file", {Plan1}),
          Asks("run", TRUE, "Token", "d1", Plan1, "elsewhere", {})}]

Signals == [r \in {"r1", "r2"} |-> IF r = "r2" THEN {130, 143} ELSE {}]
=============================================================================
