---------------------------- MODULE GitHubProvider ----------------------------
(***************************************************************************)
(* The GitHub provider beside a repository: a plan creates a tag, a draft  *)
(* release at the tag, its assets, and publishes the draft.  Each          *)
(* operation is bound to what its parents recorded, checked by a preflight *)
(* of many reads, sent once, and read back page by page while others       *)
(* change the repository.  packages/github/src.                            *)
(*                                                                         *)
(* One repository and one tag; listings have one asset to a page.          *)
(***************************************************************************)
EXTENDS Naturals, FiniteSets, Sequences

CONSTANTS
  Asset,         \* the assets a plan may upload, each of bytes of its own
  TagSource,     \* where the tag of the plan comes from
  MaxOperations, \* bound: operations of a plan
  MaxForeign     \* bound: what others do to the repository

None == "none"
Other == "other"     \* bytes, a commit or a text that is not the plan's
Operation == {"object", "ref", "draft", "publish"} \cup Asset

GitHubAssumption ==
  /\ TagSource \subseteq {"lightweight", "annotated", "existing"}
  /\ IsFiniteSet(Asset) /\ {None, Other, "object", "ref", "draft", "publish"} \cap Asset = {}
  /\ MaxOperations \in Nat /\ MaxForeign \in Nat

VARIABLES world, plan, evidence, work
vars == <<world, plan, evidence, work>>

AssetFacts == [id : Nat, name : Asset \cup {Other}, bytes : Asset \cup {Other},
               uploaded : BOOLEAN, digest : BOOLEAN]

\* The assets of a release, which has them in the order of their ids.
Files(r) == {r.assets[i] : i \in DOMAIN r.assets}

-----------------------------------------------------------------------------
(* The plan *)

\* kindOf, requiredParents: what an operation is bound to.
RequiredParents(p, op) ==
  CASE op = "ref" -> IF p.tag = "annotated" THEN {"object"} ELSE {}
    [] op = "draft" -> IF p.tag = "existing" THEN {} ELSE {"ref"}
    [] op \in Asset -> {"draft"}
    [] op = "publish" -> {"draft"} \cup p.publishes
    [] OTHER -> {}

Selected(p) ==
  (IF p.tag = "annotated" THEN {"object"} ELSE {})
    \cup (IF p.tag = "existing" THEN {} ELSE {"ref"}) \cup {"draft", "publish"} \cup p.assets

\* Mutant: a release may be published with some of its assets.
ValidatePlanLoosely(p) == \A op \in Selected(p) : RequiredParents(p, op) \subseteq Selected(p)

\* validatePlan: every parent is in the plan, and a publication names all the assets.
ValidatePlan(p) ==
  /\ \A op \in Selected(p) : RequiredParents(p, op) \subseteq Selected(p)
  /\ p.publishes = p.assets

Plans == [tag : TagSource, assets : SUBSET Asset,
          publishes : SUBSET Asset]

Idle == [doing |-> "idle"]

\* An existing tag is there, at the plan's commit or at another.
Init ==
  /\ \E p \in Plans :
       ValidatePlan(p) /\ Cardinality(Selected(p)) <= MaxOperations /\ plan = p
  /\ \E ref \in {None, "commit", Other} :
       /\ plan.tag = "existing" => ref # None
       /\ world = [object |-> FALSE, ref |-> ref, releases |-> {}, ids |-> 0, foreign |-> 0]
  /\ evidence = [op \in Operation |->
       [dispatched |-> FALSE, receipts |-> {}, seen |-> {}]]
  /\ work = Idle

TypeOK ==
  /\ \A r \in world.releases : r.assets \in Seq(AssetFacts)
  /\ work.doing \in {"idle", "reading", "sending", "answered"}

-----------------------------------------------------------------------------
(* Binding an operation to its parents *)

\* What identifies a recorded fact whatever the release's draft state, or an asset's
\* digest, became since.
Stable(facts) ==
  IF "draft" \in DOMAIN facts THEN [facts EXCEPT !.draft = TRUE]
  ELSE IF "digest" \in DOMAIN facts THEN [facts EXCEPT !.digest = TRUE] ELSE facts

Candidates(op) == evidence[op].receipts \cup evidence[op].seen

\* selected refuses evidence of two different things.
Agreed(op) == \A f, g \in Candidates(op) : Stable(f) = Stable(g)
Known(op) == Candidates(op) # {}

\* A later response erases neither public exposure nor a known digest.
SelectedFacts(op) ==
  LET telling == {f \in Candidates(op) :
                    \/ "draft" \in DOMAIN f /\ ~ f.draft
                    \/ "digest" \in DOMAIN f /\ f.digest}
  IN  CHOOSE f \in (IF telling # {} THEN telling ELSE Candidates(op)) : TRUE

MissingParents(op) == {q \in RequiredParents(plan, op) : ~ Known(q)}
Bindable(op) == MissingParents(op) = {} /\ \A q \in RequiredParents(plan, op) : Agreed(q)

\* bindScope: an asset or a publication carries the release it is for.
Bound(op) ==
  [q \in RequiredParents(plan, op) |-> SelectedFacts(q)]

-----------------------------------------------------------------------------
(* Reading *)

ReleaseAt(w, id) == {r \in w.releases : r.id = id}
ReleaseFacts(r) == [id |-> r.id, draft |-> r.draft, own |-> r.own]

\* The reads of evidence, in order; an asset's preflight reads its release alone.
Route(op, purpose) ==
  IF purpose = "send" /\ op \in {"object", "ref"} THEN <<>>
  ELSE IF purpose = "send" /\ op \in Asset THEN <<"release">>
  ELSE CASE op = "object" -> <<"namespace", "object">>
         [] op = "ref" -> <<"namespace", "ref">>
         [] op = "draft" -> <<"namespace", "ref", "releases">>
         [] op \in Asset -> <<"namespace", "release", "assets", "downloads">>
         [] op = "publish" -> <<"namespace", "release", "assets", "downloads", "ref">>

\* span: the states the world was in since the reading began.
Reading(op, purpose) ==
  [doing |-> "reading", op |-> op, purpose |-> purpose, todo |-> Route(op, purpose),
   parents |-> Bound(op), missing |-> FALSE, object |-> FALSE, ref |-> None,
   releases |-> {}, release |-> {}, page |-> 1, last |-> 0, listed |-> <<>>,
   downloaded |-> {}, span |-> {world}]

\* The kernel's part: an operation is sent once, after a receipt or a satisfied
\* observation of each that it depends on.
Begin(op) ==
  /\ work.doing = "idle" /\ op \in Selected(plan) /\ ~ evidence[op].dispatched
  /\ Bindable(op)
  /\ work' = Reading(op, "send")
  /\ UNCHANGED <<world, plan, evidence>>

BeginObserve(op) ==
  /\ work.doing = "idle" /\ op \in Selected(plan) /\ Bindable(op) /\ evidence[op].seen = {}
  /\ work' = Reading(op, "observe")
  /\ UNCHANGED <<world, plan, evidence>>

Read(stage) == work.doing = "reading" /\ work.todo # <<>> /\ Head(work.todo) = stage
Found(fields) ==
  /\ work' = [fields EXCEPT !.todo = Tail(@)]
  /\ UNCHANGED <<world, plan, evidence>>
\* Nothing more is read when the release is not there.
Missing ==
  /\ work' = [work EXCEPT !.todo = <<>>, !.missing = TRUE]
  /\ UNCHANGED <<world, plan, evidence>>

Stop(status) ==
  /\ work' = IF work.purpose = "send" THEN Idle
             ELSE [doing |-> "idle", op |-> work.op, status |-> status]
  /\ UNCHANGED <<world, plan, evidence>>

\* A read that fails or is malformed: the observation is inconclusive, the send is not made.
ReadFails ==
  /\ work.doing = "reading" /\ work.todo # <<>>
  /\ Stop("Inconclusive")

ReadNamespace == Read("namespace") /\ Found(work)

ReadObject ==
  /\ Read("object")
  /\ IF world.object THEN Found([work EXCEPT !.object = TRUE]) ELSE Missing

\* The ref, then the chain of immutable tag objects to a commit.
ReadRef ==
  /\ Read("ref")
  /\ IF world.ref # None THEN Found([work EXCEPT !.ref = world.ref])
     ELSE IF work.op = "ref" THEN Missing ELSE Stop("Inconclusive")

\* Of the releases at this tag: two are ambiguous.
ReadReleases ==
  /\ Read("releases")
  /\ LET releases == {ReleaseFacts(r) : r \in world.releases}
     IN  IF Cardinality(releases) > 1 THEN Stop("Inconclusive")
         ELSE IF releases = {} /\ work.ref # "commit" THEN Stop("Inconclusive")
         ELSE IF releases = {} THEN Missing
         ELSE Found([work EXCEPT !.releases = releases])

Parent == work.parents["draft"]

\* The release of the draft, still the same but for being published.
ReadRelease ==
  /\ Read("release")
  /\ LET releases == {ReleaseFacts(r) : r \in ReleaseAt(world, Parent.id)}
     IN  IF releases = {} THEN IF work.purpose = "send" THEN Stop(None) ELSE Missing
         ELSE \E facts \in releases :
           IF Stable(facts) # Stable(Parent) THEN Stop("Inconclusive")
           ELSE Found([work EXCEPT !.release = {facts}])

\* list: the pages until the last that any of them named, or beyond a full page when
\* none did; a changing last is refused.
ReadAssets ==
  /\ Read("assets")
  /\ LET pages == {r.assets : r \in ReleaseAt(world, Parent.id)}
     IN  IF pages = {} THEN Stop("Inconclusive")
         ELSE \E listing \in pages :
           LET items == IF work.page <= Len(listing) THEN <<listing[work.page]>> ELSE <<>>
               last == IF work.page < Len(listing) THEN Len(listing) ELSE work.last
               more == work.page < last \/ (last = 0 /\ items # <<>>)
               read == [work EXCEPT !.listed = @ \o items, !.last = last, !.page = @ + 1]
           IN  IF work.last # 0 /\ last # work.last THEN Stop("Inconclusive")
               ELSE IF more THEN work' = read /\ UNCHANGED <<world, plan, evidence>>
               ELSE Found(read)

Undigested ==
  {work.listed[i] : i \in {j \in DOMAIN work.listed :
     work.listed[j].uploaded /\ ~ work.listed[j].digest /\ work.listed[j] \notin work.downloaded}}

\* An asset GitHub gives no digest of is downloaded, while it is there.
ReadDownloads ==
  /\ Read("downloads")
  /\ IF Undigested = {} THEN Found(work)
     ELSE \E a \in Undigested :
       IF \E r \in ReleaseAt(world, Parent.id) : a \in Files(r)
       THEN /\ work' = [work EXCEPT !.downloaded = @ \cup {a}]
            /\ UNCHANGED <<world, plan, evidence>>
       ELSE Stop("Inconclusive")

-----------------------------------------------------------------------------
(* Deciding *)

\* matches, for an asset: its name, bytes and state are the plan's; the bytes are known
\* by a digest, GitHub's or a download's, and the length alone otherwise.
Revealed(a) == a.digest \/ (work.doing = "reading" /\ a \in work.downloaded)
\* Mutant: the name alone.
AssetNamed(name, a) == a.name = name
AssetMatches(name, a) == a.name = name /\ a.uploaded /\ (Revealed(a) => a.bytes = name)

ListedNames == {work.listed[i].name : i \in DOMAIN work.listed}
ListedAs(name) == {work.listed[i] : i \in {j \in DOMAIN work.listed : work.listed[j].name = name}}

\* classifyAssets: exactly the recorded uploads, no more.
ClassifyAssets ==
  IF   \/ Len(work.listed) # Cardinality(plan.publishes)
       \/ \E i, j \in DOMAIN work.listed : i # j /\ work.listed[i].name = work.listed[j].name
       \/ \E name \in plan.publishes :
            ~ \E a \in ListedAs(name) :
                a.id = work.parents[name].id /\ AssetMatches(name, a) THEN "Conflict"
  ELSE IF \E i \in DOMAIN work.listed : ~ Revealed(work.listed[i]) THEN "Inconclusive"
  ELSE "Satisfied"

\* The facts an observation found, if any.
PresentFacts(op) ==
  IF work.missing THEN {}
  ELSE CASE op = "object" -> {[object |-> "commit"]}
         [] op = "ref" -> {[ref |-> work.ref]}
         [] op = "draft" -> work.releases
         [] op \in Asset -> ListedAs(op)
         [] op = "publish" -> work.release

Acknowledged(op) == evidence[op].receipts # {}

\* classifyObservation of one fact.
Classify(op, facts) ==
  IF op = "object" THEN "Satisfied"
  ELSE IF op = "ref" THEN IF facts.ref = "commit" THEN "Satisfied" ELSE "Conflict"
  ELSE IF op = "draft" THEN IF facts.own /\ work.ref = "commit" THEN "Satisfied" ELSE "Conflict"
  ELSE IF op \in Asset THEN
    IF ~ AssetMatches(op, facts) THEN "Conflict"
    ELSE IF Revealed(facts) THEN "Satisfied" ELSE "Inconclusive"
  ELSE IF work.ref # "commit" THEN "Conflict"
  ELSE IF ClassifyAssets # "Satisfied" THEN ClassifyAssets
  ELSE IF facts.draft THEN IF Acknowledged(op) THEN "Conflict" ELSE "Absent"
  ELSE "Satisfied"

\* What the effect of an operation is; told: the last satisfied observation, its span.
Observe ==
  /\ work.doing = "reading" /\ work.todo = <<>> /\ work.purpose = "observe"
  /\ LET op == work.op  found == PresentFacts(op)
     IN  IF found = {} THEN
                Stop(IF Acknowledged(op) THEN "Pending" ELSE "Absent")
         ELSE IF Cardinality(found) > 1 THEN Stop("Inconclusive")
         ELSE \E facts \in found :
                IF Classify(op, facts) = "Satisfied"
                THEN /\ evidence' = [evidence EXCEPT ![op].seen = @ \cup {facts}]
                     /\ work' = [doing |-> "idle", op |-> op, facts |-> facts, span |-> work.span]
                     /\ UNCHANGED <<world, plan>>
                ELSE Stop(Classify(op, facts))

\* preflight: no draft before the draft, an open one before an asset, and one with
\* exactly the recorded assets before the publication.
Preflighted ==
  LET op == work.op
  IN  /\ op = "draft" => work.missing
      /\ op \in Asset => \E facts \in work.release :
                            facts.draft /\ Stable(facts) = Stable(Parent) /\ Parent.draft
      /\ op = "publish" => /\ ~ work.missing /\ work.ref = "commit"
                           /\ \E facts \in work.release : facts.draft
                           /\ ClassifyAssets = "Satisfied"

Send ==
  /\ work.doing = "reading" /\ work.todo = <<>> /\ work.purpose = "send"
  /\ IF Preflighted
     THEN /\ evidence' = [evidence EXCEPT ![work.op].dispatched = TRUE]
          /\ work' = [doing |-> "sending", op |-> work.op, parents |-> work.parents,
                      span |-> work.span, effect |-> {}]
     ELSE work' = Idle /\ UNCHANGED evidence
  /\ UNCHANGED <<world, plan>>

-----------------------------------------------------------------------------
(* GitHub *)

Reach(w) == world' = w /\ UNCHANGED plan

\* A new asset, which may stay half uploaded; GitHub computes the digest of a whole one,
\* or does not.
Uploads(name, bytes) ==
  {a \in {[id |-> world.ids + 1, name |-> name, bytes |-> bytes, uploaded |-> u, digest |-> d] :
            u \in BOOLEAN, d \in BOOLEAN} : a.digest => a.uploaded}

WithRelease(old, new) ==
  [world EXCEPT !.releases = (@ \ {old}) \cup {new}, !.ids = @ + 1]

Without(s, i) == SubSeq(s, 1, i - 1) \o SubSeq(s, i + 1, Len(s))

\* What the request does to the repository, and the facts it is answered with.
Effects(op) ==
  CASE op = "object" -> {[w |-> [world EXCEPT !.object = TRUE], facts |-> [object |-> "commit"]]}
    [] op = "ref" -> IF world.ref # None THEN {}
                     ELSE {[w |-> [world EXCEPT !.ref = "commit"], facts |-> [ref |-> "commit"]]}
    [] op = "draft" ->
         LET r == [id |-> world.ids + 1, draft |-> TRUE, own |-> TRUE, assets |-> <<>>]
         IN  {[w |-> [world EXCEPT !.releases = @ \cup {r}, !.ids = @ + 1],
               facts |-> ReleaseFacts(r)]}
    [] op \in Asset ->
         UNION {{[w |-> WithRelease(r, [r EXCEPT !.assets = Append(@, a)]), facts |-> a] :
                   a \in Uploads(op, op)} :
                  r \in {q \in ReleaseAt(world, Parent.id) : ~ \E b \in Files(q) : b.name = op}}
    [] op = "publish" ->
         {[w |-> WithRelease(r, [r EXCEPT !.draft = FALSE]),
           facts |-> [ReleaseFacts(r) EXCEPT !.draft = FALSE]] : r \in ReleaseAt(world, Parent.id)}

Commit ==
  /\ work.doing = "sending" /\ work.effect = {}
  /\ \E e \in Effects(work.op) :
       /\ Reach(e.w)
       /\ work' = [work EXCEPT !.effect = {e.facts}]
  /\ UNCHANGED evidence

\* The whole acknowledgement, or an error, a loss or other facts.
Answer ==
  /\ work.doing = "sending"
  /\ \E answer \in {"failed"} \cup (IF work.effect = {} THEN {} ELSE {"created", "different"}) :
       work' = [doing |-> "answered", op |-> work.op, answer |-> answer, effect |-> work.effect,
                span |-> work.span]
  /\ UNCHANGED <<world, plan, evidence>>

\* receiptCorresponds: the facts of the exact intent, an asset whole.
Corresponds(op, facts) == op \in Asset => AssetMatches(op, facts)

Decode ==
  /\ work.doing = "answered"
  /\ evidence' = IF work.answer = "created" /\ \A f \in work.effect : Corresponds(work.op, f)
                 THEN [evidence EXCEPT ![work.op].receipts = @ \cup work.effect]
                 ELSE evidence
  /\ work' = Idle /\ UNCHANGED <<world, plan>>

\* Others at the repository: the tag moves, releases and assets come, change and go.
Foreign ==
  /\ world.foreign < MaxForeign
  /\ \E w \in {[world EXCEPT !.ref = c] : c \in {None, Other}}
          \cup {[world EXCEPT !.ids = @ + 1, !.releases = @ \cup
                   {[id |-> world.ids + 1, draft |-> TRUE, own |-> FALSE, assets |-> <<>>]}]}
          \cup (UNION {{WithRelease(r, [r EXCEPT !.draft = FALSE]),
                        WithRelease(r, [r EXCEPT !.own = FALSE]),
                        [world EXCEPT !.releases = @ \ {r}]} : r \in world.releases})
          \cup (UNION {{WithRelease(r, [r EXCEPT !.assets = Append(@, a)]) :
                          a \in UNION {Uploads(n, Other) :
                            n \in (Asset \cup {Other}) \ {b.name : b \in Files(r)}}} :
                         r \in world.releases})
          \cup (UNION {{WithRelease(r, [r EXCEPT !.assets = Without(@, i)]) : i \in DOMAIN r.assets} :
                         r \in world.releases}) :
       LET next == [w EXCEPT !.foreign = @ + 1]
       IN  /\ Reach(next)
           /\ work' = IF work.doing = "reading" THEN [work EXCEPT !.span = @ \cup {next}]
                      ELSE work
  /\ UNCHANGED evidence

Next ==
  \/ \E op \in Operation : Begin(op) \/ BeginObserve(op)
  \/ ReadNamespace \/ ReadObject \/ ReadRef \/ ReadReleases \/ ReadRelease
  \/ ReadAssets \/ ReadDownloads \/ ReadFails
  \/ Observe \/ Send \/ Commit \/ Answer \/ Decode
  \/ Foreign

Spec == Init /\ [][Next]_vars

-----------------------------------------------------------------------------
(* Properties *)

Holds(w, id, name) ==
  \E r \in ReleaseAt(w, id) : \E a \in Files(r) : a.name = name /\ a.bytes = name /\ a.uploaded

\* What an operation is for, in a state of the repository.
Effective(w, op, facts) ==
  CASE op = "object" -> w.object
    [] op = "ref" -> w.ref = "commit"
    [] op = "draft" -> \E r \in ReleaseAt(w, facts.id) : r.own
    [] op = "publish" -> \E r \in ReleaseAt(w, facts.id) : r.own /\ ~ r.draft
    [] OTHER -> \E r \in w.releases : facts \in Files(r) /\ facts.bytes = op

\* A satisfied observation was true of the repository while it was being read; of a
\* publication, every asset was there and the tag led to the commit.
ObservationsTrue ==
  "span" \in DOMAIN work /\ work.doing = "idle" =>
    /\ \E w \in work.span : Effective(w, work.op, work.facts)
    /\ work.op = "publish" =>
         /\ \A name \in plan.assets : \E w \in work.span : Holds(w, work.facts.id, name)
         /\ \E w \in work.span : w.ref = "commit"

\* A publication is sent only when, as its preflight read them, every asset of the
\* plan was in the release; left alone, what is published is the whole plan.
DraftPublishedWhole ==
  /\ work.doing = "sending" /\ work.op = "publish" =>
       \A name \in plan.assets : \E w \in work.span : Holds(w, Parent.id, name)
  /\ world.foreign = 0 => \A r \in world.releases : ~ r.draft =>
       /\ {a.name : a \in Files(r)} = plan.assets
       /\ \A a \in Files(r) : a.uploaded /\ a.bytes = a.name

=============================================================================
