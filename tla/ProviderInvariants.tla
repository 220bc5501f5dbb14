--------------------------- MODULE ProviderInvariants ---------------------------
(***************************************************************************)
(* What holds of each provider and its registry at every step, strong      *)
(* enough to be kept by each action.                                       *)
(***************************************************************************)
EXTENDS Providers, Sequences

None == "none"

-----------------------------------------------------------------------------
(* npm *)

\* None, or the one that was made.
Bundles == {{}} \cup {{b} : b \in Npm!Bundle}

Publishing ==
  [phase : {"authored", "asserted", "signed", "attested", "validated", "ready", "sending",
            "answered", "done", "refused"},
   intent : Npm!Intent, manifest : Npm!Manifest, native : BOOLEAN,
   bundle : Bundles, committed : BOOLEAN,
   response : {None, "ok", "otp", "unauthorized", "failed", "redirect", "lost"},
   outcome : {None, "Unknown", "RejectedBeforeCommit", "Accepted"}, receipts : Nat,
   seen : Npm!Contents,
   status : {None, "Satisfied", "Conflict", "Pending", "Absent", "Inconclusive"}]

\* A version, once there, has the same bytes in every later state of the registry.
VersionsKept ==
  /\ registry \in [now : Npm!Contents, past : SUBSET Npm!Contents, foreign : Nat]
  /\ registry.now \in registry.past
  /\ \A view \in registry.past : \A version \in Version :
       view.versions[version] # None =>
         view.versions[version] = registry.now.versions[version]

\* An acknowledged write took effect, one refused for want of a password never does.
AnswersKept ==
  /\ operation.committed => operation.phase \in {"sending", "answered", "done"}
  /\ operation.response # None => operation.phase \in {"answered", "done"}
  /\ operation.outcome # None => operation.phase = "done"
  /\ operation.response = "ok" => operation.committed
  /\ operation.response = "otp" => ~ operation.committed
  /\ operation.outcome = "Accepted" => operation.response = "ok"
  /\ operation.outcome = "RejectedBeforeCommit" => operation.response = "otp"

\* A bundle is checked against the intent before anything is made of it, and its signer
\* before it is sent.
ProvenanceKept ==
  /\ operation.phase \in {"authored", "asserted"} => operation.bundle = {}
  /\ operation.phase \in {"attested", "validated", "ready", "sending", "answered", "done"} =>
       \A b \in operation.bundle : Npm!Validated(b, operation.intent)
  /\ operation.phase \in {"ready", "sending", "answered", "done"} =>
       \A b \in operation.bundle : Npm!SignedBySource(b, operation.intent.provenance)

\* What an observation found was so in a state the registry was in.
SeenTrue ==
  LET intent == operation.intent  seen == operation.seen
  IN  /\ seen \in registry.past
      /\ operation.status = "Satisfied" =>
           /\ intent.kind = "publish" => seen.versions[intent.version] = intent.bytes
           /\ seen.tags[intent.tag] = intent.version
      /\ operation.status = "Absent" /\ intent.kind = "publish" =>
           seen.versions[intent.version] = None

NpmInv ==
  /\ operation \in Publishing
  /\ VersionsKept /\ AnswersKept /\ ProvenanceKept /\ SeenTrue

-----------------------------------------------------------------------------
(* PyPI *)

Uploading ==
  [phase : {"planned", "ready", "sending", "done", "refused"}, body : File \cup {None},
   committed : BOOLEAN, answer : {None, "ok", "error", "redirect", "lost"},
   outcome : {None, "Unknown", "Accepted"}]

IndexTyped ==
  index \in [now : [Filename -> PyPi!Listing], past : [Filename -> SUBSET PyPi!Listing],
            foreign : Nat]

\* What was sent is the form of the intent, and the name spells its coordinate.
FormsKept ==
  \A intent \in uploads : PyPi!Sent(intent) =>
    /\ pages[intent].body = intent.file
    /\ PyPi!Inspected(intent.filename, bundle[intent.file])
    /\ Spells[intent.filename] = intent.coordinate

PyPiInv ==
  /\ uploads \subseteq PyPi!UploadIntent /\ ~ PyPi!DuplicateDistribution(uploads)
  /\ bundle \in [{intent.file : intent \in uploads} -> PyPi!Archive]
  /\ pages \in [uploads -> Uploading]
  /\ IndexTyped /\ FormsKept /\ PyPi!OutcomesTrue /\ PyPi!ObservationsTrue

-----------------------------------------------------------------------------
(* MCP *)

Posting ==
  [manifest : Mcp!Manifest, authorization : Mcp!Authorization, body : SUBSET Mcp!Manifest,
   phase : {"planned", "ready", "sending", "done", "refused"}, stored : BOOLEAN,
   answer : {None, "ok", "lost", "error"}, outcome : {None, "Unknown", "Accepted"}]

\* The registry serves a version of a server once.
ServedOnce ==
  /\ servers \in [now : SUBSET Mcp!Entry, past : SUBSET Mcp!Entry, foreign : Nat]
  /\ \A one, other \in servers.now :
       Mcp!Key(one.manifest) = Mcp!Key(other.manifest) => one = other

\* What was stored is the manifest that was sent, and it is served for good.
StoredKept ==
  /\ publication.phase \in {"ready", "sending", "done"} =>
       publication.body = {publication.manifest}
  /\ publication.stored => \E entry \in servers.now : entry.manifest = publication.manifest
  /\ publication.outcome = "Accepted" => publication.stored

McpInv ==
  /\ publication \in Posting
  /\ ServedOnce /\ StoredKept /\ Mcp!ObservationsTrue

-----------------------------------------------------------------------------
(* GitHub *)

Refs == {None, "commit", GitHub!Other}
Releases ==
  [id : Nat, draft : BOOLEAN, own : BOOLEAN, assets : Seq(GitHub!AssetFacts)]
Worlds ==
  [object : BOOLEAN, ref : Refs, releases : SUBSET Releases, ids : Nat, foreign : Nat]

\* What is recorded of a release, of a draft of the plan's own, of any operation.
Described == [id : Nat, draft : BOOLEAN, own : BOOLEAN]
Drafts == {facts \in Described : facts.own}
Facts == [object : {"commit"}] \cup [ref : Refs] \cup Described \cup GitHub!AssetFacts

\* Releases have identities, which are not used again.
Identified(w) ==
  /\ w \in Worlds
  /\ \A one, other \in w.releases : one.id = other.id => one = other
  /\ \A r \in w.releases : r.id <= w.ids

WorldKept == Identified(world)

EvidenceKept ==
  /\ evidence \in [GitHub!Operation ->
                     [dispatched : BOOLEAN, receipts : SUBSET Facts, seen : SUBSET Facts]]
  /\ evidence["draft"].receipts \cup evidence["draft"].seen \subseteq Drafts

Stages == {"namespace", "object", "ref", "releases", "release", "assets", "downloads"}

ReadingTyped ==
  work \in [doing : {"reading"}, op : GitHub!Operation, purpose : {"send", "observe"},
            todo : Seq(Stages), parents : [GitHub!RequiredParents(plan, work.op) -> Facts],
            missing : BOOLEAN, object : BOOLEAN, ref : Refs, releases : SUBSET Described,
            release : SUBSET Described, page : Nat \ {0}, last : Nat,
            listed : Seq(GitHub!AssetFacts), downloaded : SUBSET GitHub!AssetFacts,
            span : SUBSET Worlds]

\* The release that an asset or a publication is bound to is the plan's.
ParentOwn == work.op \in Asset \cup {"publish"} => GitHub!Parent \in Drafts

\* What was read was so in a state of the span.
FactsTrue ==
  /\ world \in work.span
  /\ work.object => \E w \in work.span : w.object
  /\ work.ref # None => \E w \in work.span : w.ref = work.ref
  /\ \A facts \in work.releases :
       \E w \in work.span : \E r \in w.releases : facts = GitHub!ReleaseFacts(r)
  /\ \A facts \in work.release :
       /\ GitHub!Stable(facts) = GitHub!Stable(GitHub!Parent)
       /\ \E w \in work.span : \E r \in GitHub!ReleaseAt(w, GitHub!Parent.id) :
            facts = GitHub!ReleaseFacts(r)
  /\ \A i \in DOMAIN work.listed :
       \E w \in work.span : \E r \in GitHub!ReleaseAt(w, GitHub!Parent.id) :
         work.listed[i] \in GitHub!Files(r)

\* An object is told of when it was read, or found missing.
ObjectRead ==
  work.op = "object" =>
    /\ work.todo \in {<<>>, <<"object">>, <<"namespace", "object">>}
    /\ work.todo = <<>> /\ work.purpose = "observe" => work.object \/ work.missing

\* A publication reads its release, then the pages of its assets, then the rest.
ToDownload == <<"downloads", "ref">>
ToList == <<"assets", "downloads", "ref">>
ToFind == <<"release", "assets", "downloads", "ref">>
ToRead == <<"namespace", "release", "assets", "downloads", "ref">>
AfterListing == {<<>>, <<"ref">>, ToDownload}
PublicationReads ==
  work.op = "publish" => work.todo \in AfterListing \cup {ToList, ToFind, ToRead}

\* The pages read so far are the beginning of a listing that does not change: until a page
\* told the last one, the listing has one page at most or none was read.
Paging(assets) ==
  /\ Len(work.listed) = work.page - 1 /\ work.page <= Len(assets) + 1
  /\ \A i \in DOMAIN work.listed : work.listed[i] = assets[i]
  /\ work.last \in {0, Len(assets)}
  /\ work.last = 0 => work.page = 1 \/ Len(assets) <= 1

\* Left alone, what is read is the repository as it is, and the whole of its listing.
ReadAlone ==
  world.foreign = 0 =>
    /\ work.span = {world}
    /\ work.op = "publish" /\ ~ work.missing =>
         \A r \in GitHub!ReleaseAt(world, GitHub!Parent.id) :
           IF work.todo \in AfterListing THEN work.listed = r.assets
           ELSE Paging(r.assets)

ReadingKept ==
  /\ ReadingTyped /\ ParentOwn /\ FactsTrue /\ ObjectRead /\ PublicationReads /\ ReadAlone

\* Every asset of the plan, with its bytes, and no other.
Whole(r) ==
  /\ {a.name : a \in GitHub!Files(r)} = plan.assets
  /\ \A a \in GitHub!Files(r) : a.uploaded /\ a.bytes = a.name

\* What is sent was read to be open, or whole; left alone it still is.
SendingKept ==
  /\ work \in [doing : {"sending"}, op : GitHub!Operation,
               parents : [GitHub!RequiredParents(plan, work.op) -> Facts],
               span : SUBSET Worlds, effect : SUBSET Facts]
  /\ ParentOwn
  /\ work.op = "draft" => work.effect \subseteq Drafts
  /\ world.foreign = 0 /\ work.effect = {} /\ work.op \in Asset \cup {"publish"} =>
       \A r \in GitHub!ReleaseAt(world, GitHub!Parent.id) :
         /\ work.op \in Asset => r.draft
         /\ work.op = "publish" => Whole(r)

AnsweredKept ==
  /\ work \in [doing : {"answered"}, op : GitHub!Operation,
               answer : {"failed", "created", "different"}, effect : SUBSET Facts,
               span : SUBSET Worlds]
  /\ work.op = "draft" => work.effect \subseteq Drafts

GitHubInv ==
  /\ GitHub!ValidatePlan(plan) /\ plan \in GitHub!Plans
  /\ WorldKept /\ EvidenceKept
  /\ work.doing \in {"idle", "reading", "sending", "answered"}
  /\ work.doing = "reading" => ReadingKept
  /\ work.doing = "sending" => SendingKept
  /\ work.doing = "answered" => AnsweredKept
  /\ GitHub!ObservationsTrue /\ GitHub!DraftPublishedWhole

-----------------------------------------------------------------------------
\* Each provider keeps its invariant (the sources of the four provider modules).
ProviderInv ==
  /\ on \in {"npm", "github", "pypi", "mcp"}
  /\ on = "npm" => NpmInv
  /\ on = "github" => GitHubInv
  /\ on = "pypi" => PyPiInv
  /\ on = "mcp" => McpInv
=============================================================================
