----------------------------- MODULE NpmProvider -----------------------------
(***************************************************************************)
(* The npm provider beside the registry: a package version is published    *)
(* with its tag by one PUT, or a tag is moved; the provider signs and      *)
(* verifies provenance, admits the exact body, decodes what the registry   *)
(* answers, and classifies what it reads back.  packages/npm/src.          *)
(*                                                                         *)
(* A version is immutable, tags move, reads are served from any state the  *)
(* registry was in, and other publishers act between any two steps.        *)
(***************************************************************************)
EXTENDS Naturals

CONSTANTS
  Version, Tag, Bytes,   \* versions of the package, its tags, tarballs
  Source,                \* workflow runs that may have built it
  Prerelease,            \* versions that may not become "latest"
  MaxForeign             \* bound: what others do at the registry

None == "none"
NpmAssumption ==
  /\ Prerelease \subseteq Version /\ "latest" \in Tag /\ MaxForeign \in Nat
  /\ {None, "Absent", "Unavailable", "DifferentPackage"} \cap (Bytes \cup Version) = {}

VARIABLES registry, operation
vars == <<registry, operation>>

Contents == [versions : [Version -> Bytes \cup {None}], tags : [Tag -> Version \cup {None}]]

\* What the tarball's own package.json says, and what Sigstore made of a statement.
Manifest == [name : {"own", "other"}, private : BOOLEAN, config : {"agrees", "differs"}]
Bundle == [of : Bytes, source : Source, signer : Source, logged : BOOLEAN]

Intent == [kind : {"publish", "dist-tag"}, version : Version, tag : Tag, bytes : Bytes,
           trusted : Source \cup {None}, provenance : Source \cup {None}]

\* publishCodec: no prerelease as latest; a trusted publisher brings the provenance of
\* its own workflow.
WellFormed(intent) ==
  /\ intent.kind = "publish" =>
       /\ ~ (intent.version \in Prerelease /\ intent.tag = "latest")
       /\ intent.trusted # None => intent.provenance = intent.trusted
  /\ intent.kind = "dist-tag" => intent.provenance = None

Empty == [versions |-> [v \in Version |-> None], tags |-> [t \in Tag |-> None]]

Init ==
  /\ registry = [now |-> Empty, past |-> {Empty}, foreign |-> 0]
  /\ \E intent \in Intent, manifest \in Manifest :
       /\ WellFormed(intent)
       /\ operation = [phase |-> "authored", intent |-> intent, manifest |-> manifest,
                       native |-> FALSE, bundle |-> {}, committed |-> FALSE,
                       response |-> None, outcome |-> None, receipts |-> 0,
                       seen |-> Empty, status |-> None]

TypeOK ==
  /\ registry.now \in Contents /\ registry.past \subseteq Contents
  /\ operation.intent \in Intent /\ operation.bundle \subseteq Bundle
  /\ operation.phase \in {"authored", "asserted", "signed", "attested", "validated", "ready",
                          "sending", "answered", "done", "refused"}
  /\ operation.status \in {None, "Satisfied", "Conflict", "Pending", "Absent", "Inconclusive"}

Step(fields) == operation' = fields /\ UNCHANGED registry
Refuse == Step([operation EXCEPT !.phase = "refused", !.native = FALSE])

-----------------------------------------------------------------------------
(* Provenance: made by Sigstore in a workflow run, verified before each send *)

\* statement: the bytes and the run a provenance is about.
Statement(bytes, source) == [of |-> bytes, source |-> source]

\* createProvenance and makeSigstoreAttester: the statement is of this run; then the
\* SDK signs, which nothing interrupts.
Attest ==
  /\ operation.phase = "authored" /\ operation.intent.provenance # None
  /\ Step([operation EXCEPT !.phase = "asserted", !.native = TRUE])

\* The bundle is of another statement, signer or log when the dependency errs.
Signed ==
  /\ operation.phase = "asserted"
  /\ \/ \E bundle \in Bundle :
          Step([operation EXCEPT !.phase = "signed", !.native = FALSE, !.bundle = {bundle}])
     \/ Refuse

\* validateProvenance: the exact statement, with a proof of its place in the log.
Validated(bundle, intent) ==
  /\ Statement(bundle.of, bundle.source) = Statement(intent.bytes, intent.provenance)
  /\ bundle.logged

\* Mutant: the certificate may be anyone's.
SignedByAnyone(bundle, source) == bundle.source = source

\* makeSigstoreVerifier: the certificate of the very run the statement is of.
SignedBySource(bundle, source) == bundle.source = source /\ bundle.signer = source

Attested ==
  /\ operation.phase = "signed"
  /\ \E bundle \in operation.bundle :
       IF Validated(bundle, operation.intent)
       THEN Step([operation EXCEPT !.phase = "attested"]) ELSE Refuse

-----------------------------------------------------------------------------
(* Preparing and sending *)

\* publishBody and admitBody: the package names itself, is public, and its own
\* publishConfig agrees.
Publishable(manifest) ==
  manifest = [name |-> "own", private |-> FALSE, config |-> "agrees"]

Prepare ==
  /\ \/ operation.phase = "authored" /\ operation.intent.provenance = None
     \/ operation.phase = "attested"
  /\ IF operation.intent.kind = "publish" => Publishable(operation.manifest)
     THEN Step([operation EXCEPT !.phase = "validated"]) ELSE Refuse

\* verifyProvenance, after the request is made: the SDK again, not interrupted.
Verify ==
  /\ operation.phase = "validated"
  /\ IF \A b \in operation.bundle : SignedBySource(b, operation.intent.provenance)
     THEN Step([operation EXCEPT !.phase = "ready"]) \/ Refuse
     ELSE Refuse

Send ==
  /\ operation.phase = "ready"
  /\ Step([operation EXCEPT !.phase = "sending"])

Becomes(contents) ==
  [registry EXCEPT !.now = contents, !.past = @ \cup {contents}]

Published(contents, version, bytes, tag) ==
  [versions |-> [contents.versions EXCEPT ![version] = bytes],
   tags |-> [contents.tags EXCEPT ![tag] = version]]
Moved(contents, version, tag) == [contents EXCEPT !.tags = [@ EXCEPT ![tag] = version]]

\* The registry takes the PUT of a new version, or a tag for one it has.
Takes(contents, intent) ==
  (contents.versions[intent.version] = None) <=> (intent.kind = "publish")

\* When its answer was lost or a failure, the PUT may still take effect later.
Commit ==
  /\ operation.phase \in {"sending", "answered", "done"} /\ ~ operation.committed
  /\ operation.response \in {None, "lost", "failed"}
  /\ LET intent == operation.intent
     IN  /\ Takes(registry.now, intent)
         /\ registry' = Becomes(IF intent.kind = "publish"
              THEN Published(registry.now, intent.version, intent.bytes, intent.tag)
              ELSE Moved(registry.now, intent.version, intent.tag))
         /\ operation' = [operation EXCEPT !.committed = TRUE]

\* A PUT that took effect may still be answered by an error; one that did not is
\* refused, by 401 with a challenge or otherwise.
Answer ==
  /\ operation.phase = "sending"
  /\ \E response \in IF operation.committed THEN {"ok", "failed", "redirect", "lost"}
                     ELSE {"otp", "unauthorized", "failed", "redirect", "lost"} :
       Step([operation EXCEPT !.phase = "answered", !.response = response])

\* Mutant: any answer below 400 acknowledges.
AcknowledgesBelow400(response) == response \in {"ok", "redirect"}
Acknowledges(response) == response = "ok"

\* Mutant: any failure rejects.
RejectsAnyFailure(response) == response \in {"otp", "unauthorized", "failed"}
IsAuthenticationRejection(response) == response = "otp"

\* decodeResponse: a rejection, a receipt, or an outcome that stays unknown.
Decode ==
  /\ operation.phase = "answered"
  /\ LET outcome ==
           IF operation.response = "lost" THEN "Unknown"
           ELSE IF IsAuthenticationRejection(operation.response) THEN "RejectedBeforeCommit"
           ELSE IF Acknowledges(operation.response) THEN "Accepted"
           ELSE "Unknown"
     IN  Step([operation EXCEPT !.phase = "done", !.outcome = outcome,
                 !.receipts = IF outcome = "Accepted" THEN 1 ELSE @])

-----------------------------------------------------------------------------
(* Observation *)

\* Facets of the package document; a registry may serve any part of it malformed.
\* observeResponse
VersionFacet(view, intent, shape) ==
  IF shape = "missing" THEN "Absent"
  ELSE IF shape = "status" THEN "Unavailable"
  ELSE IF shape = "other-package" THEN "DifferentPackage"
  ELSE IF view.versions[intent.version] = None THEN "Absent"
  ELSE IF shape = "no-digests" THEN "Unavailable"
  ELSE view.versions[intent.version]

TagFacet(view, intent, shape) ==
  IF shape = "missing" THEN "Absent"
  ELSE IF shape \in {"status", "bad-tag"} THEN "Unavailable"
  ELSE IF shape = "other-package" /\ intent.kind = "dist-tag" THEN "Unavailable"
  ELSE IF view.tags[intent.tag] = None THEN "Absent"
  ELSE view.tags[intent.tag]

TagStatus(kind, tag, version, receipts) ==
  IF tag = version THEN "Satisfied"
  ELSE IF tag \notin {version, "Absent", "Unavailable"} THEN
         IF kind = "publish" \/ receipts > 0 THEN "Conflict" ELSE "Absent"
  ELSE IF kind = "publish" THEN "Pending"
  ELSE IF tag = "Absent" THEN IF receipts > 0 THEN "Pending" ELSE "Absent"
  ELSE "Inconclusive"

\* Mutant: a version without its tag is not published.
ReplayWithoutTag(intent, version, tag, receipts) ==
  IF version = intent.bytes /\ tag = "Absent" THEN "Absent"
  ELSE TagStatus(intent.kind, tag, intent.version, receipts)

\* Mutant: what is known of the version is the status, when that is not there.
StatusOfVersion(intent, version, tag, receipts) ==
  IF version \in {"Absent", "Unavailable"} THEN version
  ELSE TagStatus(intent.kind, tag, intent.version, receipts)

\* classifyObservation: the version by its digests, then the tag.
Classify(intent, version, tag, receipts) ==
  IF intent.kind = "dist-tag" THEN TagStatus("dist-tag", tag, intent.version, receipts)
  ELSE IF version = "DifferentPackage" THEN "Conflict"
  ELSE IF version = "Absent" THEN "Absent"
  ELSE IF version = "Unavailable" THEN "Inconclusive"
  ELSE IF version # intent.bytes THEN "Conflict"
  ELSE TagStatus("publish", tag, intent.version, receipts)

\* observe prepares as a send does, then reads the document once.
Observe ==
  /\ operation.phase \in {"ready", "sending", "done"}
  /\ \E view \in registry.past,
        shape \in {"missing", "status", "other-package", "no-digests", "bad-tag", "whole"} :
       /\ shape = "missing" => view = Empty
       /\ Step([operation EXCEPT !.seen = view,
            !.status = Classify(operation.intent, VersionFacet(view, operation.intent, shape),
                                TagFacet(view, operation.intent, shape), operation.receipts)])

Foreign ==
  /\ registry.foreign < MaxForeign
  /\ \E version \in Version, tag \in Tag, bytes \in Bytes :
       LET contents == IF registry.now.versions[version] = None
                       THEN Published(registry.now, version, bytes, tag)
                       ELSE Moved(registry.now, version, tag)
       IN  registry' = [Becomes(contents) EXCEPT !.foreign = @ + 1]
  /\ UNCHANGED operation

Next ==
  \/ Attest \/ Signed \/ Attested \/ Prepare \/ Verify
  \/ Send \/ Commit \/ Answer \/ Decode
  \/ Observe \/ Foreign

Spec == Init /\ [][Next]_vars

-----------------------------------------------------------------------------
(* Properties *)

\* A receipt is of a write that took effect, a rejection of one that never did.
OutcomesTrue ==
  /\ operation.outcome = "Accepted" => operation.committed
  /\ operation.outcome = "RejectedBeforeCommit" => ~ operation.committed

\* Satisfied: the intended bytes are the version for ever, and the tag led there.
\* Absent: a read of the package found nothing that the same PUT would repeat.
ObservationsTrue ==
  LET intent == operation.intent  seen == operation.seen
  IN  /\ operation.status = "Satisfied" =>
           /\ intent.kind = "publish" => registry.now.versions[intent.version] = intent.bytes
           /\ seen.tags[intent.tag] = intent.version
      /\ operation.status = "Absent" /\ intent.kind = "publish" =>
           seen.versions[intent.version] = None

\* What is sent with a provenance carries one signed by the run that made these bytes.
ProvenanceGenuine ==
  operation.phase \in {"ready", "sending", "answered", "done"} =>
    \A b \in operation.bundle :
      /\ b.of = operation.intent.bytes /\ b.logged
      /\ b.source = operation.intent.provenance /\ b.signer = operation.intent.provenance
=============================================================================
