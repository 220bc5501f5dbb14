----------------------------- MODULE ProviderProofs -----------------------------
(***************************************************************************)
(* What the providers keep beside their registries, for any packages,      *)
(* assets, files and servers, and whatever others do to the registries.    *)
(*                                                                         *)
(* Each provider has an inductive invariant of its own; the last section   *)
(* puts them together into the properties of module Providers.             *)
(***************************************************************************)
EXTENDS ProviderInvariants, FiniteSetTheorems, SequenceTheorems, WellFoundedInduction, TLAPS

-----------------------------------------------------------------------------
(* npm *)

LEMMA NpmInit == ASSUME Npm!Init PROVE NpmInv
<1>1. Npm!Empty \in Npm!Contents
  BY DEF Npm!Empty, Npm!Contents, Npm!None
<1>2. VersionsKept
  BY <1>1 DEF Npm!Init, VersionsKept
<1>3. PICK intent \in Npm!Intent, manifest \in Npm!Manifest :
        operation = [phase |-> "authored", intent |-> intent, manifest |-> manifest,
                     native |-> FALSE, bundle |-> {}, committed |-> FALSE,
                     response |-> "none", outcome |-> "none", receipts |-> 0,
                     seen |-> Npm!Empty, status |-> "none"]
  BY DEF Npm!Init, Npm!None
<1>4. operation \in Publishing
  BY <1>1, <1>3 DEF Publishing, Bundles, None
<1>5. AnswersKept /\ ProvenanceKept
  BY <1>3 DEF AnswersKept, ProvenanceKept, None
<1>6. SeenTrue
  BY <1>3 DEF SeenTrue, None, Npm!Init
<1> QED BY <1>2, <1>4, <1>5, <1>6 DEF NpmInv

\* The provenance: made, checked, and checked again before it is sent.
LEMMA AttestStep ==
  ASSUME NpmInv, Npm!Attest \/ Npm!Signed \/ Npm!Attested
  PROVE  NpmInv'
<1>1. registry' = registry
  BY DEF Npm!Attest, Npm!Signed, Npm!Attested, Npm!Step, Npm!Refuse
<1>2. operation \in Publishing
  BY DEF NpmInv
<1>3. operation.phase \in {"authored", "asserted", "signed"}
  BY DEF Npm!Attest, Npm!Signed, Npm!Attested
<1>4. ~ operation.committed /\ operation.response = None
  BY <1>2, <1>3 DEF NpmInv, AnswersKept, Publishing
<1>5. PICK phase \in {"asserted", "signed", "attested", "refused"}, native \in BOOLEAN,
           made \in Bundles :
        /\ operation' = [operation EXCEPT !.phase = phase, !.native = native, !.bundle = made]
        /\ phase = "asserted" => made = {}
        /\ phase = "attested" => \A b \in made : Npm!Validated(b, operation.intent)
  <2>1. /\ operation.native \in BOOLEAN
        /\ operation.bundle \in Bundles
    BY <1>2 DEF Publishing
  <2>2. CASE Npm!Refuse
    <3>1. operation' = [operation EXCEPT !.phase = "refused", !.native = FALSE,
                                         !.bundle = operation.bundle]
      BY <1>2, <2>2 DEF Npm!Step, Npm!Refuse, Publishing
    <3> QED BY <2>1, <3>1
  <2>3. CASE Npm!Attest
    <3>1. operation.bundle = {} /\ {} \in Bundles
      BY <2>3 DEF Npm!Attest, NpmInv, ProvenanceKept, Bundles
    <3>2. operation' = [operation EXCEPT !.phase = "asserted", !.native = TRUE, !.bundle = {}]
      BY <1>2, <2>3, <3>1 DEF Npm!Attest, Npm!Step, Publishing
    <3> QED BY <3>1, <3>2
  <2>4. CASE Npm!Signed
    <3>1. ASSUME NEW b \in Npm!Bundle,
                 operation' = [operation EXCEPT !.phase = "signed", !.native = FALSE,
                                                !.bundle = {b}]
          PROVE  \E phase \in {"asserted", "signed", "attested", "refused"}, native \in BOOLEAN,
                    made \in Bundles :
                   /\ operation' = [operation EXCEPT !.phase = phase, !.native = native,
                                                     !.bundle = made]
                   /\ phase = "asserted" => made = {}
                   /\ phase = "attested" =>
                        \A c \in made : Npm!Validated(c, operation.intent)
      <4>1. {b} \in Bundles
        BY DEF Bundles
      <4> QED BY <3>1, <4>1
    <3> QED BY <2>2, <2>4, <3>1 DEF Npm!Signed, Npm!Step
  <2>5. CASE Npm!Attested
    <3>1. PICK b \in operation.bundle :
            IF Npm!Validated(b, operation.intent)
            THEN Npm!Step([operation EXCEPT !.phase = "attested"]) ELSE Npm!Refuse
      BY <2>5 DEF Npm!Attested
    <3>2. operation.bundle = {b} /\ {b} \in Bundles
      BY <1>2, <3>1 DEF Publishing, Bundles
    <3>3. CASE Npm!Validated(b, operation.intent)
      <4>1. operation' = [operation EXCEPT !.phase = "attested", !.native = operation.native,
                                           !.bundle = {b}]
        BY <1>2, <3>1, <3>2, <3>3 DEF Npm!Step, Publishing
      <4>2. \A c \in {b} : Npm!Validated(c, operation.intent)
        BY <3>3
      <4> QED BY <2>1, <3>2, <4>1, <4>2
    <3> QED BY <2>2, <3>1, <3>3
  <2> QED BY <2>3, <2>4, <2>5
<1>15. /\ operation' \in Publishing
       /\ operation'.phase = phase /\ operation'.bundle = made
       /\ operation'.intent = operation.intent /\ operation'.committed = operation.committed
       /\ operation'.response = operation.response /\ operation'.outcome = operation.outcome
       /\ operation'.seen = operation.seen /\ operation'.status = operation.status
  BY <1>2, <1>5 DEF Publishing
<1>6. AnswersKept'
  BY <1>2, <1>3, <1>4, <1>5, <1>15 DEF NpmInv, AnswersKept, None
<1>7. ProvenanceKept'
  BY <1>5, <1>15 DEF ProvenanceKept
<1>8. SeenTrue' /\ VersionsKept'
  BY <1>1, <1>5, <1>15 DEF NpmInv, SeenTrue, VersionsKept
<1> QED BY <1>5, <1>15, <1>6, <1>7, <1>8 DEF NpmInv

\* Nothing but where the operation is changes, and it is sent what was verified.
LEMMA SendingStep ==
  ASSUME NpmInv, Npm!Prepare \/ Npm!Verify \/ Npm!Send
  PROVE  NpmInv'
<1>1. registry' = registry
  BY DEF Npm!Prepare, Npm!Verify, Npm!Send, Npm!Step, Npm!Refuse
<1>2. operation \in Publishing
  BY DEF NpmInv
<1>3. PICK phase \in {"validated", "ready", "sending", "refused"}, native \in BOOLEAN :
        operation' = [operation EXCEPT !.phase = phase, !.native = native]
  <2>1. \A phase : [operation EXCEPT !.phase = phase]
                     = [operation EXCEPT !.phase = phase, !.native = operation.native]
    BY <1>2 DEF Publishing
  <2>2. operation.native \in BOOLEAN
    BY <1>2 DEF Publishing
  <2> QED BY <2>1, <2>2 DEF Npm!Prepare, Npm!Verify, Npm!Send, Npm!Step, Npm!Refuse
<1>4. operation.phase \in {"authored", "attested", "validated", "ready"}
  BY DEF Npm!Prepare, Npm!Verify, Npm!Send
<1>5. ~ operation.committed /\ operation.response = None
  BY <1>2, <1>4 DEF NpmInv, AnswersKept, Publishing
<1>6. operation' \in Publishing
  BY <1>2, <1>3 DEF Publishing
<1>7. /\ operation'.phase = phase
      /\ operation'.intent = operation.intent /\ operation'.committed = operation.committed
      /\ operation'.response = operation.response /\ operation'.outcome = operation.outcome
      /\ operation'.bundle = operation.bundle
      /\ operation'.seen = operation.seen /\ operation'.status = operation.status
  BY <1>2, <1>3 DEF Publishing
<1>8. AnswersKept'
  BY <1>2, <1>4, <1>5, <1>7 DEF NpmInv, AnswersKept, None
<1>9. ProvenanceKept'
  <2>1. CASE operation.phase \in {"authored", "attested"}
    <3>1. phase \in {"validated", "refused"}
      BY <1>2, <1>7, <2>1 DEF Npm!Prepare, Npm!Verify, Npm!Send, Npm!Step, Npm!Refuse, Publishing
    <3>2. \A b \in operation.bundle : Npm!Validated(b, operation.intent)
      BY <2>1 DEF NpmInv, ProvenanceKept
    <3> QED BY <1>7, <3>1, <3>2 DEF ProvenanceKept
  <2>2. CASE operation.phase = "validated"
    <3>1. phase \in {"ready", "refused"}
      BY <1>2, <1>7, <2>2 DEF Npm!Prepare, Npm!Verify, Npm!Send, Npm!Step, Npm!Refuse, Publishing
    <3>2. \A b \in operation.bundle : Npm!Validated(b, operation.intent)
      BY <2>2 DEF NpmInv, ProvenanceKept
    <3>3. phase = "ready" =>
            \A b \in operation.bundle : Npm!SignedBySource(b, operation.intent.provenance)
      BY <1>2, <1>7, <2>2 DEF Npm!Prepare, Npm!Verify, Npm!Send, Npm!Step, Npm!Refuse, Publishing
    <3> QED BY <1>7, <3>1, <3>2, <3>3 DEF ProvenanceKept
  <2>3. CASE operation.phase = "ready"
    <3>1. phase = "sending"
      BY <1>2, <1>7, <2>3 DEF Npm!Prepare, Npm!Verify, Npm!Send, Npm!Step, Npm!Refuse, Publishing
    <3> QED BY <1>7, <2>3, <3>1 DEF NpmInv, ProvenanceKept
  <2> QED BY <1>4, <2>1, <2>2, <2>3
<1>10. SeenTrue' /\ VersionsKept'
  BY <1>1, <1>7 DEF NpmInv, SeenTrue, VersionsKept
<1> QED BY <1>6, <1>8, <1>9, <1>10 DEF NpmInv

\* A version that is there is not replaced, so what was so of it stays so.
LEMMA ContentsKept ==
  ASSUME VersionsKept, NEW contents \in Npm!Contents, NEW foreign \in Nat,
         registry' = [now |-> contents, past |-> registry.past \cup {contents},
                      foreign |-> foreign],
         \A version \in Version :
           registry.now.versions[version] # None =>
             contents.versions[version] = registry.now.versions[version]
  PROVE  VersionsKept' /\ registry.past \subseteq registry'.past
BY DEF VersionsKept

LEMMA PublishedKeeps ==
  ASSUME NEW contents \in Npm!Contents, NEW version \in Version, NEW bytes \in Bytes,
         NEW tag \in Tag
  PROVE  /\ Npm!Published(contents, version, bytes, tag) \in Npm!Contents
         /\ Npm!Moved(contents, version, tag) \in Npm!Contents
         /\ Npm!Moved(contents, version, tag).versions = contents.versions
         /\ \A v \in Version : v # version =>
              Npm!Published(contents, version, bytes, tag).versions[v] = contents.versions[v]
<1>1. contents.versions \in [Version -> Bytes \cup {"none"}]
      /\ contents.tags \in [Tag -> Version \cup {"none"}]
  BY DEF Npm!Contents, Npm!None
<1>2. [contents.versions EXCEPT ![version] = bytes] \in [Version -> Bytes \cup {"none"}]
      /\ [contents.tags EXCEPT ![tag] = version] \in [Tag -> Version \cup {"none"}]
  BY <1>1
<1>3. Npm!Published(contents, version, bytes, tag) \in Npm!Contents
  BY <1>2 DEF Npm!Published, Npm!Contents, Npm!None
<1>4. Npm!Moved(contents, version, tag)
        = [versions |-> contents.versions, tags |-> [contents.tags EXCEPT ![tag] = version]]
  BY DEF Npm!Moved, Npm!Contents
<1> QED BY <1>1, <1>2, <1>3, <1>4 DEF Npm!Published, Npm!Contents, Npm!None

\* What others publish or move.
LEMMA NpmForeignStep == ASSUME NpmInv, Npm!Foreign PROVE NpmInv'
<1>1. VersionsKept /\ operation' = operation
  BY DEF NpmInv, Npm!Foreign
<1>2. PICK version \in Version, tag \in Tag, bytes \in Bytes :
        registry' = [Npm!Becomes(IF registry.now.versions[version] = Npm!None
                                 THEN Npm!Published(registry.now, version, bytes, tag)
                                 ELSE Npm!Moved(registry.now, version, tag))
                       EXCEPT !.foreign = @ + 1]
  BY DEF Npm!Foreign
<1>3. registry.now \in Npm!Contents /\ registry.foreign \in Nat
      /\ registry = [now |-> registry.now, past |-> registry.past, foreign |-> registry.foreign]
  BY <1>1 DEF VersionsKept
<1> DEFINE becoming == IF registry.now.versions[version] = Npm!None
                       THEN Npm!Published(registry.now, version, bytes, tag)
                       ELSE Npm!Moved(registry.now, version, tag)
<1>4. becoming \in Npm!Contents
  BY <1>3, PublishedKeeps
<1>5. \A v \in Version : registry.now.versions[v] # None =>
        becoming.versions[v] = registry.now.versions[v]
  BY <1>3, PublishedKeeps DEF None, Npm!None
<1>6. registry' = [now |-> becoming, past |-> registry.past \cup {becoming},
                   foreign |-> registry.foreign + 1]
  BY <1>2, <1>3 DEF Npm!Becomes
<1> HIDE DEF becoming
<1>7. registry.foreign + 1 \in Nat
  BY <1>3
<1>8. VersionsKept' /\ registry.past \subseteq registry'.past
  BY <1>1, <1>4, <1>5, <1>6, <1>7, ContentsKept
<1>9. AnswersKept' /\ ProvenanceKept' /\ SeenTrue'
  BY <1>1, <1>8 DEF NpmInv, AnswersKept, ProvenanceKept, SeenTrue
<1> QED BY <1>1, <1>8, <1>9 DEF NpmInv

\* The registry takes the write, which is not answered or was not told of.
LEMMA CommitStep == ASSUME NpmInv, Npm!Commit PROVE NpmInv'
<1>1. VersionsKept /\ operation \in Publishing /\ AnswersKept
  BY DEF NpmInv
<1> DEFINE intent == operation.intent
           becoming == IF intent.kind = "publish"
                       THEN Npm!Published(registry.now, intent.version, intent.bytes, intent.tag)
                       ELSE Npm!Moved(registry.now, intent.version, intent.tag)
<1>2. /\ operation.phase \in {"sending", "answered", "done"} /\ ~ operation.committed
      /\ operation.response \in {None, "lost", "failed"}
      /\ Npm!Takes(registry.now, intent)
      /\ registry' = Npm!Becomes(becoming)
      /\ operation' = [operation EXCEPT !.committed = TRUE]
  BY DEF Npm!Commit, None, Npm!None
<1>3. registry.now \in Npm!Contents /\ registry.foreign \in Nat
      /\ registry = [now |-> registry.now, past |-> registry.past, foreign |-> registry.foreign]
  BY <1>1 DEF VersionsKept
<1>4. intent.version \in Version /\ intent.tag \in Tag /\ intent.bytes \in Bytes
  BY <1>1 DEF Publishing, Npm!Intent
<1>5. becoming \in Npm!Contents
  BY <1>3, <1>4, PublishedKeeps
<1>6. \A v \in Version : registry.now.versions[v] # None =>
        becoming.versions[v] = registry.now.versions[v]
  <2>1. CASE intent.kind = "publish"
    <3>1. registry.now.versions[intent.version] = None
      BY <1>2, <2>1 DEF Npm!Takes, None, Npm!None
    <3> QED BY <1>3, <1>4, <2>1, <3>1, PublishedKeeps
  <2>2. CASE intent.kind # "publish"
    BY <1>3, <1>4, <2>2, PublishedKeeps
  <2> QED BY <2>1, <2>2
<1>7. registry' = [now |-> becoming, past |-> registry.past \cup {becoming},
                   foreign |-> registry.foreign]
  BY <1>2, <1>3 DEF Npm!Becomes
<1> HIDE DEF becoming
<1>8. VersionsKept' /\ registry.past \subseteq registry'.past
  BY <1>1, <1>3, <1>5, <1>6, <1>7, ContentsKept
<1>9. /\ operation' \in Publishing /\ operation'.committed
      /\ operation'.phase = operation.phase
      /\ operation'.intent = operation.intent /\ operation'.bundle = operation.bundle
      /\ operation'.response = operation.response /\ operation'.outcome = operation.outcome
      /\ operation'.seen = operation.seen /\ operation'.status = operation.status
  BY <1>1, <1>2 DEF Publishing
<1>10. AnswersKept'
  BY <1>1, <1>2, <1>9 DEF AnswersKept, None
<1>11. ProvenanceKept' /\ SeenTrue'
  BY <1>8, <1>9 DEF NpmInv, ProvenanceKept, SeenTrue
<1> QED BY <1>8, <1>9, <1>10, <1>11 DEF NpmInv

LEMMA AnswerStep ==
  ASSUME NpmInv, Npm!Answer \/ Npm!Decode
  PROVE  NpmInv'
<1>1. registry' = registry /\ operation \in Publishing /\ AnswersKept
  BY DEF NpmInv, Npm!Answer, Npm!Decode, Npm!Step
<1>2. /\ operation' \in Publishing
      /\ operation.phase \in {"sending", "answered"} /\ operation'.phase \in {"answered", "done"}
      /\ operation'.intent = operation.intent /\ operation'.bundle = operation.bundle
      /\ operation'.committed = operation.committed
      /\ operation'.seen = operation.seen /\ operation'.status = operation.status
      /\ AnswersKept'
  <2>1. CASE Npm!Answer
    <3>1. PICK response \in {"ok", "otp", "unauthorized", "failed", "redirect", "lost"} :
            /\ operation' = [operation EXCEPT !.phase = "answered", !.response = response]
            /\ response = "ok" => operation.committed
            /\ response = "otp" => ~ operation.committed
      BY <2>1 DEF Npm!Answer, Npm!Step
    <3>2. operation.phase = "sending"
      BY <2>1 DEF Npm!Answer
    <3>3. operation.outcome = None
      BY <1>1, <3>2 DEF AnswersKept, Publishing, None
    <3>4. operation' \in Publishing
      BY <1>1, <3>1 DEF Publishing
    <3> QED BY <1>1, <3>1, <3>2, <3>3, <3>4 DEF Publishing, AnswersKept, None
  <2>2. CASE Npm!Decode
    <3>1. PICK outcome \in {"Unknown", "RejectedBeforeCommit", "Accepted"}, receipts \in Nat :
            /\ operation' = [operation EXCEPT !.phase = "done", !.outcome = outcome,
                                              !.receipts = receipts]
            /\ outcome = "Accepted" => operation.response = "ok"
            /\ outcome = "RejectedBeforeCommit" => operation.response = "otp"
      <4> DEFINE answered == IF operation.response = "lost" THEN "Unknown"
                 ELSE IF Npm!IsAuthenticationRejection(operation.response)
                      THEN "RejectedBeforeCommit"
                 ELSE IF Npm!Acknowledges(operation.response) THEN "Accepted"
                 ELSE "Unknown"
                 count == IF answered = "Accepted" THEN 1 ELSE operation.receipts
      <4>1. operation' = [operation EXCEPT !.phase = "done", !.outcome = answered,
                                           !.receipts = count]
        BY <1>1, <2>2 DEF Npm!Decode, Npm!Step
      <4>2. answered \in {"Unknown", "RejectedBeforeCommit", "Accepted"}
            /\ (answered = "Accepted" => operation.response = "ok")
            /\ (answered = "RejectedBeforeCommit" => operation.response = "otp")
        BY DEF Npm!IsAuthenticationRejection, Npm!Acknowledges
      <4>3. count \in Nat
        BY <1>1 DEF Publishing
      <4> HIDE DEF answered, count
      <4> QED BY <4>1, <4>2, <4>3
    <3>2. operation.phase = "answered"
      BY <2>2 DEF Npm!Decode
    <3>3. operation' \in Publishing
      BY <1>1, <3>1 DEF Publishing
    <3> QED BY <1>1, <3>1, <3>2, <3>3 DEF Publishing, AnswersKept, None
  <2> QED BY <2>1, <2>2
<1>3. ProvenanceKept'
  BY <1>2 DEF NpmInv, ProvenanceKept
<1>4. SeenTrue' /\ VersionsKept'
  BY <1>1, <1>2 DEF NpmInv, SeenTrue, VersionsKept
<1> QED BY <1>2, <1>3, <1>4 DEF NpmInv

\* What the facets of a package document and their classification mean.
LEMMA NpmClassified ==
  ASSUME NEW view \in Npm!Contents, NEW intent \in Npm!Intent, NEW receipts \in Nat,
         NEW shape, shape = "missing" => view = Npm!Empty,
         NEW status,
         status = Npm!Classify(intent, Npm!VersionFacet(view, intent, shape),
                               Npm!TagFacet(view, intent, shape), receipts)
  PROVE  /\ status \in {"Satisfied", "Conflict", "Pending", "Absent", "Inconclusive"}
         /\ status = "Satisfied" =>
              /\ intent.kind = "publish" => view.versions[intent.version] = intent.bytes
              /\ view.tags[intent.tag] = intent.version
         /\ status = "Absent" /\ intent.kind = "publish" =>
              view.versions[intent.version] = "none"
<1> DEFINE facet == Npm!VersionFacet(view, intent, shape)
           tag == Npm!TagFacet(view, intent, shape)
<1>1. /\ intent.version \in Version /\ intent.bytes \in Bytes /\ intent.tag \in Tag
      /\ intent.kind \in {"publish", "dist-tag"}
  BY DEF Npm!Intent
<1>2. /\ intent.version \notin {"none", "Absent", "Unavailable"}
      /\ intent.bytes \notin {"none", "Absent", "Unavailable", "DifferentPackage"}
  BY <1>1, ProviderAssumptions DEF Npm!NpmAssumption, Npm!None
<1>3. /\ facet = intent.bytes => view.versions[intent.version] = intent.bytes
      /\ facet = "Absent" => view.versions[intent.version] = "none"
  <2>1. Npm!Empty.versions[intent.version] = "none"
    BY <1>1 DEF Npm!Empty, Npm!None
  <2>2. view.versions[intent.version] \in Bytes \cup {"none"}
    BY <1>1 DEF Npm!Contents, Npm!None
  <2>3. view.versions[intent.version] # "Absent"
    BY <2>2, ProviderAssumptions DEF Npm!NpmAssumption, Npm!None
  <2> QED BY <1>2, <2>1, <2>3 DEF Npm!VersionFacet, Npm!None
<1>4. tag = intent.version => view.tags[intent.tag] = intent.version
  BY <1>2 DEF Npm!TagFacet
<1>5. status = Npm!Classify(intent, facet, tag, receipts)
  OBVIOUS
<1> HIDE DEF facet, tag
<1> QED BY <1>1, <1>2, <1>3, <1>4, <1>5 DEF Npm!Classify, Npm!TagStatus

LEMMA NpmObserveStep == ASSUME NpmInv, Npm!Observe PROVE NpmInv'
<1>1. registry' = registry /\ operation \in Publishing /\ VersionsKept
  BY DEF NpmInv, Npm!Observe, Npm!Step
<1>2. PICK view \in registry.past,
           shape \in {"missing", "status", "other-package", "no-digests", "bad-tag", "whole"} :
        /\ shape = "missing" => view = Npm!Empty
        /\ operation' = [operation EXCEPT !.seen = view,
             !.status = Npm!Classify(operation.intent,
                                     Npm!VersionFacet(view, operation.intent, shape),
                                     Npm!TagFacet(view, operation.intent, shape),
                                     operation.receipts)]
  BY DEF Npm!Observe, Npm!Step
<1> DEFINE status == Npm!Classify(operation.intent,
                                  Npm!VersionFacet(view, operation.intent, shape),
                                  Npm!TagFacet(view, operation.intent, shape),
                                  operation.receipts)
           intent == operation.intent
<1>3. view \in Npm!Contents /\ intent \in Npm!Intent /\ operation.receipts \in Nat
  BY <1>1 DEF VersionsKept, Publishing
<1>4. /\ status \in {"Satisfied", "Conflict", "Pending", "Absent", "Inconclusive"}
      /\ status = "Satisfied" =>
           /\ intent.kind = "publish" => view.versions[intent.version] = intent.bytes
           /\ view.tags[intent.tag] = intent.version
      /\ status = "Absent" /\ intent.kind = "publish" =>
           view.versions[intent.version] = "none"
  BY <1>2, <1>3, NpmClassified
<1>5. operation' = [operation EXCEPT !.seen = view, !.status = status]
  BY <1>2
<1> HIDE DEF status
<1>6. /\ operation' \in Publishing
      /\ operation'.phase = operation.phase /\ operation'.bundle = operation.bundle
      /\ operation'.intent = operation.intent /\ operation'.committed = operation.committed
      /\ operation'.response = operation.response /\ operation'.outcome = operation.outcome
      /\ operation'.seen = view /\ operation'.status = status
  BY <1>1, <1>3, <1>4, <1>5 DEF Publishing
<1>7. AnswersKept' /\ ProvenanceKept'
  BY <1>6 DEF NpmInv, AnswersKept, ProvenanceKept
<1>8. SeenTrue' /\ VersionsKept'
  BY <1>1, <1>2, <1>4, <1>6 DEF SeenTrue, VersionsKept, None
<1> QED BY <1>6, <1>7, <1>8 DEF NpmInv

LEMMA NpmStep == ASSUME NpmInv, Npm!Next PROVE NpmInv'
BY AttestStep, SendingStep, CommitStep, AnswerStep, NpmObserveStep, NpmForeignStep
   DEF Npm!Next

LEMMA NpmTyped == ASSUME NpmInv PROVE Npm!TypeOK
BY DEF NpmInv, Publishing, Bundles, VersionsKept, Npm!TypeOK, None, Npm!None

LEMMA NpmSafe ==
  ASSUME NpmInv
  PROVE  Npm!OutcomesTrue /\ Npm!ObservationsTrue /\ Npm!ProvenanceGenuine
<1>1. operation \in Publishing /\ VersionsKept /\ AnswersKept /\ ProvenanceKept /\ SeenTrue
  BY DEF NpmInv
<1>2. Npm!OutcomesTrue
  BY <1>1 DEF AnswersKept, Npm!OutcomesTrue
<1>3. operation.intent.version \in Version /\ operation.intent.bytes \in Bytes
  BY <1>1 DEF Publishing, Npm!Intent
<1>4. operation.intent.bytes # None
  BY <1>3, ProviderAssumptions DEF Npm!NpmAssumption, None, Npm!None
<1>5. Npm!ObservationsTrue
  BY <1>1, <1>3, <1>4 DEF SeenTrue, VersionsKept, Npm!ObservationsTrue, None, Npm!None
<1>6. Npm!ProvenanceGenuine
  BY <1>1 DEF ProvenanceKept, Npm!ProvenanceGenuine, Npm!Validated, Npm!Statement,
     Npm!SignedBySource
<1> QED BY <1>2, <1>5, <1>6

-----------------------------------------------------------------------------
(* MCP *)

LEMMA McpInit == ASSUME Mcp!Init PROVE McpInv
<1>1. PICK manifest \in Mcp!Manifest, authorization \in Mcp!Authorization :
        publication = [manifest |-> manifest, authorization |-> authorization, body |-> {},
                       phase |-> "planned", stored |-> FALSE, answer |-> "none",
                       outcome |-> "none"]
  BY DEF Mcp!Init, Mcp!None
<1>2. servers = [now |-> {}, past |-> {}, foreign |-> 0] /\ look = {}
  BY DEF Mcp!Init
<1>3. publication \in Posting
  BY <1>1 DEF Posting, None
<1>4. ServedOnce /\ StoredKept /\ Mcp!ObservationsTrue
  BY <1>1, <1>2 DEF ServedOnce, StoredKept, Mcp!ObservationsTrue
<1> QED BY <1>3, <1>4 DEF McpInv

\* Only the publication changes: nothing is stored by it, and its receipt is of a stored one.
LEMMA PostingKept ==
  ASSUME McpInv, UNCHANGED <<servers, look>>, publication' \in Posting,
         publication'.manifest = publication.manifest,
         publication'.stored = publication.stored,
         publication'.phase \in {"ready", "sending", "done"} =>
           publication'.body = {publication.manifest},
         publication'.outcome = "Accepted" => publication.stored
  PROVE  McpInv'
<1>1. ServedOnce' /\ Mcp!ObservationsTrue'
  BY DEF McpInv, ServedOnce, Mcp!ObservationsTrue
<1>2. StoredKept'
  BY DEF McpInv, StoredKept
<1> QED BY <1>1, <1>2 DEF McpInv

LEMMA McpPrepareStep == ASSUME McpInv, Mcp!Prepare PROVE McpInv'
<1>1. publication \in Posting /\ StoredKept
  BY DEF McpInv
<1>2. publication' = [publication EXCEPT !.phase = "ready", !.body = {publication.manifest}]
      /\ UNCHANGED <<servers, look>>
  BY DEF Mcp!Prepare, Mcp!Step
<1>3. publication' \in Posting
  BY <1>1, <1>2 DEF Posting
<1> QED BY <1>1, <1>2, <1>3, PostingKept DEF Posting, StoredKept

LEMMA McpSendStep == ASSUME McpInv, Mcp!Send PROVE McpInv'
<1>1. publication \in Posting /\ StoredKept /\ publication.phase = "ready"
  BY DEF McpInv, Mcp!Send
<1>2. PICK body \in publication.body \cup {[publication.manifest EXCEPT !.remote = ~ @]} :
        /\ publication' = [publication EXCEPT !.body = {body},
             !.phase = IF Mcp!OwnsRequest(body) THEN "sending" ELSE "refused"]
        /\ UNCHANGED <<servers, look>>
  BY DEF Mcp!Send, Mcp!Step
<1>3. body \in Mcp!Manifest
  <2>1. publication.manifest \in Mcp!Manifest /\ publication.body \subseteq Mcp!Manifest
    BY <1>1 DEF Posting
  <2>2. [publication.manifest EXCEPT !.remote = ~ @] \in Mcp!Manifest
    BY <2>1 DEF Mcp!Manifest
  <2> QED BY <1>2, <2>1, <2>2
<1>4. publication' \in Posting
  BY <1>1, <1>2, <1>3 DEF Posting
<1> QED BY <1>1, <1>2, <1>4, PostingKept DEF Posting, StoredKept, Mcp!OwnsRequest

\* An entry is served in the place of those of its server and version.
LEMMA ServeKeeps ==
  ASSUME ServedOnce, NEW entry \in Mcp!Entry, NEW foreign \in Nat, NEW kept,
         kept = {e \in servers.now : Mcp!Key(e.manifest) # Mcp!Key(entry.manifest)},
         servers' = [now |-> kept \cup {entry}, past |-> servers.past \cup {entry},
                     foreign |-> foreign]
  PROVE  /\ ServedOnce' /\ entry \in servers'.now
         /\ \A e \in servers.now :
              Mcp!Key(e.manifest) # Mcp!Key(entry.manifest) => e \in servers'.now
<1>1. servers'.now = kept \cup {entry}
  OBVIOUS
<1>2. \A one, other \in servers'.now :
        Mcp!Key(one.manifest) = Mcp!Key(other.manifest) => one = other
  BY <1>1 DEF ServedOnce
<1>3. kept \cup {entry} \in SUBSET Mcp!Entry /\ servers.past \cup {entry} \in SUBSET Mcp!Entry
  BY DEF ServedOnce
<1>4. servers' \in [now : SUBSET Mcp!Entry, past : SUBSET Mcp!Entry, foreign : Nat]
  BY <1>3
<1> QED BY <1>1, <1>2, <1>4 DEF ServedOnce

LEMMA McpStoreStep == ASSUME McpInv, Mcp!Store PROVE McpInv'
<1>1. publication \in Posting /\ ServedOnce /\ StoredKept
  BY DEF McpInv
<1>2. /\ publication.phase \in {"sending", "done"}
      /\ publication' = [publication EXCEPT !.stored = TRUE] /\ look' = look
  BY DEF Mcp!Store
<1>3. publication.body = {publication.manifest} /\ publication.manifest \in Mcp!Manifest
  BY <1>1, <1>2 DEF StoredKept, Posting
<1> DEFINE entry == [manifest |-> publication.manifest, status |-> "active"]
<1>4. servers' = Mcp!Serve(entry)
  BY <1>3 DEF Mcp!Store
<1>5. entry \in Mcp!Entry /\ entry.manifest = publication.manifest
  BY <1>3 DEF Mcp!Entry
<1> HIDE DEF entry
<1>6. servers.foreign \in Nat
      /\ servers = [now |-> servers.now, past |-> servers.past, foreign |-> servers.foreign]
  BY <1>1 DEF ServedOnce
<1> DEFINE kept == {e \in servers.now : Mcp!Key(e.manifest) # Mcp!Key(entry.manifest)}
<1>7. servers' = [now |-> kept \cup {entry}, past |-> servers.past \cup {entry},
                  foreign |-> servers.foreign]
  BY <1>4, <1>6 DEF Mcp!Serve
<1>8. ServedOnce' /\ entry \in servers'.now
  BY <1>1, <1>5, <1>6, <1>7, ServeKeeps
<1>9. publication' \in Posting /\ publication'.manifest = publication.manifest
      /\ publication'.stored /\ publication'.body = publication.body
      /\ publication'.phase = publication.phase
  BY <1>1, <1>2 DEF Posting
<1>10. StoredKept'
  BY <1>2, <1>3, <1>5, <1>8, <1>9 DEF StoredKept
<1>11. Mcp!ObservationsTrue'
  BY <1>2, <1>9 DEF McpInv, Mcp!ObservationsTrue
<1> QED BY <1>8, <1>9, <1>10, <1>11 DEF McpInv

\* What is acknowledged is served, and was not before it was stored.
LEMMA McpAnsweredStep == ASSUME McpInv, Mcp!Answered PROVE McpInv'
<1>1. publication \in Posting /\ StoredKept /\ publication.phase = "sending"
      /\ UNCHANGED <<servers, look>>
  BY DEF McpInv, Mcp!Answered, Mcp!Step
<1>2. PICK answer \in {"ok", "lost", "error"}, outcome \in {"Unknown", "Accepted"} :
        /\ publication' = [publication EXCEPT !.phase = "done", !.answer = answer,
                                              !.outcome = outcome]
        /\ outcome = "Accepted" => publication.stored
  <2>1. CASE \E answer \in {"lost", "error"} :
               Mcp!Step([publication EXCEPT !.phase = "done", !.answer = answer,
                                            !.outcome = "Unknown"])
    BY <2>1 DEF Mcp!Step
  <2>2. ASSUME NEW answered \in {{}} \cup {{entry} : entry \in
                 {e \in servers.now : publication.stored
                                        \/ e.manifest # publication.manifest}},
               Mcp!Step([publication EXCEPT !.phase = "done", !.answer = "ok",
                  !.outcome = IF Mcp!Acknowledges(answered, publication.manifest)
                              THEN "Accepted" ELSE "Unknown"])
        PROVE  \E answer \in {"ok", "lost", "error"}, outcome \in {"Unknown", "Accepted"} :
                 /\ publication' = [publication EXCEPT !.phase = "done", !.answer = answer,
                                                       !.outcome = outcome]
                 /\ outcome = "Accepted" => publication.stored
    <3>1. CASE Mcp!Acknowledges(answered, publication.manifest)
      <4> DEFINE entry == [manifest |-> publication.manifest, status |-> "active"]
      <4>1. answered = {entry} /\ entry.manifest = publication.manifest
        BY <3>1 DEF Mcp!Acknowledges
      <4> HIDE DEF entry
      <4>2. publication.stored
        BY <2>2, <4>1
      <4> QED BY <2>2, <3>1, <4>2 DEF Mcp!Step
    <3>2. CASE ~ Mcp!Acknowledges(answered, publication.manifest)
      BY <2>2, <3>2 DEF Mcp!Step
    <3> QED BY <3>1, <3>2
  <2> QED BY <2>1, <2>2 DEF Mcp!Answered
<1>3. publication' \in Posting
  BY <1>1, <1>2 DEF Posting
<1> QED BY <1>1, <1>2, <1>3, PostingKept DEF Posting, StoredKept

LEMMA McpObserveStep == ASSUME McpInv, Mcp!Observe PROVE McpInv'
<1>1. UNCHANGED <<servers, publication>>
  BY DEF Mcp!Observe
<1>2. Mcp!ObservationsTrue'
  <2>1. CASE look' = {[page |-> {}, status |-> "Inconclusive"]}
    BY <2>1 DEF Mcp!ObservationsTrue
  <2>2. ASSUME NEW page,
               look' = {[page |-> page, status |-> Mcp!Classify(publication.manifest, page)]}
        PROVE  Mcp!ObservationsTrue'
    <3>1. /\ Mcp!Classify(publication.manifest, page) # "Absent"
          /\ Mcp!Classify(publication.manifest, page) = "Satisfied" =>
               page = {[manifest |-> publication.manifest, status |-> "active"]}
          /\ Mcp!Classify(publication.manifest, page) = "Conflict" =>
               \E entry \in page : Mcp!Key(entry.manifest) = Mcp!Key(publication.manifest)
      BY DEF Mcp!Classify
    <3> QED BY <1>1, <2>2, <3>1 DEF Mcp!ObservationsTrue
  <2> QED BY <2>1, <2>2 DEF Mcp!Observe
<1> QED BY <1>1, <1>2 DEF McpInv, ServedOnce, StoredKept

\* What others publish is of a server and version that was free, and a status is of an
\* entry that stays.
LEMMA McpForeignStep == ASSUME McpInv, Mcp!Foreign PROVE McpInv'
<1>1. publication' = publication /\ look' = look /\ ServedOnce /\ StoredKept
  BY DEF McpInv, Mcp!Foreign
<1>2. PICK entry \in Mcp!Entry :
        /\ servers' = [Mcp!Serve(entry) EXCEPT !.foreign = @ + 1]
        /\ \A e \in servers.now : Mcp!Key(e.manifest) = Mcp!Key(entry.manifest) =>
                                    e.manifest = entry.manifest
  <2>1. ASSUME NEW manifest \in Mcp!Manifest, ~ Mcp!Taken(manifest),
               servers' = [Mcp!Serve([manifest |-> manifest, status |-> "active"])
                             EXCEPT !.foreign = @ + 1]
        PROVE  \E entry \in Mcp!Entry :
                 /\ servers' = [Mcp!Serve(entry) EXCEPT !.foreign = @ + 1]
                 /\ \A e \in servers.now : Mcp!Key(e.manifest) = Mcp!Key(entry.manifest) =>
                                             e.manifest = entry.manifest
    <3> DEFINE entry == [manifest |-> manifest, status |-> "active"]
    <3>1. entry \in Mcp!Entry /\ entry.manifest = manifest
      BY DEF Mcp!Entry
    <3>2. \A e \in servers.now : Mcp!Key(e.manifest) # Mcp!Key(entry.manifest)
      BY <2>1, <3>1 DEF Mcp!Taken
    <3> QED BY <2>1, <3>1, <3>2
  <2>2. ASSUME NEW old \in servers.now, NEW status \in {"active", "deprecated", "deleted"},
               servers' = [Mcp!Serve([old EXCEPT !.status = status]) EXCEPT !.foreign = @ + 1]
        PROVE  \E entry \in Mcp!Entry :
                 /\ servers' = [Mcp!Serve(entry) EXCEPT !.foreign = @ + 1]
                 /\ \A e \in servers.now : Mcp!Key(e.manifest) = Mcp!Key(entry.manifest) =>
                                             e.manifest = entry.manifest
    <3> DEFINE entry == [old EXCEPT !.status = status]
    <3>1. old \in Mcp!Entry
      BY <1>1 DEF ServedOnce
    <3>2. entry \in Mcp!Entry /\ entry.manifest = old.manifest
      BY <3>1 DEF Mcp!Entry
    <3>3. \A e \in servers.now : Mcp!Key(e.manifest) = Mcp!Key(entry.manifest) => e = old
      BY <1>1, <3>2 DEF ServedOnce
    <3> QED BY <2>2, <3>2, <3>3
  <2> QED BY <2>1, <2>2 DEF Mcp!Foreign
<1>3. servers.foreign + 1 \in Nat
      /\ servers = [now |-> servers.now, past |-> servers.past, foreign |-> servers.foreign]
  BY <1>1 DEF ServedOnce
<1> DEFINE kept == {e \in servers.now : Mcp!Key(e.manifest) # Mcp!Key(entry.manifest)}
<1>4. servers' = [now |-> kept \cup {entry}, past |-> servers.past \cup {entry},
                  foreign |-> servers.foreign + 1]
  BY <1>2, <1>3 DEF Mcp!Serve
<1>5. /\ ServedOnce' /\ entry \in servers'.now
      /\ \A e \in servers.now :
           Mcp!Key(e.manifest) # Mcp!Key(entry.manifest) => e \in servers'.now
  BY <1>1, <1>3, <1>4, ServeKeeps
<1>6. ASSUME NEW e \in servers.now
      PROVE  \E now \in servers'.now : now.manifest = e.manifest
  BY <1>2, <1>5
<1>7. StoredKept'
  BY <1>1, <1>6 DEF StoredKept
<1>8. Mcp!ObservationsTrue'
  BY <1>1 DEF McpInv, Mcp!ObservationsTrue
<1> QED BY <1>1, <1>5, <1>7, <1>8 DEF McpInv

LEMMA McpStep == ASSUME McpInv, Mcp!Next PROVE McpInv'
BY McpPrepareStep, McpSendStep, McpStoreStep, McpAnsweredStep, McpObserveStep, McpForeignStep
   DEF Mcp!Next

LEMMA McpSafe ==
  ASSUME McpInv
  PROVE  Mcp!TypeOK /\ Mcp!OutcomesTrue /\ Mcp!ObservationsTrue
BY DEF McpInv, Posting, ServedOnce, StoredKept, Mcp!TypeOK, Mcp!OutcomesTrue

-----------------------------------------------------------------------------
(* PyPI *)

LEMMA PyPiInit == ASSUME PyPi!Init PROVE PyPiInv
<1>1. uploads \subseteq PyPi!UploadIntent /\ ~ PyPi!DuplicateDistribution(uploads)
      /\ pages = [intent \in uploads |-> PyPi!Idle]
  BY DEF PyPi!Init
<1>2. PyPi!Idle = [phase |-> "planned", body |-> None, committed |-> FALSE, answer |-> None,
                   outcome |-> None]
  BY DEF PyPi!Idle, None, PyPi!None
<1>3. PyPi!Idle \in Uploading
  BY <1>2 DEF Uploading
<1>4. pages \in [uploads -> Uploading]
  BY <1>1, <1>3
<1>5. bundle \in [{intent.file : intent \in uploads} -> PyPi!Archive]
  BY DEF PyPi!Init
<1>6. IndexTyped
  <2>1. {} \in PyPi!Listing
    BY DEF PyPi!Listing
  <2> QED BY <2>1 DEF PyPi!Init, IndexTyped
<1>7. FormsKept /\ PyPi!OutcomesTrue
  BY <1>1, <1>2 DEF FormsKept, PyPi!Sent, PyPi!OutcomesTrue, None
<1>8. PyPi!ObservationsTrue
  BY DEF PyPi!Init, PyPi!ObservationsTrue
<1> QED BY <1>1, <1>4, <1>5, <1>6, <1>7, <1>8 DEF PyPiInv

\* One upload moves: it is sent as the form of its intent, and its receipt is of what the
\* index took.
LEMMA UploadKept ==
  ASSUME PyPiInv, UNCHANGED <<uploads, bundle>>, NEW intent \in uploads, NEW next \in Uploading,
         pages' = [pages EXCEPT ![intent] = next],
         IndexTyped', PyPi!ObservationsTrue',
         next.phase \in {"sending", "done"} =>
           /\ next.body = intent.file
           /\ PyPi!Inspected(intent.filename, bundle[intent.file])
           /\ Spells[intent.filename] = intent.coordinate,
         next.outcome = "Accepted" => next.committed
  PROVE  PyPiInv'
<1>1. pages \in [uploads -> Uploading]
  BY DEF PyPiInv
<1>2. pages' \in [uploads -> Uploading] /\ pages'[intent] = next
      /\ \A other \in uploads : other # intent => pages'[other] = pages[other]
  BY <1>1
<1>3. FormsKept'
  <2>1. ASSUME NEW other \in uploads, PyPi!Sent(other)'
        PROVE  /\ pages'[other].body = other.file
               /\ PyPi!Inspected(other.filename, bundle[other.file])
               /\ Spells[other.filename] = other.coordinate
    <3>1. CASE other = intent
      BY <1>2, <2>1, <3>1 DEF PyPi!Sent
    <3>2. CASE other # intent
      <4>1. PyPi!Sent(other)
        BY <1>2, <2>1, <3>2 DEF PyPi!Sent
      <4> QED BY <1>2, <3>2, <4>1 DEF PyPiInv, FormsKept
    <3> QED BY <3>1, <3>2
  <2>2. \A filename, archive :
          PyPi!Inspected(filename, archive)' <=> PyPi!Inspected(filename, archive)
    BY DEF PyPi!Inspected
  <2> QED BY <2>1, <2>2 DEF FormsKept
<1>4. PyPi!OutcomesTrue'
  BY <1>2 DEF PyPiInv, PyPi!OutcomesTrue
<1>5. PyPi!DuplicateDistribution(uploads)' <=> PyPi!DuplicateDistribution(uploads)
  BY DEF PyPi!DuplicateDistribution
<1> QED BY <1>2, <1>3, <1>4, <1>5 DEF PyPiInv

\* A form is of the exact bytes, inspected, in a name that spells what is uploaded.
LEMMA FormMeans ==
  ASSUME NEW intent, NEW file, PyPi!Form(intent, file) # {}
  PROVE  /\ file = intent.file
         /\ PyPi!Inspected(intent.filename, bundle[intent.file])
         /\ Spells[intent.filename] = intent.coordinate
BY DEF PyPi!Form

LEMMA IndexStays ==
  ASSUME PyPiInv, UNCHANGED <<index, read>>
  PROVE  IndexTyped' /\ PyPi!ObservationsTrue'
BY DEF PyPiInv, IndexTyped, PyPi!ObservationsTrue

LEMMA PyPiPrepareStep ==
  ASSUME PyPiInv, NEW intent \in uploads, PyPi!Prepare(intent) PROVE PyPiInv'
<1>1. pages[intent] \in Uploading /\ pages[intent].phase = "planned" /\ intent.file \in File
  BY DEF PyPiInv, PyPi!Prepare, PyPi!UploadIntent
<1>2. UNCHANGED <<index, uploads, bundle, read>>
  BY DEF PyPi!Prepare
<1>3. PICK next \in Uploading :
        /\ pages' = [pages EXCEPT ![intent] = next]
        /\ next.phase \in {"refused", "ready"} /\ next.outcome = pages[intent].outcome
        /\ next.committed = pages[intent].committed
  <2>1. CASE PyPi!Form(intent, intent.file) = {}
    <3> DEFINE next == [pages[intent] EXCEPT !.phase = "refused"]
    <3>1. next \in Uploading /\ next.phase = "refused" /\ next.outcome = pages[intent].outcome
          /\ next.committed = pages[intent].committed
      BY <1>1 DEF Uploading
    <3>2. pages' = [pages EXCEPT ![intent] = next]
      BY <2>1 DEF PyPi!Prepare, PyPi!Step
    <3> HIDE DEF next
    <3> QED BY <3>1, <3>2
  <2>2. CASE PyPi!Form(intent, intent.file) # {}
    <3> DEFINE next == [pages[intent] EXCEPT !.phase = "ready", !.body = intent.file]
    <3>1. next \in Uploading /\ next.phase = "ready" /\ next.outcome = pages[intent].outcome
          /\ next.committed = pages[intent].committed
      BY <1>1 DEF Uploading
    <3>2. pages' = [pages EXCEPT ![intent] = next]
      BY <2>2 DEF PyPi!Prepare, PyPi!Step
    <3> HIDE DEF next
    <3> QED BY <3>1, <3>2
  <2> QED BY <2>1, <2>2
<1>4. pages[intent].outcome = "Accepted" => pages[intent].committed
  BY DEF PyPiInv, PyPi!OutcomesTrue
<1> QED BY <1>2, <1>3, <1>4, IndexStays, UploadKept

LEMMA PyPiSendStep ==
  ASSUME PyPiInv, NEW intent \in uploads, PyPi!Send(intent) PROVE PyPiInv'
<1>1. pages[intent] \in Uploading
  BY DEF PyPiInv
<1>2. UNCHANGED <<index, uploads, bundle, read>>
  BY DEF PyPi!Send
<1>3. PICK file \in File :
        pages' = [pages EXCEPT ![intent] =
                    IF file \in DOMAIN bundle /\ PyPi!OwnsRequest(intent, file)
                    THEN [pages[intent] EXCEPT !.phase = "sending", !.body = file]
                    ELSE [pages[intent] EXCEPT !.phase = "refused"]]
  BY DEF PyPi!Send, PyPi!Step
<1>4. pages[intent].outcome = "Accepted" => pages[intent].committed
  BY DEF PyPiInv, PyPi!OutcomesTrue
<1>5. CASE file \in DOMAIN bundle /\ PyPi!OwnsRequest(intent, file)
  <2> DEFINE next == [pages[intent] EXCEPT !.phase = "sending", !.body = file]
  <2>1. next \in Uploading /\ next.body = file /\ next.outcome = pages[intent].outcome
        /\ next.committed = pages[intent].committed
    BY <1>1 DEF Uploading
  <2>2. pages' = [pages EXCEPT ![intent] = next]
    BY <1>3, <1>5
  <2>3. /\ file = intent.file
        /\ PyPi!Inspected(intent.filename, bundle[intent.file])
        /\ Spells[intent.filename] = intent.coordinate
    BY <1>5, FormMeans DEF PyPi!OwnsRequest
  <2> HIDE DEF next
  <2> QED BY <1>2, <1>4, <2>1, <2>2, <2>3, IndexStays, UploadKept
<1>6. CASE ~ (file \in DOMAIN bundle /\ PyPi!OwnsRequest(intent, file))
  <2> DEFINE next == [pages[intent] EXCEPT !.phase = "refused"]
  <2>1. next \in Uploading /\ next.phase = "refused" /\ next.outcome = pages[intent].outcome
        /\ next.committed = pages[intent].committed
    BY <1>1 DEF Uploading
  <2>2. pages' = [pages EXCEPT ![intent] = next]
    BY <1>3, <1>6
  <2> HIDE DEF next
  <2> QED BY <1>2, <1>4, <2>1, <2>2, IndexStays, UploadKept
<1> QED BY <1>5, <1>6

LEMMA ListsTyped ==
  ASSUME IndexTyped, NEW filename \in Filename, NEW listed \in PyPi!Listed, NEW foreign \in Nat,
         index' = [now |-> [index.now EXCEPT ![filename] = {listed}],
                   past |-> [index.past EXCEPT ![filename] = @ \cup {{listed}}],
                   foreign |-> foreign]
  PROVE  IndexTyped'
<1>1. {listed} \in PyPi!Listing
  BY DEF PyPi!Listing
<1>2. index.now \in [Filename -> PyPi!Listing] /\ index.past \in [Filename -> SUBSET PyPi!Listing]
  BY DEF IndexTyped
<1>3. [index.now EXCEPT ![filename] = {listed}] \in [Filename -> PyPi!Listing]
  BY <1>1, <1>2
<1>4. index.past[filename] \cup {{listed}} \in SUBSET PyPi!Listing
  BY <1>1, <1>2
<1>5. [index.past EXCEPT ![filename] = @ \cup {{listed}}] \in [Filename -> SUBSET PyPi!Listing]
  BY <1>2, <1>4
<1> QED BY <1>3, <1>5 DEF IndexTyped

\* The index as it is after a file was listed.
LEMMA ListsMeans ==
  ASSUME IndexTyped, NEW filename, NEW listed
  PROVE  PyPi!Lists(filename, listed) =
           [now |-> [index.now EXCEPT ![filename] = {listed}],
            past |-> [index.past EXCEPT ![filename] = @ \cup {{listed}}],
            foreign |-> index.foreign]
<1> DEFINE now == [index.now EXCEPT ![filename] = {listed}]
           past == [index.past EXCEPT ![filename] = @ \cup {{listed}}]
<1>1. PyPi!Lists(filename, listed) = [index EXCEPT !.now = now, !.past = past]
  BY DEF PyPi!Lists
<1>2. index = [now |-> index.now, past |-> index.past, foreign |-> index.foreign]
  BY DEF IndexTyped
<1> HIDE DEF now, past
<1>3. PyPi!Lists(filename, listed) = [now |-> now, past |-> past, foreign |-> index.foreign]
  BY <1>1, <1>2
<1> QED BY <1>3 DEF now, past

LEMMA PyPiCommitStep ==
  ASSUME PyPiInv, NEW intent \in uploads, PyPi!Commit(intent) PROVE PyPiInv'
<1>1. pages[intent] \in Uploading /\ intent.file \in File /\ intent.filename \in Filename
  BY DEF PyPiInv, PyPi!UploadIntent
<1>2. UNCHANGED <<uploads, bundle, read>> /\ PyPi!Sent(intent)
  BY DEF PyPi!Commit, PyPi!Sent
<1>3. /\ pages[intent].body = intent.file
      /\ PyPi!Inspected(intent.filename, bundle[intent.file])
      /\ Spells[intent.filename] = intent.coordinate
  BY <1>2 DEF PyPiInv, FormsKept
<1> DEFINE next == [pages[intent] EXCEPT !.committed = TRUE]
<1>4. next \in Uploading /\ next.committed /\ next.body = pages[intent].body
  BY <1>1 DEF Uploading
<1>5. pages' = [pages EXCEPT ![intent] = next]
  BY DEF PyPi!Commit, PyPi!Step
<1>6. PyPi!ObservationsTrue'
  BY <1>2 DEF PyPiInv, PyPi!ObservationsTrue
<1>7. IndexTyped'
  <2> DEFINE listed == [file |-> pages[intent].body, yanked |-> FALSE]
  <2>1. listed \in PyPi!Listed
    BY <1>1, <1>3 DEF PyPi!Listed
  <2>2. index' = PyPi!Lists(intent.filename, listed)
    BY DEF PyPi!Commit
  <2> HIDE DEF listed
  <2>3. IndexTyped /\ index.foreign \in Nat
    BY DEF PyPiInv, IndexTyped
  <2> QED BY <1>1, <2>1, <2>2, <2>3, ListsTyped, ListsMeans
<1> HIDE DEF next
<1> QED BY <1>2, <1>3, <1>4, <1>5, <1>6, <1>7, UploadKept

LEMMA PyPiAnswerStep ==
  ASSUME PyPiInv, NEW intent \in uploads, PyPi!Answer(intent) PROVE PyPiInv'
<1>1. pages[intent] \in Uploading /\ PyPi!Sent(intent)
  BY DEF PyPiInv, PyPi!Answer, PyPi!Sent
<1>2. UNCHANGED <<index, uploads, bundle, read>>
  BY DEF PyPi!Answer
<1>3. /\ pages[intent].body = intent.file
      /\ PyPi!Inspected(intent.filename, bundle[intent.file])
      /\ Spells[intent.filename] = intent.coordinate
  BY <1>1 DEF PyPiInv, FormsKept
<1>4. PICK answer \in {"ok", "error", "redirect", "lost"} :
        /\ answer = "ok" => pages[intent].committed
        /\ pages' = [pages EXCEPT ![intent] = [pages[intent] EXCEPT !.phase = "done",
             !.answer = answer,
             !.outcome = IF PyPi!Acknowledges(answer) THEN "Accepted" ELSE "Unknown"]]
  BY DEF PyPi!Answer, PyPi!Step
<1> DEFINE next == [pages[intent] EXCEPT !.phase = "done", !.answer = answer,
             !.outcome = IF PyPi!Acknowledges(answer) THEN "Accepted" ELSE "Unknown"]
<1>5. /\ next \in Uploading /\ next.body = pages[intent].body
      /\ next.committed = pages[intent].committed
      /\ next.outcome = "Accepted" => answer = "ok"
  BY <1>1 DEF Uploading, PyPi!Acknowledges
<1>6. pages' = [pages EXCEPT ![intent] = next]
  BY <1>4
<1> HIDE DEF next
<1>7. next.outcome = "Accepted" => next.committed
  BY <1>4, <1>5
<1>8. IndexTyped' /\ PyPi!ObservationsTrue'
  BY <1>2, IndexStays
<1> QED BY <1>2, <1>3, <1>5, <1>6, <1>7, <1>8, UploadKept

\* What a listing and its facet mean: satisfied is the intended file and it alone, and a
\* name is absent only from a page that does not list it.
LEMMA PyPiClassified ==
  ASSUME NEW intent, NEW listing \in PyPi!Listing, NEW page, NEW receipts,
         page = "missing" => listing = {}, NEW status,
         status = PyPi!Classify(intent, PyPi!Facet(listing, page), receipts)
  PROVE  /\ status = "Satisfied" => listing = {[file |-> intent.file, yanked |-> FALSE]}
         /\ status \in {"Absent", "Pending"} => listing = {}
<1> DEFINE facet == PyPi!Facet(listing, page)
           files == {listed.file : listed \in listing}
<1>1. CASE page \in {"error", "malformed"}
  BY <1>1 DEF PyPi!Facet, PyPi!Classify
<1>2. CASE page = "missing" \/ (listing = {} /\ page \notin {"error", "malformed", "other"})
  BY <1>2 DEF PyPi!Facet, PyPi!Classify
<1>3. CASE page = "other"
  BY <1>3 DEF PyPi!Facet, PyPi!Classify
<1>4. CASE page \notin {"error", "malformed", "missing", "other"} /\ listing # {}
  <2>1. PICK listed \in PyPi!Listed : listing = {listed}
    BY <1>4 DEF PyPi!Listing
  <2>2. facet = [is |-> "File", yanked |-> \E one \in listing : one.yanked,
                 size |-> IF page \in {"json", "json-size"} THEN files ELSE {},
                 digest |-> IF page \in {"html", "json-size"} THEN {} ELSE files]
    BY <1>4 DEF PyPi!Facet
  <2> HIDE DEF facet
  <2>3. facet.is = "File" /\ facet.yanked = (\E one \in listing : one.yanked)
        /\ facet.digest = (IF page \in {"html", "json-size"} THEN {} ELSE files)
    BY <2>2
  <2>4. status = PyPi!Classify(intent, facet, receipts)
    BY DEF facet
  <2>5. status \notin {"Absent", "Pending"}
    BY <2>3, <2>4 DEF PyPi!Classify
  <2>6. ASSUME status = "Satisfied"
        PROVE  listing = {[file |-> intent.file, yanked |-> FALSE]}
    <3>1. ~ facet.yanked /\ facet.digest # {} /\ facet.digest \subseteq {intent.file}
      BY <2>3, <2>4, <2>6 DEF PyPi!Classify
    <3>2. files = {listed.file}
      BY <2>1
    <3>3. listed.file = intent.file
      BY <2>3, <3>1, <3>2
    <3>4. ~ listed.yanked
      BY <2>1, <2>3, <3>1
    <3>5. listed = [file |-> intent.file, yanked |-> FALSE]
      BY <3>3, <3>4 DEF PyPi!Listed
    <3> QED BY <2>1, <3>5
  <2> QED BY <1>4, <2>5, <2>6
<1> QED BY <1>1, <1>2, <1>3, <1>4

LEMMA PyPiObserveStep ==
  ASSUME PyPiInv, NEW intent \in uploads, PyPi!Observe(intent) PROVE PyPiInv'
<1>1. UNCHANGED <<index, uploads, bundle, pages>>
  BY DEF PyPi!Observe
<1>2. PICK listing \in index.past[intent.filename], page \in PyPi!Reading :
        /\ page = "missing" => listing = {}
        /\ read' = {[intent |-> intent, listing |-> listing,
                     status |-> PyPi!Classify(intent, PyPi!Facet(listing, page),
                                              pages[intent].outcome = "Accepted")]}
  BY DEF PyPi!Observe
<1>3. listing \in PyPi!Listing
  BY DEF PyPiInv, IndexTyped, PyPi!UploadIntent
<1> DEFINE status == PyPi!Classify(intent, PyPi!Facet(listing, page),
                                   pages[intent].outcome = "Accepted")
<1>4. /\ status = "Satisfied" => listing = {[file |-> intent.file, yanked |-> FALSE]}
      /\ status \in {"Absent", "Pending"} => listing = {}
  BY <1>2, <1>3, PyPiClassified
<1>5. read' = {[intent |-> intent, listing |-> listing, status |-> status]}
  BY <1>2
<1> HIDE DEF status
<1>6. PyPi!ObservationsTrue'
  BY <1>4, <1>5 DEF PyPi!ObservationsTrue
<1>7. IndexTyped' /\ FormsKept' /\ PyPi!OutcomesTrue'
      /\ (PyPi!DuplicateDistribution(uploads)' <=> PyPi!DuplicateDistribution(uploads))
  BY <1>1 DEF PyPiInv, IndexTyped, FormsKept, PyPi!Sent, PyPi!Inspected, PyPi!OutcomesTrue,
     PyPi!DuplicateDistribution
<1> QED BY <1>1, <1>6, <1>7 DEF PyPiInv

LEMMA PyPiForeignStep == ASSUME PyPiInv, PyPi!Foreign PROVE PyPiInv'
<1>1. UNCHANGED <<uploads, bundle, pages, read>>
  BY DEF PyPi!Foreign
<1>2. PICK filename \in Filename, listed \in PyPi!Listed :
        index' = [PyPi!Lists(filename, listed) EXCEPT !.foreign = @ + 1]
  BY DEF PyPi!Foreign
<1>3. IndexTyped'
  <2>1. IndexTyped /\ index.foreign + 1 \in Nat
    BY DEF PyPiInv, IndexTyped
  <2>2. index' = [now |-> [index.now EXCEPT ![filename] = {listed}],
                  past |-> [index.past EXCEPT ![filename] = @ \cup {{listed}}],
                  foreign |-> index.foreign + 1]
    <3> DEFINE now == [index.now EXCEPT ![filename] = {listed}]
               past == [index.past EXCEPT ![filename] = @ \cup {{listed}}]
    <3>1. PyPi!Lists(filename, listed) = [now |-> now, past |-> past, foreign |-> index.foreign]
      BY <2>1, ListsMeans
    <3> HIDE DEF now, past
    <3>2. index' = [now |-> now, past |-> past, foreign |-> index.foreign + 1]
      BY <1>2, <3>1
    <3> QED BY <3>2 DEF now, past
  <2> QED BY <2>1, <2>2, ListsTyped
<1>4. FormsKept' /\ PyPi!OutcomesTrue' /\ PyPi!ObservationsTrue'
      /\ (PyPi!DuplicateDistribution(uploads)' <=> PyPi!DuplicateDistribution(uploads))
  BY <1>1 DEF PyPiInv, FormsKept, PyPi!Sent, PyPi!Inspected, PyPi!OutcomesTrue,
     PyPi!ObservationsTrue, PyPi!DuplicateDistribution
<1> QED BY <1>1, <1>3, <1>4 DEF PyPiInv

LEMMA PyPiStep == ASSUME PyPiInv, PyPi!Next PROVE PyPiInv'
BY PyPiPrepareStep, PyPiSendStep, PyPiCommitStep, PyPiAnswerStep, PyPiObserveStep,
   PyPiForeignStep DEF PyPi!Next

LEMMA PyPiTyped == ASSUME PyPiInv PROVE PyPi!TypeOK
BY DEF PyPiInv, IndexTyped, Uploading, PyPi!TypeOK, None, PyPi!None

\* Two files of one name would be two operations of one version, which a plan has not.
LEMMA PyPiSafe ==
  ASSUME PyPiInv
  PROVE  PyPi!OutcomesTrue /\ PyPi!ObservationsTrue /\ PyPi!NamesDistinct /\ PyPi!OneReading
<1>1. PyPi!NamesDistinct
  <2> SUFFICES ASSUME NEW one \in uploads, NEW other \in uploads, PyPi!Sent(one),
                      PyPi!Sent(other), one # other, one.filename = other.filename
               PROVE  FALSE
    BY DEF PyPi!NamesDistinct
  <2>1. one.coordinate = other.coordinate
    BY DEF PyPiInv, FormsKept
  <2> QED BY <2>1 DEF PyPiInv, PyPi!DuplicateDistribution
<1>2. PyPi!OneReading
  <2> SUFFICES ASSUME NEW intent \in uploads, PyPi!Sent(intent)
               PROVE  /\ pages[intent].body = intent.file
                      /\ ~ bundle[intent.file].overlap
                      /\ {member.says : member \in bundle[intent.file].members}
                           = {intent.coordinate}
    BY DEF PyPi!OneReading
  <2>1. /\ pages[intent].body = intent.file
        /\ PyPi!Inspected(intent.filename, bundle[intent.file])
        /\ Spells[intent.filename] = intent.coordinate
    BY DEF PyPiInv, FormsKept
  <2>2. PICK member \in bundle[intent.file].members :
          bundle[intent.file].members = {member} /\ member.says = Spells[intent.filename]
    BY <2>1 DEF PyPi!Inspected
  <2> QED BY <2>1, <2>2 DEF PyPi!Inspected
<1> QED BY <1>1, <1>2 DEF PyPiInv

-----------------------------------------------------------------------------
(* GitHub *)

\* An asset is none of the other operations.
LEMMA HubNames ==
  /\ Asset \cap {"none", "other", "object", "ref", "draft", "publish"} = {}
  /\ GitHub!Operation = {"object", "ref", "draft", "publish"} \cup Asset
BY ProviderAssumptions DEF GitHub!GitHubAssumption, GitHub!None, GitHub!Other, GitHub!Operation

LEMMA HubParents ==
  ASSUME NEW p \in GitHub!Plans
  PROVE  /\ \A op \in GitHub!Operation : GitHub!RequiredParents(p, op) \subseteq GitHub!Operation
         /\ \A asset \in Asset : GitHub!RequiredParents(p, asset) = {"draft"}
         /\ GitHub!RequiredParents(p, "publish") = {"draft"} \cup p.publishes
<1>1. p.publishes \subseteq Asset
  BY DEF GitHub!Plans
<1>2. \A asset \in Asset : GitHub!RequiredParents(p, asset) = {"draft"}
  BY HubNames DEF GitHub!RequiredParents
<1>3. GitHub!RequiredParents(p, "publish") = {"draft"} \cup p.publishes
  BY HubNames DEF GitHub!RequiredParents
<1>4. \A op \in {"object", "ref", "draft"} :
        GitHub!RequiredParents(p, op) \subseteq {"object", "ref"}
  BY HubNames DEF GitHub!RequiredParents
<1> QED BY <1>1, <1>2, <1>3, <1>4, HubNames

\* What is read next, and what is left to read.
LEMMA NextRead ==
  ASSUME NEW todo, todo # <<>>
  PROVE  /\ todo \in {<<"object">>, <<"namespace", "object">>} =>
              \/ Head(todo) = "namespace" /\ Tail(todo) = <<"object">>
              \/ Head(todo) = "object" /\ Tail(todo) = <<>>
         /\ todo \in AfterListing \cup {ToList, ToFind, ToRead} =>
              \/ Head(todo) = "namespace" /\ todo = ToRead /\ Tail(todo) = ToFind
              \/ Head(todo) = "release" /\ todo = ToFind /\ Tail(todo) = ToList
              \/ Head(todo) = "assets" /\ todo = ToList /\ Tail(todo) = ToDownload
              \/ Head(todo) = "downloads" /\ todo = ToDownload /\ Tail(todo) = <<"ref">>
              \/ Head(todo) = "ref" /\ todo = <<"ref">> /\ Tail(todo) = <<>>
<1>1. Head(<<"object">>) = "object" /\ Tail(<<"object">>) = <<>>
  OBVIOUS
<1>2. Head(<<"namespace", "object">>) = "namespace" /\ Tail(<<"namespace", "object">>) = <<"object">>
  OBVIOUS
<1>3. Head(ToRead) = "namespace" /\ Tail(ToRead) = ToFind
  BY DEF ToRead, ToFind
<1>4. Head(ToFind) = "release" /\ Tail(ToFind) = ToList
  BY DEF ToFind, ToList
<1>5. Head(ToList) = "assets" /\ Tail(ToList) = ToDownload
  BY DEF ToList, ToDownload
<1>6. Head(ToDownload) = "downloads" /\ Tail(ToDownload) = <<"ref">>
  BY DEF ToDownload
<1>7. Head(<<"ref">>) = "ref" /\ Tail(<<"ref">>) = <<>>
  OBVIOUS
<1> QED BY <1>1, <1>2, <1>3, <1>4, <1>5, <1>6, <1>7 DEF AfterListing

LEMMA BeforeListing ==
  /\ {ToList, ToFind, ToRead} \cap AfterListing = {}
  /\ <<"ref">> \in AfterListing /\ <<>> \in AfterListing /\ ToDownload \in AfterListing
<1>1. /\ Len(ToRead) = 5 /\ Len(ToFind) = 4 /\ Len(ToList) = 3 /\ Len(ToDownload) = 2
      /\ Len(<<"ref">>) = 1 /\ Len(<<>>) = 0
  BY DEF ToDownload, ToList, ToFind, ToRead
<1> QED BY <1>1 DEF AfterListing

LEMMA HubInit == ASSUME GitHub!Init PROVE GitHubInv
<1>1. GitHub!ValidatePlan(plan) /\ plan \in GitHub!Plans
  BY DEF GitHub!Init
<1>2. WorldKept
  BY DEF GitHub!Init, GitHub!None, GitHub!Other, None, WorldKept, Identified, Worlds, Refs
<1>3. evidence = [op \in GitHub!Operation |->
                    [dispatched |-> FALSE, receipts |-> {}, seen |-> {}]]
  BY DEF GitHub!Init
<1>4. EvidenceKept
  BY <1>3, HubNames DEF EvidenceKept
<1>5. work = [doing |-> "idle"] /\ world.releases = {}
  BY DEF GitHub!Init, GitHub!Idle
<1>6. GitHub!ObservationsTrue /\ GitHub!DraftPublishedWhole
  BY <1>5 DEF GitHub!ObservationsTrue, GitHub!DraftPublishedWhole
<1> QED BY <1>1, <1>2, <1>4, <1>5, <1>6 DEF GitHubInv

\* Left alone, what is public is the whole plan.
LEMMA PublicWhole ==
  GitHub!DraftPublishedWhole <=>
    /\ work.doing = "sending" /\ work.op = "publish" =>
         \A name \in plan.assets : \E w \in work.span : GitHub!Holds(w, GitHub!Parent.id, name)
    /\ world.foreign = 0 => \A r \in world.releases : ~ r.draft => Whole(r)
BY DEF GitHub!DraftPublishedWhole, Whole

\* The plan and the repository stay as they are.
LEMMA WorldStays ==
  ASSUME GitHubInv, UNCHANGED <<world, plan>>
  PROVE  /\ (GitHub!ValidatePlan(plan) /\ plan \in GitHub!Plans)' /\ WorldKept'
         /\ (world.foreign = 0 => \A r \in world.releases : ~ r.draft => Whole(r))'
<1>1. (GitHub!ValidatePlan(plan) /\ plan \in GitHub!Plans)'
  BY DEF GitHubInv, GitHub!ValidatePlan, GitHub!Plans, GitHub!Selected, GitHub!RequiredParents
<1>2. WorldKept'
  BY DEF GitHubInv, WorldKept, Identified
<1>3. world.foreign = 0 => \A r \in world.releases : ~ r.draft => Whole(r)
  BY PublicWhole DEF GitHubInv
<1> QED BY <1>1, <1>2, <1>3 DEF Whole, GitHub!Files

LEMMA StopKeeps ==
  ASSUME GitHubInv, UNCHANGED <<world, plan, evidence>>, work'.doing = "idle",
         "span" \notin DOMAIN work'
  PROVE  GitHubInv'
<1>1. EvidenceKept'
  BY DEF GitHubInv, EvidenceKept
<1>2. GitHub!ObservationsTrue'
  BY DEF GitHub!ObservationsTrue
<1>3. GitHub!DraftPublishedWhole'
  BY WorldStays, PublicWhole DEF GitHub!DraftPublishedWhole, Whole
<1> QED BY <1>1, <1>2, <1>3, WorldStays DEF GitHubInv

LEMMA StopStep == ASSUME GitHubInv, NEW status, GitHub!Stop(status) PROVE GitHubInv'
<1>1. UNCHANGED <<world, plan, evidence>>
      /\ \/ work' = [doing |-> "idle"]
         \/ work' = [doing |-> "idle", op |-> work.op, status |-> status]
  BY DEF GitHub!Stop, GitHub!Idle
<1>2. work'.doing = "idle" /\ "span" \notin DOMAIN work'
  BY <1>1
<1> QED BY <1>1, <1>2, StopKeeps

LEMMA ReadKeeps ==
  ASSUME GitHubInv, UNCHANGED <<world, plan, evidence>>, ReadingKept'
  PROVE  GitHubInv'
<1>1. EvidenceKept'
  BY DEF GitHubInv, EvidenceKept
<1>2. work'.doing = "reading"
  BY DEF ReadingKept, ReadingTyped
<1>3. GitHub!ObservationsTrue'
  BY <1>2 DEF GitHub!ObservationsTrue
<1>4. GitHub!DraftPublishedWhole'
  BY <1>2, WorldStays DEF GitHub!DraftPublishedWhole, Whole
<1> QED BY <1>1, <1>2, <1>3, <1>4, WorldStays DEF GitHubInv

\* Each operation is bound to one of the facts recorded of each of its parents, and its
\* release is the plan's own.
LEMMA BoundKept ==
  ASSUME GitHubInv, NEW op \in GitHub!Operation, GitHub!Bindable(op)
  PROVE  /\ GitHub!Bound(op) \in [GitHub!RequiredParents(plan, op) -> Facts]
         /\ op \in Asset \cup {"publish"} => GitHub!Bound(op)["draft"] \in Drafts
<1>1. GitHub!RequiredParents(plan, op) \subseteq GitHub!Operation
  BY HubParents DEF GitHubInv
<1>2. ASSUME NEW q \in GitHub!RequiredParents(plan, op)
      PROVE  GitHub!SelectedFacts(q) \in GitHub!Candidates(q)
  <2>1. GitHub!Candidates(q) # {}
    BY <1>2 DEF GitHub!Bindable, GitHub!MissingParents, GitHub!Known
  <2> DEFINE telling == {f \in GitHub!Candidates(q) :
                           \/ "draft" \in DOMAIN f /\ ~ f.draft
                           \/ "digest" \in DOMAIN f /\ f.digest}
             choices == IF telling # {} THEN telling ELSE GitHub!Candidates(q)
  <2>2. choices # {} /\ choices \subseteq GitHub!Candidates(q)
    BY <2>1
  <2>3. GitHub!SelectedFacts(q) = CHOOSE f \in choices : TRUE
    BY DEF GitHub!SelectedFacts
  <2> HIDE DEF choices
  <2> QED BY <2>2, <2>3
<1>3. ASSUME NEW q \in GitHub!Operation
      PROVE  GitHub!Candidates(q) \subseteq Facts
  BY DEF GitHub!Candidates, GitHubInv, EvidenceKept
<1>4. GitHub!Candidates("draft") \subseteq Drafts
  BY DEF GitHub!Candidates, GitHubInv, EvidenceKept
<1>5. GitHub!Bound(op) \in [GitHub!RequiredParents(plan, op) -> Facts]
  BY <1>1, <1>2, <1>3 DEF GitHub!Bound
<1>6. op \in Asset \cup {"publish"} => "draft" \in GitHub!RequiredParents(plan, op)
  BY HubParents DEF GitHubInv
<1> QED BY <1>2, <1>4, <1>5, <1>6 DEF GitHub!Bound

\* The reads of an operation.
LEMMA RouteMeans ==
  ASSUME NEW op \in GitHub!Operation, NEW purpose \in {"send", "observe"}
  PROVE  /\ GitHub!Route(op, purpose) \in Seq(Stages)
         /\ op = "publish" => GitHub!Route(op, purpose) = ToRead
         /\ op = "object" => GitHub!Route(op, purpose) =
              IF purpose = "send" THEN <<>> ELSE <<"namespace", "object">>
<1>1. /\ <<>> \in Seq(Stages) /\ <<"release">> \in Seq(Stages)
      /\ <<"namespace", "object">> \in Seq(Stages) /\ <<"namespace", "ref">> \in Seq(Stages)
      /\ <<"namespace", "ref", "releases">> \in Seq(Stages)
      /\ <<"namespace", "release", "assets", "downloads">> \in Seq(Stages)
      /\ ToRead \in Seq(Stages)
  BY DEF Stages, ToRead
<1>2. CASE op \in Asset
  <2>1. GitHub!Route(op, purpose) =
          IF purpose = "send" THEN <<"release">>
          ELSE <<"namespace", "release", "assets", "downloads">>
    BY <1>2, HubNames DEF GitHub!Route
  <2> QED BY <1>1, <1>2, <2>1, HubNames
<1>3. CASE op = "object"
  <2>1. GitHub!Route(op, purpose) =
          IF purpose = "send" THEN <<>> ELSE <<"namespace", "object">>
    BY <1>3, HubNames DEF GitHub!Route
  <2> QED BY <1>1, <1>3, <2>1
<1>4. CASE op = "ref"
  <2>1. GitHub!Route(op, purpose) = IF purpose = "send" THEN <<>> ELSE <<"namespace", "ref">>
    BY <1>4, HubNames DEF GitHub!Route
  <2> QED BY <1>1, <1>4, <2>1
<1>5. CASE op = "draft"
  <2>1. GitHub!Route(op, purpose) = <<"namespace", "ref", "releases">>
    BY <1>5, HubNames DEF GitHub!Route
  <2> QED BY <1>1, <1>5, <2>1
<1>6. CASE op = "publish"
  <2>1. GitHub!Route(op, purpose) = ToRead
    BY <1>6, HubNames DEF GitHub!Route, ToRead
  <2> QED BY <1>1, <1>6, <2>1
<1> QED BY <1>2, <1>3, <1>4, <1>5, <1>6, HubNames

LEMMA HubBeginStep ==
  ASSUME GitHubInv, NEW op \in GitHub!Operation, GitHub!Begin(op) \/ GitHub!BeginObserve(op)
  PROVE  GitHubInv'
<1>1. UNCHANGED <<world, plan, evidence>> /\ GitHub!Bindable(op)
  BY DEF GitHub!Begin, GitHub!BeginObserve
<1>2. PICK purpose \in {"send", "observe"} : work' = GitHub!Reading(op, purpose)
  BY DEF GitHub!Begin, GitHub!BeginObserve
<1> DEFINE route == GitHub!Route(op, purpose)
           parents == GitHub!Bound(op)
<1>3. work' = [doing |-> "reading", op |-> op, purpose |-> purpose, todo |-> route,
               parents |-> parents, missing |-> FALSE, object |-> FALSE, ref |-> "none",
               releases |-> {}, release |-> {}, page |-> 1, last |-> 0, listed |-> <<>>,
               downloaded |-> {}, span |-> {world}]
  BY <1>2 DEF GitHub!Reading, GitHub!None
<1>4. /\ route \in Seq(Stages)
      /\ op = "publish" => route = ToRead
      /\ op = "object" => route = IF purpose = "send" THEN <<>> ELSE <<"namespace", "object">>
  BY RouteMeans
<1>5. /\ parents \in [GitHub!RequiredParents(plan, op) -> Facts]
      /\ op \in Asset \cup {"publish"} => parents["draft"] \in Drafts
  BY <1>1, BoundKept
<1> HIDE DEF route, parents
<1>6. GitHub!RequiredParents(plan, work.op)' = GitHub!RequiredParents(plan, op)
  BY <1>1, <1>3 DEF GitHub!RequiredParents
<1>7. world \in Worlds /\ world' = world
  BY <1>1 DEF GitHubInv, WorldKept, Identified
<1>8. ReadingTyped'
  BY <1>3, <1>4, <1>5, <1>6, <1>7 DEF ReadingTyped, Refs, None
<1>9. ParentOwn'
  BY <1>3, <1>5 DEF ParentOwn, GitHub!Parent
<1>10. FactsTrue'
  BY <1>3, <1>7 DEF FactsTrue, None
<1>11. ObjectRead' /\ PublicationReads'
  <2>1. <<"namespace", "object">> # <<>>
    OBVIOUS
  <2>2. /\ work'.op = op /\ work'.todo = route /\ work'.purpose = purpose
    BY <1>3
  <2> QED BY <1>4, <2>1, <2>2 DEF ObjectRead, PublicationReads
<1>12. ReadAlone'
  <2>1. ASSUME NEW r \in world.releases PROVE Paging(r.assets)'
    <3>1. r.assets \in Seq(GitHub!AssetFacts)
      BY <1>7 DEF Worlds, Releases
    <3>2. Len(r.assets) \in Nat
      BY <3>1
    <3> QED BY <1>3, <3>2 DEF Paging
  <2>2. work'.op = "publish" => work'.todo \notin AfterListing
    BY <1>3, <1>4, BeforeListing
  <2> QED BY <1>3, <1>7, <2>1, <2>2 DEF ReadAlone, GitHub!ReleaseAt
<1> QED BY <1>1, <1>8, <1>9, <1>10, <1>11, <1>12, ReadKeeps DEF ReadingKept

LEMMA HubReading ==
  ASSUME GitHubInv, work.doing = "reading"
  PROVE  /\ ReadingTyped /\ ParentOwn /\ FactsTrue /\ ObjectRead /\ PublicationReads /\ ReadAlone
         /\ world \in Worlds /\ world \in work.span
BY DEF GitHubInv, ReadingKept, WorldKept, Identified, FactsTrue

\* What was read before is still true of the span, and what is read now of the repository.
LEMMA FactsRead ==
  ASSUME FactsTrue, UNCHANGED world, work'.span = work.span, work'.parents = work.parents,
         work'.object => work.object \/ world.object,
         work'.ref # None => work'.ref = work.ref \/ work'.ref = world.ref,
         \A facts \in work'.releases :
           \/ facts \in work.releases
           \/ \E r \in world.releases : facts = GitHub!ReleaseFacts(r),
         \A facts \in work'.release :
           \/ facts \in work.release
           \/ /\ GitHub!Stable(facts) = GitHub!Stable(GitHub!Parent)
              /\ \E r \in GitHub!ReleaseAt(world, GitHub!Parent.id) : facts = GitHub!ReleaseFacts(r),
         \A i \in DOMAIN work'.listed :
           \/ i \in DOMAIN work.listed /\ work'.listed[i] = work.listed[i]
           \/ \E r \in GitHub!ReleaseAt(world, GitHub!Parent.id) :
                work'.listed[i] \in GitHub!Files(r)
  PROVE  FactsTrue'
<1>1. GitHub!Parent' = GitHub!Parent
  BY DEF GitHub!Parent
<1>2. world' = world /\ world \in work.span
  BY DEF FactsTrue
<1>3. \A facts \in work'.releases :
        \E w \in work.span : \E r \in w.releases : facts = GitHub!ReleaseFacts(r)
  BY <1>2 DEF FactsTrue
<1>4. \A facts \in work'.release :
        /\ GitHub!Stable(facts) = GitHub!Stable(GitHub!Parent)
        /\ \E w \in work.span : \E r \in GitHub!ReleaseAt(w, GitHub!Parent.id) :
             facts = GitHub!ReleaseFacts(r)
  BY <1>2 DEF FactsTrue
<1>5. \A i \in DOMAIN work'.listed :
        \E w \in work.span : \E r \in GitHub!ReleaseAt(w, GitHub!Parent.id) :
          work'.listed[i] \in GitHub!Files(r)
  BY <1>2 DEF FactsTrue
<1>6. /\ work'.object => \E w \in work.span : w.object
      /\ work'.ref # None => \E w \in work.span : w.ref = work'.ref
  BY <1>2 DEF FactsTrue
<1>7. /\ \A r : GitHub!ReleaseFacts(r)' = GitHub!ReleaseFacts(r)
      /\ \A w, id : GitHub!ReleaseAt(w, id)' = GitHub!ReleaseAt(w, id)
      /\ \A r : GitHub!Files(r)' = GitHub!Files(r)
      /\ \A facts : GitHub!Stable(facts)' = GitHub!Stable(facts)
  BY DEF GitHub!ReleaseFacts, GitHub!ReleaseAt, GitHub!Files, GitHub!Stable
<1> QED BY <1>1, <1>2, <1>3, <1>4, <1>5, <1>6, <1>7 DEF FactsTrue

\* A read that is not of the assets.
LEMMA ReadOn ==
  ASSUME GitHubInv, work.doing = "reading", UNCHANGED <<world, plan, evidence>>,
         ReadingTyped', FactsTrue',
         work'.op = work.op, work'.parents = work.parents, work'.span = work.span,
         work'.missing = work.missing, work'.page = work.page, work'.last = work.last,
         work'.listed = work.listed,
         work.todo # <<>>, work'.todo = Tail(work.todo), Head(work.todo) # "assets",
         Head(work.todo) = "object" => work'.object
  PROVE  GitHubInv'
<1>1. ParentOwn /\ ObjectRead /\ PublicationReads /\ ReadAlone
  BY HubReading
<1>2. GitHub!Parent' = GitHub!Parent
  BY DEF GitHub!Parent
<1>3. ParentOwn'
  BY <1>1, <1>2 DEF ParentOwn
<1>4. ObjectRead'
  <2>1. <<"object">> # <<>>
    OBVIOUS
  <2> QED BY <1>1, <2>1, NextRead DEF ObjectRead
<1>5. PublicationReads'
  <2>1. work.op = "publish" => work'.todo \in {<<>>, <<"ref">>, ToList, ToFind, ToDownload}
    BY <1>1, NextRead DEF PublicationReads
  <2> QED BY <2>1 DEF PublicationReads, AfterListing
<1>6. work.op = "publish" => (work'.todo \in AfterListing <=> work.todo \in AfterListing)
  <2>1. work.op = "publish" =>
          \/ work.todo = ToRead /\ work'.todo = ToFind
          \/ work.todo = ToFind /\ work'.todo = ToList
          \/ work.todo = ToDownload /\ work'.todo = <<"ref">>
          \/ work.todo = <<"ref">> /\ work'.todo = <<>>
    BY <1>1, NextRead DEF PublicationReads
  <2>2. /\ ToRead \notin AfterListing /\ ToFind \notin AfterListing /\ ToList \notin AfterListing
        /\ ToDownload \in AfterListing /\ <<"ref">> \in AfterListing /\ <<>> \in AfterListing
    BY BeforeListing
  <2> QED BY <2>1, <2>2
<1>7. ReadAlone'
  <2>1. \A r : Paging(r.assets)' <=> Paging(r.assets)
    BY DEF Paging
  <2>2. \A w, id : GitHub!ReleaseAt(w, id)' = GitHub!ReleaseAt(w, id)
    BY DEF GitHub!ReleaseAt
  <2> QED BY <1>1, <1>2, <1>6, <2>1, <2>2 DEF ReadAlone
<1> QED BY <1>3, <1>4, <1>5, <1>7, ReadKeeps DEF ReadingKept

\* The parents are those of the same operation in the same plan.
LEMMA ParentsStay ==
  ASSUME UNCHANGED plan, work'.op = work.op
  PROVE  GitHub!RequiredParents(plan, work.op)' = GitHub!RequiredParents(plan, work.op)
BY DEF GitHub!RequiredParents

LEMMA TodoTail ==
  ASSUME ReadingTyped, work.todo # <<>>
  PROVE  Tail(work.todo) \in Seq(Stages)
BY DEF ReadingTyped

LEMMA MissingStep == ASSUME GitHubInv, work.doing = "reading", GitHub!Missing PROVE GitHubInv'
<1>1. ReadingTyped /\ ParentOwn /\ FactsTrue /\ ObjectRead /\ PublicationReads /\ ReadAlone
  BY HubReading
<1>2. UNCHANGED <<world, plan, evidence>> /\ work' = [work EXCEPT !.todo = <<>>, !.missing = TRUE]
  BY DEF GitHub!Missing
<1>3. /\ work'.op = work.op /\ work'.purpose = work.purpose /\ work'.parents = work.parents
      /\ work'.span = work.span /\ work'.object = work.object /\ work'.ref = work.ref
      /\ work'.releases = work.releases /\ work'.release = work.release
      /\ work'.listed = work.listed /\ work'.todo = <<>> /\ work'.missing = TRUE
  BY <1>1, <1>2 DEF ReadingTyped
<1>4. ReadingTyped'
  <2>1. <<>> \in Seq(Stages)
    OBVIOUS
  <2> QED BY <1>1, <1>2, <1>3, <2>1, ParentsStay DEF ReadingTyped
<1>5. FactsTrue'
  BY <1>1, <1>2, <1>3, FactsRead
<1>6. ParentOwn'
  BY <1>1, <1>3 DEF ParentOwn, GitHub!Parent
<1>7. ObjectRead' /\ PublicationReads' /\ ReadAlone'
  BY <1>1, <1>2, <1>3, BeforeListing DEF ObjectRead, PublicationReads, ReadAlone
<1> QED BY <1>2, <1>4, <1>5, <1>6, <1>7, ReadKeeps DEF ReadingKept

\* Each read of evidence but the assets, the one thing after the other.
LEMMA HubNamespaceStep ==
  ASSUME GitHubInv, work.doing = "reading", GitHub!ReadNamespace PROVE GitHubInv'
<1>1. ReadingTyped /\ FactsTrue
  BY HubReading
<1>2. /\ UNCHANGED <<world, plan, evidence>> /\ work.todo # <<>> /\ Head(work.todo) = "namespace"
      /\ work' = [work EXCEPT !.todo = Tail(@)]
  BY DEF GitHub!ReadNamespace, GitHub!Read, GitHub!Found
<1>3. Tail(work.todo) \in Seq(Stages)
  BY <1>1, <1>2, TodoTail
<1> DEFINE todo == Tail(work.todo)
<1>4. work' = [work EXCEPT !.todo = todo]
  BY <1>2
<1> HIDE DEF todo
<1>5. /\ work'.op = work.op /\ work'.parents = work.parents /\ work'.span = work.span
      /\ work'.missing = work.missing /\ work'.page = work.page /\ work'.last = work.last
      /\ work'.listed = work.listed /\ work'.todo = todo /\ work'.object = work.object
      /\ work'.ref = work.ref /\ work'.releases = work.releases /\ work'.release = work.release
  BY <1>1, <1>4 DEF ReadingTyped
<1>6. ReadingTyped'
  BY <1>1, <1>2, <1>3, <1>4, <1>5, ParentsStay DEF ReadingTyped, todo
<1>7. FactsTrue'
  BY <1>1, <1>2, <1>5, FactsRead
<1> QED BY <1>2, <1>5, <1>6, <1>7, ReadOn DEF todo

LEMMA HubObjectStep ==
  ASSUME GitHubInv, work.doing = "reading", GitHub!ReadObject PROVE GitHubInv'
<1>1. ReadingTyped /\ FactsTrue
  BY HubReading
<1>2. work.todo # <<>> /\ Head(work.todo) = "object"
  BY DEF GitHub!ReadObject, GitHub!Read
<1>3. CASE ~ world.object
  BY <1>3, MissingStep DEF GitHub!ReadObject
<1>4. CASE world.object
  <2> DEFINE todo == Tail(work.todo)
  <2>1. todo \in Seq(Stages)
    BY <1>1, <1>2, TodoTail
  <2>2. UNCHANGED <<world, plan, evidence>>
        /\ work' = [[work EXCEPT !.object = TRUE] EXCEPT !.todo = Tail(@)]
    BY <1>4 DEF GitHub!ReadObject, GitHub!Found
  <2>3. work' = [work EXCEPT !.object = TRUE, !.todo = todo]
    BY <1>1, <2>2 DEF ReadingTyped
  <2> HIDE DEF todo
  <2>4. /\ work'.op = work.op /\ work'.parents = work.parents /\ work'.span = work.span
        /\ work'.missing = work.missing /\ work'.page = work.page /\ work'.last = work.last
        /\ work'.listed = work.listed /\ work'.todo = todo /\ work'.object
        /\ work'.ref = work.ref /\ work'.releases = work.releases /\ work'.release = work.release
    BY <1>1, <2>3 DEF ReadingTyped
  <2>5. ReadingTyped'
    BY <1>1, <2>1, <2>2, <2>3, <2>4, ParentsStay DEF ReadingTyped
  <2>6. FactsTrue'
    BY <1>1, <1>4, <2>2, <2>4, FactsRead
  <2> QED BY <1>2, <2>2, <2>4, <2>5, <2>6, ReadOn DEF todo
<1> QED BY <1>3, <1>4

LEMMA HubRefStep ==
  ASSUME GitHubInv, work.doing = "reading", GitHub!ReadRef PROVE GitHubInv'
<1>1. ReadingTyped /\ FactsTrue /\ world.ref \in Refs
  BY HubReading DEF Worlds
<1>2. work.todo # <<>> /\ Head(work.todo) = "ref"
  BY DEF GitHub!ReadRef, GitHub!Read
<1>3. CASE GitHub!Missing \/ GitHub!Stop("Inconclusive")
  BY <1>3, MissingStep, StopStep
<1>4. CASE ~ (GitHub!Missing \/ GitHub!Stop("Inconclusive"))
  <2> DEFINE todo == Tail(work.todo)
  <2>1. todo \in Seq(Stages)
    BY <1>1, <1>2, TodoTail
  <2>2. UNCHANGED <<world, plan, evidence>>
        /\ work' = [[work EXCEPT !.ref = world.ref] EXCEPT !.todo = Tail(@)]
    BY <1>4 DEF GitHub!ReadRef, GitHub!Found
  <2>3. work' = [work EXCEPT !.ref = world.ref, !.todo = todo]
    BY <1>1, <2>2 DEF ReadingTyped
  <2> HIDE DEF todo
  <2>4. /\ work'.op = work.op /\ work'.parents = work.parents /\ work'.span = work.span
        /\ work'.missing = work.missing /\ work'.page = work.page /\ work'.last = work.last
        /\ work'.listed = work.listed /\ work'.todo = todo /\ work'.object = work.object
        /\ work'.ref = world.ref /\ work'.releases = work.releases
        /\ work'.release = work.release
    BY <1>1, <2>3 DEF ReadingTyped
  <2>5. ReadingTyped'
    BY <1>1, <2>1, <2>2, <2>3, <2>4, ParentsStay DEF ReadingTyped
  <2>6. FactsTrue'
    BY <1>1, <2>2, <2>4, FactsRead
  <2> QED BY <1>2, <2>2, <2>4, <2>5, <2>6, ReadOn DEF todo
<1> QED BY <1>3, <1>4

LEMMA ReleaseDescribed ==
  ASSUME NEW w \in Worlds, NEW r \in w.releases
  PROVE  /\ r \in Releases /\ GitHub!ReleaseFacts(r) \in Described
         /\ GitHub!ReleaseFacts(r) = [id |-> r.id, draft |-> r.draft, own |-> r.own]
<1>1. r \in Releases
  BY DEF Worlds
<1> QED BY <1>1 DEF Releases, Described, GitHub!ReleaseFacts

LEMMA HubReleasesStep ==
  ASSUME GitHubInv, work.doing = "reading", GitHub!ReadReleases PROVE GitHubInv'
<1>1. ReadingTyped /\ FactsTrue /\ world \in Worlds
  BY HubReading
<1>2. work.todo # <<>> /\ Head(work.todo) = "releases"
  BY DEF GitHub!ReadReleases, GitHub!Read
<1>3. CASE GitHub!Missing \/ GitHub!Stop("Inconclusive")
  BY <1>3, MissingStep, StopStep
<1>4. CASE ~ (GitHub!Missing \/ GitHub!Stop("Inconclusive"))
  <2> DEFINE todo == Tail(work.todo)
             releases == {GitHub!ReleaseFacts(r) : r \in world.releases}
  <2>1. todo \in Seq(Stages)
    BY <1>1, <1>2, TodoTail
  <2>2. releases \in SUBSET Described
    BY <1>1, ReleaseDescribed
  <2>3. \A facts \in releases : \E r \in world.releases : facts = GitHub!ReleaseFacts(r)
    OBVIOUS
  <2>4. UNCHANGED <<world, plan, evidence>>
        /\ work' = [[work EXCEPT !.releases = releases] EXCEPT !.todo = Tail(@)]
    BY <1>4 DEF GitHub!ReadReleases, GitHub!Found
  <2> HIDE DEF releases
  <2>5. work' = [work EXCEPT !.releases = releases, !.todo = todo]
    BY <1>1, <2>4 DEF ReadingTyped
  <2> HIDE DEF todo
  <2>6. /\ work'.op = work.op /\ work'.parents = work.parents /\ work'.span = work.span
        /\ work'.missing = work.missing /\ work'.page = work.page /\ work'.last = work.last
        /\ work'.listed = work.listed /\ work'.todo = todo /\ work'.object = work.object
        /\ work'.ref = work.ref /\ work'.releases = releases
        /\ work'.release = work.release
    BY <1>1, <2>5 DEF ReadingTyped
  <2>7. ReadingTyped'
    BY <1>1, <2>1, <2>2, <2>4, <2>5, <2>6, ParentsStay DEF ReadingTyped
  <2>8. FactsTrue'
    BY <1>1, <2>3, <2>4, <2>6, FactsRead
  <2> QED BY <1>2, <2>4, <2>6, <2>7, <2>8, ReadOn DEF todo
<1> QED BY <1>3, <1>4

LEMMA HubReleaseStep ==
  ASSUME GitHubInv, work.doing = "reading", GitHub!ReadRelease PROVE GitHubInv'
<1>1. ReadingTyped /\ FactsTrue /\ world \in Worlds
  BY HubReading
<1>2. work.todo # <<>> /\ Head(work.todo) = "release"
  BY DEF GitHub!ReadRelease, GitHub!Read
<1>3. CASE GitHub!Missing \/ \E status : GitHub!Stop(status)
  BY <1>3, MissingStep, StopStep
<1>4. CASE ~ (GitHub!Missing \/ \E status : GitHub!Stop(status))
  <2> DEFINE todo == Tail(work.todo)
  <2>1. todo \in Seq(Stages)
    BY <1>1, <1>2, TodoTail
  <2>2. PICK facts \in {GitHub!ReleaseFacts(r) : r \in GitHub!ReleaseAt(world, GitHub!Parent.id)} :
          /\ GitHub!Stable(facts) = GitHub!Stable(GitHub!Parent)
          /\ GitHub!Found([work EXCEPT !.release = {facts}])
    BY <1>4 DEF GitHub!ReadRelease
  <2>3. PICK r \in GitHub!ReleaseAt(world, GitHub!Parent.id) : facts = GitHub!ReleaseFacts(r)
    BY <2>2
  <2>4. r \in world.releases
    BY <2>3 DEF GitHub!ReleaseAt
  <2>5. {facts} \in SUBSET Described
    BY <1>1, <2>3, <2>4, ReleaseDescribed
  <2>6. UNCHANGED <<world, plan, evidence>>
        /\ work' = [[work EXCEPT !.release = {facts}] EXCEPT !.todo = Tail(@)]
    BY <2>2 DEF GitHub!Found
  <2>7. work' = [work EXCEPT !.release = {facts}, !.todo = todo]
    BY <1>1, <2>6 DEF ReadingTyped
  <2> HIDE DEF todo
  <2>8. /\ work'.op = work.op /\ work'.parents = work.parents /\ work'.span = work.span
        /\ work'.missing = work.missing /\ work'.page = work.page /\ work'.last = work.last
        /\ work'.listed = work.listed /\ work'.todo = todo /\ work'.object = work.object
        /\ work'.ref = work.ref /\ work'.releases = work.releases
        /\ work'.release = {facts}
    BY <1>1, <2>7 DEF ReadingTyped
  <2>9. ReadingTyped'
    BY <1>1, <2>1, <2>5, <2>6, <2>7, <2>8, ParentsStay DEF ReadingTyped
  <2>10. FactsTrue'
    BY <1>1, <2>2, <2>3, <2>6, <2>8, FactsRead
  <2> QED BY <1>2, <2>6, <2>8, <2>9, <2>10, ReadOn DEF todo
<1> QED BY <1>3, <1>4

\* Downloads, one at a time, until every asset is known by a digest.
LEMMA HubDownloadsStep ==
  ASSUME GitHubInv, work.doing = "reading", GitHub!ReadDownloads PROVE GitHubInv'
<1>1. ReadingTyped /\ ParentOwn /\ FactsTrue /\ ObjectRead /\ PublicationReads /\ ReadAlone
  BY HubReading
<1>2. work.todo # <<>> /\ Head(work.todo) = "downloads"
  BY DEF GitHub!ReadDownloads, GitHub!Read
<1>3. CASE GitHub!Stop("Inconclusive")
  BY <1>3, StopStep
<1>4. CASE GitHub!Found(work)
  <2> DEFINE todo == Tail(work.todo)
  <2>1. todo \in Seq(Stages)
    BY <1>1, <1>2, TodoTail
  <2>2. UNCHANGED <<world, plan, evidence>> /\ work' = [work EXCEPT !.todo = todo]
    BY <1>4 DEF GitHub!Found
  <2> HIDE DEF todo
  <2>3. /\ work'.op = work.op /\ work'.parents = work.parents /\ work'.span = work.span
        /\ work'.missing = work.missing /\ work'.page = work.page /\ work'.last = work.last
        /\ work'.listed = work.listed /\ work'.todo = todo /\ work'.object = work.object
        /\ work'.ref = work.ref /\ work'.releases = work.releases
        /\ work'.release = work.release
    BY <1>1, <2>2 DEF ReadingTyped
  <2>4. ReadingTyped'
    BY <1>1, <2>1, <2>2, <2>3, ParentsStay DEF ReadingTyped
  <2>5. FactsTrue'
    BY <1>1, <2>2, <2>3, FactsRead
  <2> QED BY <1>2, <2>2, <2>3, <2>4, <2>5, ReadOn DEF todo
<1>5. ASSUME NEW a \in GitHub!Undigested, work' = [work EXCEPT !.downloaded = @ \cup {a}],
             UNCHANGED <<world, plan, evidence>>
      PROVE  GitHubInv'
  <2>1. a \in GitHub!AssetFacts
    <3>1. PICK i \in DOMAIN work.listed : a = work.listed[i]
      BY DEF GitHub!Undigested
    <3>2. work.listed \in Seq(GitHub!AssetFacts)
      BY <1>1 DEF ReadingTyped
    <3> QED BY <3>1, <3>2
  <2>2. /\ work'.op = work.op /\ work'.parents = work.parents /\ work'.span = work.span
        /\ work'.missing = work.missing /\ work'.page = work.page /\ work'.last = work.last
        /\ work'.listed = work.listed /\ work'.todo = work.todo /\ work'.object = work.object
        /\ work'.ref = work.ref /\ work'.releases = work.releases
        /\ work'.release = work.release /\ work'.purpose = work.purpose
    BY <1>1, <1>5 DEF ReadingTyped
  <2>3. ReadingTyped'
    BY <1>1, <1>5, <2>1, <2>2, ParentsStay DEF ReadingTyped
  <2>4. FactsTrue'
    BY <1>1, <1>5, <2>2, FactsRead
  <2>5. ParentOwn' /\ ObjectRead' /\ PublicationReads'
    BY <1>1, <2>2 DEF ParentOwn, GitHub!Parent, ObjectRead, PublicationReads
  <2>6. ReadAlone'
    BY <1>1, <1>5, <2>2 DEF ReadAlone, GitHub!ReleaseAt, GitHub!Parent, Paging
  <2> QED BY <1>5, <2>3, <2>4, <2>5, <2>6, ReadKeeps DEF ReadingKept
<1> QED BY <1>3, <1>4, <1>5 DEF GitHub!ReadDownloads

\* One page more of a listing, after those that were read.
LEMMA PageRead ==
  ASSUME NEW S, NEW listing \in Seq(S), NEW listed \in Seq(S), NEW page \in Nat \ {0},
         NEW last \in Nat, NEW items, NEW told,
         items = IF page <= Len(listing) THEN <<listing[page]>> ELSE <<>>,
         told = IF page < Len(listing) THEN Len(listing) ELSE last
  PROVE  /\ listed \o items \in Seq(S) /\ told \in Nat
         /\ \A i \in DOMAIN (listed \o items) :
              \/ i \in DOMAIN listed /\ (listed \o items)[i] = listed[i]
              \/ \E k \in DOMAIN listing : (listed \o items)[i] = listing[k]
<1>1. Len(listing) \in Nat /\ DOMAIN listing = 1 .. Len(listing)
  BY LenProperties
<1>2. items \in Seq(S)
  <2>1. CASE page <= Len(listing)
    <3>1. listing[page] \in S
      BY <1>1, <2>1, ElementOfSeq
    <3> QED BY <2>1, <3>1
  <2>2. CASE ~ page <= Len(listing)
    BY <2>2
  <2> QED BY <2>1, <2>2
<1>3. /\ listed \o items \in Seq(S) /\ Len(listed \o items) = Len(listed) + Len(items)
      /\ \A i \in 1 .. Len(listed) + Len(items) :
           (listed \o items)[i] = IF i <= Len(listed) THEN listed[i] ELSE items[i - Len(listed)]
  BY <1>2, ConcatProperties
<1>4. /\ DOMAIN (listed \o items) = 1 .. Len(listed) + Len(items)
      /\ Len(listed) \in Nat /\ Len(items) \in Nat /\ DOMAIN listed = 1 .. Len(listed)
  BY <1>2, <1>3, LenProperties
<1>5. ASSUME NEW i \in DOMAIN (listed \o items), ~ i <= Len(listed)
      PROVE  \E k \in DOMAIN listing : (listed \o items)[i] = listing[k]
  <2>1. page <= Len(listing)
    <3>1. CASE items = <<>>
      BY <1>4, <1>5, <3>1
    <3>2. CASE items # <<>>
      BY <3>2
    <3> QED BY <3>1, <3>2
  <2>2. items = <<listing[page]>> /\ Len(items) = 1
    BY <2>1
  <2>3. i = Len(listed) + 1
    BY <1>4, <1>5, <2>2
  <2>4. (listed \o items)[i] = items[1]
    BY <1>3, <1>4, <1>5, <2>3
  <2> QED BY <1>1, <2>1, <2>2, <2>4
<1>6. told \in Nat
  BY <1>1
<1> QED BY <1>3, <1>4, <1>5, <1>6

\* A listing that does not change is read page by page to its end.
LEMMA PageReadAlone ==
  ASSUME NEW S, NEW listing \in Seq(S), NEW listed \in Seq(S), NEW page \in Nat \ {0},
         NEW last \in Nat, NEW items, NEW told,
         items = IF page <= Len(listing) THEN <<listing[page]>> ELSE <<>>,
         told = IF page < Len(listing) THEN Len(listing) ELSE last,
         Len(listed) = page - 1, page <= Len(listing) + 1,
         \A i \in DOMAIN listed : listed[i] = listing[i],
         last \in {0, Len(listing)}, last = 0 => page = 1 \/ Len(listing) <= 1
  PROVE  IF page < told \/ (told = 0 /\ items # <<>>)
         THEN /\ Len(listed \o items) = page /\ page + 1 <= Len(listing) + 1
              /\ \A i \in DOMAIN (listed \o items) : (listed \o items)[i] = listing[i]
              /\ told \in {0, Len(listing)}
              /\ told = 0 => Len(listing) <= 1
         ELSE listed \o items = listing
<1>1. /\ Len(listing) \in Nat /\ Len(listed) \in Nat
      /\ DOMAIN listed = 1 .. Len(listed)
  BY LenProperties
<1>2. CASE page <= Len(listing)
  <2>1. items = <<listing[page]>> /\ listing[page] \in S
    BY <1>1, <1>2, ElementOfSeq
  <2>2. items \in Seq(S) /\ Len(items) = 1 /\ items[1] = listing[page] /\ items # <<>>
    <3> DEFINE item == listing[page]
    <3>1. items = <<item>> /\ item \in S
      BY <2>1
    <3> HIDE DEF item
    <3>2. <<item>> \in Seq(S) /\ Len(<<item>>) = 1 /\ <<item>>[1] = item /\ <<item>> # <<>>
      BY <3>1
    <3> QED BY <3>1, <3>2 DEF item
  <2>3. /\ listed \o items \in Seq(S) /\ Len(listed \o items) = page
        /\ \A i \in 1 .. page :
             (listed \o items)[i] = IF i <= Len(listed) THEN listed[i] ELSE items[i - Len(listed)]
    BY <1>1, <2>2, ConcatProperties
  <2>4. \A i \in 1 .. page : (listed \o items)[i] = listing[i]
    <3> TAKE i \in 1 .. page
    <3>1. CASE i <= Len(listed)
      <4>1. i \in DOMAIN listed /\ (listed \o items)[i] = listed[i]
        BY <1>1, <2>3, <3>1
      <4> QED BY <4>1
    <3>2. CASE ~ i <= Len(listed)
      <4>1. i = page /\ i - Len(listed) = 1
        BY <1>1, <3>2
      <4> QED BY <2>2, <2>3, <3>2, <4>1
    <3> QED BY <3>1, <3>2
  <2>5. DOMAIN (listed \o items) = 1 .. page
    BY <2>3, LenProperties
  <2>6. CASE page < told \/ (told = 0 /\ items # <<>>)
    BY <1>1, <1>2, <2>3, <2>4, <2>5, <2>6
  <2>7. CASE ~ (page < told \/ (told = 0 /\ items # <<>>))
    <3>1. Len(listing) = page
      BY <1>1, <1>2, <2>2, <2>7
    <3> QED BY <2>3, <2>4, <2>7, <3>1, SeqEqual
  <2> QED BY <2>6, <2>7
<1>3. CASE ~ page <= Len(listing)
  <2>1. items = <<>> /\ listed \o items = listed
    BY <1>3, ConcatEmptySeq
  <2>2. Len(listed) = Len(listing) /\ ~ page < told
    BY <1>1, <1>3
  <2>3. listed = listing
    BY <1>1, <2>2, SeqEqual
  <2> QED BY <2>1, <2>2, <2>3
<1> QED BY <1>2, <1>3

\* A page of the assets: more of them are read, or the rest follows.
LEMMA HubAssetsStep ==
  ASSUME GitHubInv, work.doing = "reading", GitHub!ReadAssets PROVE GitHubInv'
<1>1. ReadingTyped /\ ParentOwn /\ FactsTrue /\ ObjectRead /\ PublicationReads /\ ReadAlone
      /\ world \in Worlds
  BY HubReading
<1>2. work.todo # <<>> /\ Head(work.todo) = "assets"
  BY DEF GitHub!ReadAssets, GitHub!Read
<1>3. CASE GitHub!Stop("Inconclusive")
  BY <1>3, StopStep
<1>4. CASE ~ GitHub!Stop("Inconclusive")
  <2>1. PICK r \in GitHub!ReleaseAt(world, GitHub!Parent.id) :
          LET listing == r.assets
              items == IF work.page <= Len(listing) THEN <<listing[work.page]>> ELSE <<>>
              last == IF work.page < Len(listing) THEN Len(listing) ELSE work.last
              more == work.page < last \/ (last = 0 /\ items # <<>>)
              after == [work EXCEPT !.listed = @ \o items, !.last = last, !.page = @ + 1]
          IN  IF more THEN work' = after /\ UNCHANGED <<world, plan, evidence>>
              ELSE GitHub!Found(after)
    BY <1>4 DEF GitHub!ReadAssets
  <2> DEFINE listing == r.assets
             items == IF work.page <= Len(listing) THEN <<listing[work.page]>> ELSE <<>>
             told == IF work.page < Len(listing) THEN Len(listing) ELSE work.last
             more == work.page < told \/ (told = 0 /\ items # <<>>)
             listed == work.listed \o items
             todo == IF more THEN work.todo ELSE Tail(work.todo)
  <2>2. r \in world.releases /\ listing \in Seq(GitHub!AssetFacts)
    BY <1>1, <2>1 DEF GitHub!ReleaseAt, Worlds, Releases
  <2>3. /\ work.listed \in Seq(GitHub!AssetFacts) /\ work.page \in Nat \ {0} /\ work.last \in Nat
    BY <1>1 DEF ReadingTyped
  <2>4. /\ items = IF work.page <= Len(listing) THEN <<listing[work.page]>> ELSE <<>>
        /\ told = IF work.page < Len(listing) THEN Len(listing) ELSE work.last
    OBVIOUS
  <2>5. work' = [work EXCEPT !.listed = listed, !.last = told, !.page = @ + 1, !.todo = todo]
        /\ UNCHANGED <<world, plan, evidence>>
    <3>1. UNCHANGED <<world, plan, evidence>>
          /\ \/ more /\ work' = [work EXCEPT !.listed = listed, !.last = told, !.page = @ + 1]
             \/ ~ more /\ work' = [[work EXCEPT !.listed = listed, !.last = told, !.page = @ + 1]
                                     EXCEPT !.todo = Tail(@)]
      BY <2>1 DEF GitHub!Found
    <3>2. (more => todo = work.todo) /\ (~ more => todo = Tail(work.todo))
      OBVIOUS
    <3> HIDE DEF listed, told, more, todo
    <3>3. CASE more
      <4>1. work' = [work EXCEPT !.listed = listed, !.last = told, !.page = @ + 1]
            /\ todo = work.todo
        BY <3>1, <3>2, <3>3
      <4> QED BY <1>1, <3>1, <4>1 DEF ReadingTyped
    <3>4. CASE ~ more
      <4>1. work' = [[work EXCEPT !.listed = listed, !.last = told, !.page = @ + 1]
                       EXCEPT !.todo = Tail(@)] /\ todo = Tail(work.todo)
        BY <3>1, <3>2, <3>4
      <4> HIDE DEF listing
      <4> QED BY <1>1, <3>1, <4>1 DEF ReadingTyped
    <3> QED BY <3>3, <3>4
  <2> HIDE DEF items, told
  <2> DEFINE before == work.listed
             number == work.page
             latest == work.last
  <2>6. /\ listed \in Seq(GitHub!AssetFacts) /\ told \in Nat
        /\ \A i \in DOMAIN listed :
             \/ i \in DOMAIN work.listed /\ listed[i] = work.listed[i]
             \/ \E k \in DOMAIN listing : listed[i] = listing[k]
    <3> HIDE DEF listing, before, number, latest
    <3>1. /\ listing \in Seq(GitHub!AssetFacts) /\ before \in Seq(GitHub!AssetFacts)
          /\ number \in Nat \ {0} /\ latest \in Nat
          /\ items = IF number <= Len(listing) THEN <<listing[number]>> ELSE <<>>
          /\ told = IF number < Len(listing) THEN Len(listing) ELSE latest
      BY <2>2, <2>3, <2>4 DEF before, number, latest
    <3>2. /\ before \o items \in Seq(GitHub!AssetFacts) /\ told \in Nat
          /\ \A i \in DOMAIN (before \o items) :
               \/ i \in DOMAIN before /\ (before \o items)[i] = before[i]
               \/ \E k \in DOMAIN listing : (before \o items)[i] = listing[k]
      BY ONLY <3>1, PageRead, SMTT(30)
    <3> QED BY <3>2 DEF before
  <2>7. Paging(listing) =>
          IF more
          THEN /\ Len(listed) = work.page /\ work.page + 1 <= Len(listing) + 1
               /\ \A i \in DOMAIN listed : listed[i] = listing[i]
               /\ told \in {0, Len(listing)}
               /\ told = 0 => Len(listing) <= 1
          ELSE listed = listing
    <3> SUFFICES ASSUME Paging(listing)
                 PROVE  IF more
                        THEN /\ Len(listed) = work.page /\ work.page + 1 <= Len(listing) + 1
                             /\ \A i \in DOMAIN listed : listed[i] = listing[i]
                             /\ told \in {0, Len(listing)}
                             /\ told = 0 => Len(listing) <= 1
                        ELSE listed = listing
      OBVIOUS
    <3> HIDE DEF listing, before, number, latest
    <3>1. /\ listing \in Seq(GitHub!AssetFacts) /\ before \in Seq(GitHub!AssetFacts)
          /\ number \in Nat \ {0} /\ latest \in Nat
          /\ items = IF number <= Len(listing) THEN <<listing[number]>> ELSE <<>>
          /\ told = IF number < Len(listing) THEN Len(listing) ELSE latest
      BY <2>2, <2>3, <2>4 DEF before, number, latest
    <3>2. /\ Len(before) = number - 1 /\ number <= Len(listing) + 1
          /\ \A i \in DOMAIN before : before[i] = listing[i]
          /\ latest \in {0, Len(listing)}
          /\ latest = 0 => number = 1 \/ Len(listing) <= 1
      BY DEF Paging, before, number, latest
    <3>3. IF number < told \/ (told = 0 /\ items # <<>>)
          THEN /\ Len(before \o items) = number /\ number + 1 <= Len(listing) + 1
               /\ \A i \in DOMAIN (before \o items) : (before \o items)[i] = listing[i]
               /\ told \in {0, Len(listing)}
               /\ told = 0 => Len(listing) <= 1
          ELSE before \o items = listing
      BY ONLY <3>1, <3>2, PageReadAlone, SMTT(30)
    <3> QED BY <3>3 DEF before, number
  <2>8. todo \in Seq(Stages)
    BY <1>1, <1>2, TodoTail DEF ReadingTyped
  <2> DEFINE page == work.page + 1
  <2> HIDE DEF listed, more
  <2>9. more => todo = work.todo
    OBVIOUS
  <2>10. ~ more => todo = Tail(work.todo)
    OBVIOUS
  <2>11. page \in Nat \ {0} /\ page = work.page + 1
    BY <2>3
  <2>12. work' = [work EXCEPT !.listed = listed, !.last = told, !.page = page, !.todo = todo]
    BY <2>5
  <2> HIDE DEF todo, page
  <2>13. /\ work'.op = work.op /\ work'.parents = work.parents /\ work'.span = work.span
         /\ work'.missing = work.missing /\ work'.page = page /\ work'.last = told
         /\ work'.listed = listed /\ work'.todo = todo /\ work'.object = work.object
         /\ work'.ref = work.ref /\ work'.releases = work.releases
         /\ work'.release = work.release /\ work'.purpose = work.purpose
    BY <1>1, <2>12 DEF ReadingTyped
  <2>14. ReadingTyped'
    BY <1>1, <2>5, <2>6, <2>8, <2>12, <2>11, <2>13, ParentsStay DEF ReadingTyped
  <2>15. FactsTrue'
    <3>1. ASSUME NEW k \in DOMAIN listing PROVE listing[k] \in GitHub!Files(r)
      BY DEF GitHub!Files
    <3> QED BY <1>1, <2>1, <2>5, <2>6, <2>13, <3>1, FactsRead
  <2>16. ParentOwn'
    BY <1>1, <2>13 DEF ParentOwn, GitHub!Parent
  <2>17. ObjectRead'
    <3>1. work.op # "object"
      BY <1>1, <1>2, NextRead DEF ObjectRead
    <3> QED BY <2>13, <3>1 DEF ObjectRead
  <2>18. work.op = "publish" => work.todo = ToList /\ todo = IF more THEN ToList ELSE ToDownload
    BY <1>1, <1>2, <2>9, <2>10, NextRead DEF PublicationReads
  <2>19. PublicationReads'
    BY <2>13, <2>18 DEF PublicationReads, AfterListing
  <2>20. ReadAlone'
    <3> SUFFICES ASSUME world.foreign = 0, work.op = "publish", ~ work.missing,
                        NEW q \in GitHub!ReleaseAt(world, GitHub!Parent.id)
                 PROVE  IF work'.todo \in AfterListing THEN work'.listed = q.assets
                        ELSE Paging(q.assets)'
      BY <1>1, <2>5, <2>13 DEF ReadAlone, GitHub!ReleaseAt, GitHub!Parent, Paging
    <3>1. q = r
      BY <2>1 DEF GitHub!ReleaseAt, GitHubInv, WorldKept, Identified
    <3>2. Paging(listing)
      BY <1>1, <2>18, <3>1, BeforeListing DEF ReadAlone
    <3>3. CASE more
      <4>1. work'.todo \notin AfterListing
        BY <2>13, <2>18, <3>3, BeforeListing
      <4>2. Paging(listing)'
        <5>1. listing' = listing
          OBVIOUS
        <5> QED BY <2>11, <2>3, <2>7, <2>13, <3>2, <3>3, <5>1 DEF Paging
      <4> QED BY <3>1, <4>1, <4>2
    <3>4. CASE ~ more
      BY <2>7, <2>13, <2>18, <3>1, <3>2, <3>4, BeforeListing
    <3> QED BY <3>3, <3>4
  <2> QED BY <2>5, <2>14, <2>15, <2>16, <2>17, <2>19, <2>20, ReadKeeps DEF ReadingKept
<1> QED BY <1>3, <1>4

LEMMA HubReadStep ==
  ASSUME GitHubInv,
         \/ GitHub!ReadNamespace \/ GitHub!ReadObject \/ GitHub!ReadRef \/ GitHub!ReadReleases
         \/ GitHub!ReadRelease \/ GitHub!ReadAssets \/ GitHub!ReadDownloads \/ GitHub!ReadFails
  PROVE  GitHubInv'
<1>1. work.doing = "reading"
  BY DEF GitHub!ReadNamespace, GitHub!ReadObject, GitHub!ReadRef, GitHub!ReadReleases,
     GitHub!ReadRelease, GitHub!ReadAssets, GitHub!ReadDownloads, GitHub!ReadFails, GitHub!Read
<1>2. CASE GitHub!ReadFails
  BY <1>2, StopStep DEF GitHub!ReadFails
<1> QED BY <1>1, <1>2, HubNamespaceStep, HubObjectStep, HubRefStep, HubReleasesStep,
       HubReleaseStep, HubAssetsStep, HubDownloadsStep

\* A satisfied listing has each upload of the plan, whole and with its bytes, and none of
\* its assets is unknown.
LEMMA ListingMeans ==
  ASSUME GitHub!ClassifyAssets = "Satisfied"
  PROVE  /\ Len(work.listed) = GitHub!Cardinality(plan.publishes)
         /\ \A i, j \in DOMAIN work.listed :
              work.listed[i].name = work.listed[j].name => i = j
         /\ \A name \in plan.publishes : \E i \in DOMAIN work.listed :
              /\ work.listed[i].name = name
              /\ work.listed[i].uploaded /\ work.listed[i].bytes = name
<1>1. /\ Len(work.listed) = GitHub!Cardinality(plan.publishes)
      /\ \A i, j \in DOMAIN work.listed :
           work.listed[i].name = work.listed[j].name => i = j
      /\ \A name \in plan.publishes : \E a \in GitHub!ListedAs(name) : GitHub!AssetMatches(name, a)
      /\ \A i \in DOMAIN work.listed : GitHub!Revealed(work.listed[i])
  BY DEF GitHub!ClassifyAssets
<1>2. ASSUME NEW name \in plan.publishes
      PROVE  \E i \in DOMAIN work.listed :
               /\ work.listed[i].name = name
               /\ work.listed[i].uploaded /\ work.listed[i].bytes = name
  <2>1. PICK a \in GitHub!ListedAs(name) : GitHub!AssetMatches(name, a)
    BY <1>1
  <2>2. PICK i \in DOMAIN work.listed : a = work.listed[i]
    BY <2>1 DEF GitHub!ListedAs
  <2> QED BY <1>1, <2>1, <2>2 DEF GitHub!AssetMatches
<1> QED BY <1>1, <1>2

\* So each was in the release in a state of the span.
LEMMA ListingHolds ==
  ASSUME GitHubInv, work.doing = "reading", GitHub!ClassifyAssets = "Satisfied",
         NEW name \in plan.assets
  PROVE  \E w \in work.span : GitHub!Holds(w, GitHub!Parent.id, name)
<1>1. name \in plan.publishes
  BY DEF GitHubInv, GitHub!ValidatePlan
<1>2. PICK i \in DOMAIN work.listed :
        work.listed[i].name = name /\ work.listed[i].uploaded /\ work.listed[i].bytes = name
  BY <1>1, ListingMeans
<1>3. PICK w \in work.span : \E r \in GitHub!ReleaseAt(w, GitHub!Parent.id) :
        work.listed[i] \in GitHub!Files(r)
  BY HubReading DEF FactsTrue
<1> QED BY <1>2, <1>3 DEF GitHub!Holds

\* The release that was read is the plan's own, published or not.
LEMMA ReleaseOwn ==
  ASSUME GitHubInv, work.doing = "reading", work.op \in Asset \cup {"publish"},
         NEW facts \in work.release
  PROVE  /\ facts \in Described /\ facts.id = GitHub!Parent.id /\ facts.own
         /\ \E w \in work.span : \E r \in GitHub!ReleaseAt(w, facts.id) :
              facts = GitHub!ReleaseFacts(r)
<1>1. ReadingTyped /\ ParentOwn /\ FactsTrue
  BY HubReading
<1>2. facts \in Described /\ GitHub!Parent \in Drafts
  BY <1>1 DEF ReadingTyped, ParentOwn
<1>3. GitHub!Parent \in Described /\ GitHub!Parent.own
  BY <1>2 DEF Drafts
<1>4. ASSUME NEW d \in Described
      PROVE  GitHub!Stable(d) = [id |-> d.id, draft |-> TRUE, own |-> d.own]
  BY DEF Described, GitHub!Stable
<1>5. GitHub!Stable(facts) = GitHub!Stable(GitHub!Parent)
  BY <1>1 DEF FactsTrue
<1>6. facts.id = GitHub!Parent.id /\ facts.own = GitHub!Parent.own
  <2>1. [id |-> facts.id, draft |-> TRUE, own |-> facts.own]
          = [id |-> GitHub!Parent.id, draft |-> TRUE, own |-> GitHub!Parent.own]
    BY <1>2, <1>3, <1>4, <1>5
  <2> QED BY <2>1
<1> QED BY <1>1, <1>2, <1>3, <1>6 DEF FactsTrue

\* What a satisfied observation found was so in a state of the span.
LEMMA SatisfiedMeans ==
  ASSUME GitHubInv, work.doing = "reading", work.todo = <<>>, work.purpose = "observe",
         NEW facts \in GitHub!PresentFacts(work.op),
         GitHub!Classify(work.op, facts) = "Satisfied"
  PROVE  /\ facts \in Facts /\ (work.op = "draft" => facts \in Drafts)
         /\ \E w \in work.span : GitHub!Effective(w, work.op, facts)
         /\ work.op = "publish" =>
              /\ facts.id = GitHub!Parent.id /\ GitHub!ClassifyAssets = "Satisfied"
              /\ \E w \in work.span : w.ref = "commit"
<1>1. ReadingTyped /\ FactsTrue /\ ObjectRead /\ ~ work.missing /\ work.op \in GitHub!Operation
  BY HubReading DEF ReadingTyped, GitHub!PresentFacts
<1>2. CASE work.op = "object"
  <2>1. facts = [object |-> "commit"]
    BY <1>1, <1>2, HubNames DEF GitHub!PresentFacts
  <2>2. facts \in Facts
    BY <2>1 DEF Facts
  <2>3. \E w \in work.span : w.object
    BY <1>1, <1>2 DEF ObjectRead, FactsTrue
  <2> QED BY <1>2, <2>2, <2>3, HubNames DEF GitHub!Effective
<1>3. CASE work.op = "ref"
  <2>1. facts = [ref |-> work.ref]
    BY <1>1, <1>3, HubNames DEF GitHub!PresentFacts
  <2>2. work.ref \in Refs /\ facts.ref = work.ref /\ facts \in Facts
    BY <1>1, <2>1 DEF Facts, ReadingTyped
  <2>3. work.ref = "commit"
    BY <1>3, <2>2 DEF GitHub!Classify
  <2>4. \E w \in work.span : w.ref = "commit"
    BY <1>1, <2>3 DEF FactsTrue, None
  <2> QED BY <1>3, <2>2, <2>4, HubNames DEF GitHub!Effective
<1>4. CASE work.op = "draft"
  <2>1. facts \in work.releases
    BY <1>1, <1>4, HubNames DEF GitHub!PresentFacts
  <2>2. facts \in Described /\ facts.own
    BY <1>1, <1>4, <2>1 DEF ReadingTyped, GitHub!Classify
  <2>3. PICK w \in work.span : \E r \in w.releases : facts = GitHub!ReleaseFacts(r)
    BY <1>1, <2>1 DEF FactsTrue
  <2>4. PICK r \in w.releases : facts = GitHub!ReleaseFacts(r)
    BY <2>3
  <2>5. facts.id = r.id /\ facts.own = r.own
    BY <2>4 DEF GitHub!ReleaseFacts
  <2>6. GitHub!Effective(w, work.op, facts)
    BY <1>4, <2>2, <2>5, HubNames DEF GitHub!Effective, GitHub!ReleaseAt
  <2>7. facts \in Drafts /\ facts \in Facts
    BY <2>2 DEF Drafts, Facts
  <2> QED BY <1>4, <2>6, <2>7
<1>5. CASE work.op \in Asset
  <2>1. facts \in GitHub!ListedAs(work.op)
    BY <1>1, <1>5, HubNames DEF GitHub!PresentFacts
  <2>2. PICK i \in DOMAIN work.listed : facts = work.listed[i]
    BY <2>1 DEF GitHub!ListedAs
  <2>3. facts \in GitHub!AssetFacts
    <3>1. work.listed \in Seq(GitHub!AssetFacts)
      BY <1>1 DEF ReadingTyped
    <3> QED BY <2>2, <3>1
  <2>4. GitHub!AssetMatches(work.op, facts) /\ GitHub!Revealed(facts)
    BY <1>5, HubNames DEF GitHub!Classify
  <2>5. PICK w \in work.span : \E r \in GitHub!ReleaseAt(w, GitHub!Parent.id) :
          facts \in GitHub!Files(r)
    BY <1>1, <2>2 DEF FactsTrue
  <2>6. \E r \in w.releases : facts \in GitHub!Files(r)
    BY <2>5 DEF GitHub!ReleaseAt
  <2>7. GitHub!Effective(w, work.op, facts)
    BY <1>5, <2>4, <2>6, HubNames DEF GitHub!Effective, GitHub!AssetMatches
  <2> QED BY <1>5, <2>3, <2>7, HubNames DEF Facts
<1>6. CASE work.op = "publish"
  <2>1. facts \in work.release
    BY <1>1, <1>6, HubNames DEF GitHub!PresentFacts
  <2>2. /\ work.ref = "commit" /\ GitHub!ClassifyAssets = "Satisfied" /\ ~ facts.draft
    BY <1>6, HubNames DEF GitHub!Classify
  <2>3. /\ facts \in Described /\ facts.id = GitHub!Parent.id /\ facts.own
        /\ \E w \in work.span : \E r \in GitHub!ReleaseAt(w, facts.id) :
             facts = GitHub!ReleaseFacts(r)
    BY <1>6, <2>1, ReleaseOwn
  <2>4. PICK w \in work.span : \E r \in GitHub!ReleaseAt(w, facts.id) :
             facts = GitHub!ReleaseFacts(r)
    BY <2>3
  <2>5. PICK r \in GitHub!ReleaseAt(w, facts.id) : facts = GitHub!ReleaseFacts(r)
    BY <2>4
  <2>6. facts.own = r.own /\ facts.draft = r.draft
    BY <2>5 DEF GitHub!ReleaseFacts
  <2>7. GitHub!Effective(w, work.op, facts)
    BY <1>6, <2>2, <2>3, <2>5, <2>6, HubNames DEF GitHub!Effective
  <2>8. \E v \in work.span : v.ref = "commit"
    BY <1>1, <2>2 DEF FactsTrue, None
  <2>9. facts \in Facts
    BY <2>3 DEF Facts
  <2> QED BY <1>6, <2>2, <2>3, <2>7, <2>8, <2>9
<1> QED BY <1>1, <1>2, <1>3, <1>4, <1>5, <1>6, HubNames

\* What is recorded of one operation changes.
LEMMA EntryTyped ==
  ASSUME EvidenceKept, NEW op \in GitHub!Operation
  PROVE  /\ evidence \in [GitHub!Operation ->
                            [dispatched : BOOLEAN, receipts : SUBSET Facts, seen : SUBSET Facts]]
         /\ evidence[op] \in [dispatched : BOOLEAN, receipts : SUBSET Facts, seen : SUBSET Facts]
         /\ op = "draft" => evidence[op].receipts \cup evidence[op].seen \subseteq Drafts
BY DEF EvidenceKept

LEMMA RecordedKept ==
  ASSUME EvidenceKept, NEW op \in GitHub!Operation,
         NEW entry \in [dispatched : BOOLEAN, receipts : SUBSET Facts, seen : SUBSET Facts],
         op = "draft" => entry.receipts \cup entry.seen \subseteq Drafts,
         evidence' = [evidence EXCEPT ![op] = entry]
  PROVE  EvidenceKept'
<1>1. evidence \in [GitHub!Operation ->
                     [dispatched : BOOLEAN, receipts : SUBSET Facts, seen : SUBSET Facts]]
  BY DEF EvidenceKept
<1>2. evidence' \in [GitHub!Operation ->
                      [dispatched : BOOLEAN, receipts : SUBSET Facts, seen : SUBSET Facts]]
  BY <1>1
<1>3. evidence'["draft"] = IF op = "draft" THEN entry ELSE evidence["draft"]
  BY <1>1, HubNames
<1>4. evidence'["draft"].receipts \cup evidence'["draft"].seen \subseteq Drafts
  BY <1>3 DEF EvidenceKept
<1> QED BY <1>2, <1>4 DEF EvidenceKept

LEMMA DispatchKept ==
  ASSUME EvidenceKept, NEW op \in GitHub!Operation,
         evidence' = [evidence EXCEPT ![op].dispatched = TRUE]
  PROVE  EvidenceKept'
<1> DEFINE entry == [evidence[op] EXCEPT !.dispatched = TRUE]
<1>1. /\ entry \in [dispatched : BOOLEAN, receipts : SUBSET Facts, seen : SUBSET Facts]
      /\ op = "draft" => entry.receipts \cup entry.seen \subseteq Drafts
  BY EntryTyped
<1>2. evidence' = [evidence EXCEPT ![op] = entry]
  OBVIOUS
<1> HIDE DEF entry
<1> QED BY <1>1, <1>2, RecordedKept

LEMMA SeenKept ==
  ASSUME EvidenceKept, NEW op \in GitHub!Operation, NEW facts \in Facts,
         op = "draft" => facts \in Drafts,
         evidence' = [evidence EXCEPT ![op].seen = @ \cup {facts}]
  PROVE  EvidenceKept'
<1> DEFINE entry == [evidence[op] EXCEPT !.seen = @ \cup {facts}]
<1>1. /\ entry \in [dispatched : BOOLEAN, receipts : SUBSET Facts, seen : SUBSET Facts]
      /\ op = "draft" => entry.receipts \cup entry.seen \subseteq Drafts
  BY EntryTyped
<1>2. evidence' = [evidence EXCEPT ![op] = entry]
  OBVIOUS
<1> HIDE DEF entry
<1> QED BY <1>1, <1>2, RecordedKept

LEMMA ReceiptsKept ==
  ASSUME EvidenceKept, NEW op \in GitHub!Operation, NEW facts \in SUBSET Facts,
         op = "draft" => facts \subseteq Drafts,
         evidence' = [evidence EXCEPT ![op].receipts = @ \cup facts]
  PROVE  EvidenceKept'
<1> DEFINE entry == [evidence[op] EXCEPT !.receipts = @ \cup facts]
<1>1. /\ entry \in [dispatched : BOOLEAN, receipts : SUBSET Facts, seen : SUBSET Facts]
      /\ op = "draft" => entry.receipts \cup entry.seen \subseteq Drafts
  BY EntryTyped
<1>2. evidence' = [evidence EXCEPT ![op] = entry]
  OBVIOUS
<1> HIDE DEF entry
<1> QED BY <1>1, <1>2, RecordedKept

LEMMA HubObserveStep == ASSUME GitHubInv, GitHub!Observe PROVE GitHubInv'
<1>1. work.doing = "reading" /\ work.todo = <<>> /\ work.purpose = "observe"
  BY DEF GitHub!Observe
<1>2. CASE \E status : GitHub!Stop(status)
  BY <1>2, StopStep
<1>3. CASE ~ \E status : GitHub!Stop(status)
  <2>1. PICK facts \in GitHub!PresentFacts(work.op) :
          /\ GitHub!Classify(work.op, facts) = "Satisfied"
          /\ evidence' = [evidence EXCEPT ![work.op].seen = @ \cup {facts}]
          /\ work' = [doing |-> "idle", op |-> work.op, facts |-> facts, span |-> work.span]
          /\ UNCHANGED <<world, plan>>
    BY <1>3 DEF GitHub!Observe
  <2>2. /\ facts \in Facts /\ (work.op = "draft" => facts \in Drafts)
        /\ \E w \in work.span : GitHub!Effective(w, work.op, facts)
        /\ work.op = "publish" =>
             /\ facts.id = GitHub!Parent.id /\ GitHub!ClassifyAssets = "Satisfied"
             /\ \E w \in work.span : w.ref = "commit"
    BY <1>1, <2>1, SatisfiedMeans
  <2>3. work.op \in GitHub!Operation /\ EvidenceKept
    BY <1>1, HubReading DEF ReadingTyped, GitHubInv
  <2>4. EvidenceKept'
    BY <2>1, <2>2, <2>3, SeenKept
  <2>5. work'.doing = "idle" /\ work'.op = work.op /\ work'.facts = facts /\ work'.span = work.span
    BY <2>1
  <2>6. GitHub!ObservationsTrue'
    <3>1. \A w : GitHub!Effective(w, work.op, work.facts)' <=>
                   GitHub!Effective(w, work'.op, work'.facts)
      BY DEF GitHub!Effective, GitHub!ReleaseAt, GitHub!Files
    <3>2. \A w, name : GitHub!Holds(w, work.facts.id, name)' <=>
                         GitHub!Holds(w, work'.facts.id, name)
      BY DEF GitHub!Holds, GitHub!ReleaseAt, GitHub!Files
    <3>3. work.op = "publish" => \A name \in plan.assets :
            \E w \in work.span : GitHub!Holds(w, facts.id, name)
      BY <1>1, <2>2, ListingHolds
    <3>4. plan' = plan
      BY <2>1
    <3> QED BY <2>2, <2>5, <3>1, <3>2, <3>3, <3>4 DEF GitHub!ObservationsTrue
  <2>7. GitHub!DraftPublishedWhole'
    BY <2>1, <2>5, WorldStays DEF GitHub!DraftPublishedWhole, Whole
  <2> QED BY <2>1, <2>4, <2>5, <2>6, <2>7, WorldStays DEF GitHubInv
<1> QED BY <1>2, <1>3

LEMMA HubFinite == IsFiniteSet(Asset) /\ \A S : GitHub!Cardinality(S) = Cardinality(S)
<1>1. GitHub!IsFiniteSet(Asset)
  BY ProviderAssumptions DEF GitHub!GitHubAssumption
<1>2. IsFiniteSet(Asset)
  BY <1>1 DEF GitHub!IsFiniteSet, IsFiniteSet
<1>3. \A S : GitHub!Cardinality(S) = Cardinality(S)
  BY DEF GitHub!Cardinality, Cardinality, GitHub!IsFiniteSet, IsFiniteSet
<1> QED BY <1>2, <1>3

\* As many places as there are names, each name in a place of its own: none is left.
LEMMA PlacesTaken ==
  ASSUME NEW S, IsFiniteSet(S), NEW place \in [S -> 1 .. Cardinality(S)],
         \A a, b \in S : place[a] = place[b] => a = b
  PROVE  \A i \in 1 .. Cardinality(S) : \E a \in S : place[a] = i
<1>1. Cardinality(S) \in Nat
  BY FS_CardinalityType
<1>2. IsFiniteSet(1 .. Cardinality(S)) /\ Cardinality(1 .. Cardinality(S)) = Cardinality(S)
  BY <1>1, FS_Interval
<1>3. place \in Injection(S, 1 .. Cardinality(S))
  BY DEF Injection, IsInjective
<1>4. place \in Surjection(S, 1 .. Cardinality(S))
  BY <1>2, <1>3, FS_Injection
<1> QED BY <1>4 DEF Surjection

\* A listing of as many assets as the plan has, each under a name of its own, with each
\* upload of the plan among them, is the whole of the plan and nothing else.
LEMMA ListingWhole ==
  ASSUME GitHubInv, work.doing = "reading", GitHub!ClassifyAssets = "Satisfied",
         NEW r, r.assets = work.listed
  PROVE  Whole(r)
<1>1. plan.publishes = plan.assets /\ plan.publishes \in SUBSET Asset
  BY DEF GitHubInv, GitHub!ValidatePlan, GitHub!Plans
<1>2. IsFiniteSet(plan.publishes) /\ Len(work.listed) = Cardinality(plan.publishes)
      /\ Cardinality(plan.publishes) \in Nat
  BY <1>1, HubFinite, FS_Subset, FS_CardinalityType, ListingMeans
<1>3. DOMAIN work.listed = 1 .. Cardinality(plan.publishes)
  <2>1. work.listed \in Seq(GitHub!AssetFacts)
    BY HubReading DEF ReadingTyped
  <2> QED BY <1>2, <2>1, LenProperties
<1> DEFINE place == [name \in plan.publishes |->
                      CHOOSE i \in DOMAIN work.listed : work.listed[i].name = name]
<1>4. ASSUME NEW name \in plan.publishes
      PROVE  place[name] \in DOMAIN work.listed /\ work.listed[place[name]].name = name
  <2>1. \E i \in DOMAIN work.listed : work.listed[i].name = name
    BY ListingMeans
  <2> QED BY <2>1
<1>5. place \in [plan.publishes -> 1 .. Cardinality(plan.publishes)]
  BY <1>3, <1>4
<1> HIDE DEF place
<1>6. \A i \in DOMAIN work.listed : \E name \in plan.publishes : place[name] = i
  <2>1. \A a, b \in plan.publishes : place[a] = place[b] => a = b
    BY <1>4
  <2> QED BY <1>2, <1>3, <1>5, <2>1, PlacesTaken
<1>7. ASSUME NEW i \in DOMAIN work.listed
      PROVE  /\ work.listed[i].name \in plan.publishes
             /\ work.listed[i].uploaded /\ work.listed[i].bytes = work.listed[i].name
  <2>1. work.listed[i].name \in plan.publishes
    BY <1>4, <1>6
  <2>2. PICK j \in DOMAIN work.listed :
          /\ work.listed[j].name = work.listed[i].name
          /\ work.listed[j].uploaded /\ work.listed[j].bytes = work.listed[i].name
    BY <2>1, ListingMeans
  <2>3. i = j
    BY <2>2, ListingMeans
  <2> QED BY <2>1, <2>2, <2>3
<1>8. GitHub!Files(r) = {work.listed[i] : i \in DOMAIN work.listed}
  BY DEF GitHub!Files
<1>9. \A a \in GitHub!Files(r) : a.name \in plan.assets /\ a.uploaded /\ a.bytes = a.name
  BY <1>1, <1>7, <1>8
<1>10. \A name \in plan.assets : \E a \in GitHub!Files(r) : a.name = name
  BY <1>1, <1>4, <1>8
<1>11. {a.name : a \in GitHub!Files(r)} = plan.assets
  BY <1>9, <1>10
<1> QED BY <1>9, <1>11 DEF Whole

\* The request goes out after a preflight that found the release open, or whole.
LEMMA HubSendStep == ASSUME GitHubInv, GitHub!Send PROVE GitHubInv'
<1>1. work.doing = "reading" /\ work.todo = <<>> /\ UNCHANGED <<world, plan>>
  BY DEF GitHub!Send
<1>2. ReadingTyped /\ ParentOwn /\ FactsTrue /\ ReadAlone /\ EvidenceKept
  BY <1>1, HubReading DEF GitHubInv
<1>3. CASE ~ GitHub!Preflighted
  <2>1. UNCHANGED evidence /\ work' = [doing |-> "idle"]
    BY <1>3 DEF GitHub!Send, GitHub!Idle
  <2>2. work'.doing = "idle" /\ "span" \notin DOMAIN work'
    BY <2>1
  <2> QED BY <1>1, <2>1, <2>2, StopKeeps
<1>4. CASE GitHub!Preflighted
  <2>1. /\ evidence' = [evidence EXCEPT ![work.op].dispatched = TRUE]
        /\ work' = [doing |-> "sending", op |-> work.op, parents |-> work.parents,
                    span |-> work.span, effect |-> {}]
    BY <1>4 DEF GitHub!Send
  <2>2. /\ work'.doing = "sending" /\ work'.op = work.op /\ work'.parents = work.parents
        /\ work'.span = work.span /\ work'.effect = {}
    BY <2>1
  <2>3. /\ work.op \in GitHub!Operation /\ work.span \in SUBSET Worlds
        /\ work.parents \in [GitHub!RequiredParents(plan, work.op) -> Facts]
    BY <1>2 DEF ReadingTyped
  <2>4. EvidenceKept'
    BY <1>2, <2>1, <2>3, DispatchKept
  <2>5. GitHub!Parent' = GitHub!Parent
    BY <2>2 DEF GitHub!Parent
  <2>6. GitHub!ObservationsTrue'
    BY <2>2 DEF GitHub!ObservationsTrue
  <2>7. work.op = "publish" => ~ work.missing /\ GitHub!ClassifyAssets = "Satisfied"
    BY <1>4 DEF GitHub!Preflighted
  <2>8. GitHub!DraftPublishedWhole'
    <3>1. work.op = "publish" => \A name \in plan.assets :
            \E w \in work.span : GitHub!Holds(w, GitHub!Parent.id, name)
      BY <1>1, <2>7, ListingHolds
    <3>2. \A w, id, name : GitHub!Holds(w, id, name)' <=> GitHub!Holds(w, id, name)
      BY DEF GitHub!Holds, GitHub!ReleaseAt, GitHub!Files
    <3>3. (\A name \in plan.assets : \E w \in work.span :
             GitHub!Holds(w, GitHub!Parent.id, name))'
          <=> \A name \in plan.assets : \E w \in work.span :
                GitHub!Holds(w, GitHub!Parent.id, name)
      BY <1>1, <2>2, <2>5 DEF GitHub!Holds, GitHub!ReleaseAt, GitHub!Files
    <3> QED BY <1>1, <2>2, <3>1, <3>3, WorldStays DEF GitHub!DraftPublishedWhole, Whole
  <2>9. ASSUME world.foreign = 0, NEW r \in GitHub!ReleaseAt(world, GitHub!Parent.id)
        PROVE  (work.op \in Asset => r.draft) /\ (work.op = "publish" => Whole(r))
    <3>1. work.span = {world}
      BY <1>2, <2>9 DEF ReadAlone
    <3>2. CASE work.op \in Asset
      <4>1. PICK facts \in work.release : facts.draft
        BY <1>4, <3>2 DEF GitHub!Preflighted
      <4>2. facts.id = GitHub!Parent.id
            /\ \E w \in work.span : \E q \in GitHub!ReleaseAt(w, facts.id) :
                 facts = GitHub!ReleaseFacts(q)
        BY <1>1, <3>2, <4>1, ReleaseOwn
      <4>3. PICK q \in GitHub!ReleaseAt(world, GitHub!Parent.id) : facts = GitHub!ReleaseFacts(q)
        BY <3>1, <4>2
      <4>4. q = r
        BY <2>9, <4>3 DEF GitHub!ReleaseAt, GitHubInv, WorldKept, Identified
      <4>5. r.draft
        BY <4>1, <4>3, <4>4 DEF GitHub!ReleaseFacts
      <4> QED BY <3>2, <4>5, HubNames
    <3>3. CASE work.op = "publish"
      <4>1. work.listed = r.assets
        BY <1>1, <1>2, <2>7, <2>9, <3>3, BeforeListing DEF ReadAlone
      <4>2. Whole(r)
        BY <1>1, <2>7, <3>3, <4>1, ListingWhole
      <4> QED BY <3>3, <4>2, HubNames
    <3> QED BY <3>2, <3>3
  <2>10. SendingKept'
    <3>1. work' \in [doing : {"sending"}, op : GitHub!Operation,
                     parents : [GitHub!RequiredParents(plan, work.op) -> Facts],
                     span : SUBSET Worlds, effect : SUBSET Facts]
      BY <2>1, <2>3
    <3>2. GitHub!RequiredParents(plan, work.op)' = GitHub!RequiredParents(plan, work.op)
      BY <1>1, <2>2, ParentsStay
    <3>3. ParentOwn'
      BY <1>2, <2>2, <2>5 DEF ParentOwn
    <3>4. (GitHub!ReleaseAt(world, GitHub!Parent.id))' = GitHub!ReleaseAt(world, GitHub!Parent.id)
          /\ \A r : Whole(r)' <=> Whole(r)
      BY <1>1, <2>5 DEF GitHub!ReleaseAt, Whole, GitHub!Files
    <3> QED BY <1>1, <2>2, <2>9, <3>1, <3>2, <3>3, <3>4 DEF SendingKept
  <2> QED BY <1>1, <2>2, <2>4, <2>6, <2>8, <2>10, WorldStays DEF GitHubInv
<1> QED BY <1>3, <1>4

\* The answer does not change what is at the repository, and the receipt is of the effect.
LEMMA HubAnswerStep == ASSUME GitHubInv, GitHub!Answer PROVE GitHubInv'
<1>1. /\ work.doing = "sending" /\ UNCHANGED <<world, plan, evidence>> /\ SendingKept
  BY DEF GitHub!Answer, GitHubInv
<1>2. PICK answer \in {"failed", "created", "different"} :
        work' = [doing |-> "answered", op |-> work.op, answer |-> answer, effect |-> work.effect,
                 span |-> work.span]
  BY DEF GitHub!Answer
<1>3. /\ work'.doing = "answered" /\ work'.op = work.op /\ work'.effect = work.effect
  BY <1>2
<1>4. AnsweredKept'
  <2>1. /\ work.op \in GitHub!Operation /\ work.effect \in SUBSET Facts
        /\ work.span \in SUBSET Worlds
    BY <1>1 DEF SendingKept
  <2>2. work' \in [doing : {"answered"}, op : GitHub!Operation,
                   answer : {"failed", "created", "different"}, effect : SUBSET Facts,
                   span : SUBSET Worlds]
    BY <1>2, <2>1
  <2> QED BY <1>1, <1>3, <2>2 DEF AnsweredKept, SendingKept
<1>5. EvidenceKept'
  BY <1>1 DEF GitHubInv, EvidenceKept
<1>6. GitHub!ObservationsTrue'
  BY <1>3 DEF GitHub!ObservationsTrue
<1>7. GitHub!DraftPublishedWhole'
  BY <1>1, <1>3, WorldStays DEF GitHub!DraftPublishedWhole, Whole
<1> QED BY <1>1, <1>3, <1>4, <1>5, <1>6, <1>7, WorldStays DEF GitHubInv

LEMMA HubDecodeStep == ASSUME GitHubInv, GitHub!Decode PROVE GitHubInv'
<1>1. /\ work.doing = "answered" /\ UNCHANGED <<world, plan>> /\ AnsweredKept /\ EvidenceKept
      /\ work' = [doing |-> "idle"]
  BY DEF GitHub!Decode, GitHub!Idle, GitHubInv
<1>2. work'.doing = "idle" /\ "span" \notin DOMAIN work'
  BY <1>1
<1>3. EvidenceKept'
  <2>1. CASE UNCHANGED evidence
    BY <1>1, <2>1 DEF EvidenceKept
  <2>2. CASE evidence' = [evidence EXCEPT ![work.op].receipts = @ \cup work.effect]
    <3>1. /\ work.op \in GitHub!Operation /\ work.effect \in SUBSET Facts
          /\ work.op = "draft" => work.effect \subseteq Drafts
      BY <1>1 DEF AnsweredKept
    <3> QED BY <1>1, <2>2, <3>1, ReceiptsKept
  <2> QED BY <2>1, <2>2 DEF GitHub!Decode
<1>4. GitHub!ObservationsTrue'
  BY <1>2 DEF GitHub!ObservationsTrue
<1>5. GitHub!DraftPublishedWhole'
  BY <1>1, <1>2, WorldStays DEF GitHub!DraftPublishedWhole, Whole
<1> QED BY <1>1, <1>2, <1>3, <1>4, <1>5, WorldStays DEF GitHubInv

\* A release in another form, under the same identity.
LEMMA WithReleaseKept ==
  ASSUME WorldKept, NEW old \in world.releases, NEW new \in Releases, new.id = old.id,
         NEW w, w = GitHub!WithRelease(old, new)
  PROVE  /\ Identified(w) /\ w.foreign = world.foreign
         /\ w.releases = (world.releases \ {old}) \cup {new}
<1>1. /\ world \in Worlds
      /\ \A one, other \in world.releases : one.id = other.id => one = other
      /\ \A r \in world.releases : r.id <= world.ids
  BY DEF WorldKept, Identified
<1>2. world = [object |-> world.object, ref |-> world.ref, releases |-> world.releases,
               ids |-> world.ids, foreign |-> world.foreign]
      /\ world.object \in BOOLEAN /\ world.ref \in Refs /\ world.releases \in SUBSET Releases
      /\ world.ids \in Nat /\ world.foreign \in Nat
  BY <1>1 DEF Worlds
<1> DEFINE releases == (world.releases \ {old}) \cup {new}
           ids == world.ids + 1
<1>3. w = [world EXCEPT !.releases = releases, !.ids = ids]
  BY DEF GitHub!WithRelease
<1>4. releases \in SUBSET Releases /\ ids \in Nat
  BY <1>2
<1>5. /\ \A one, other \in releases : one.id = other.id => one = other
      /\ \A r \in releases : r.id \in Nat /\ r.id <= ids
  <2>1. \A r \in releases : r = new \/ (r \in world.releases /\ r # old)
    OBVIOUS
  <2>2. \A r \in world.releases : r.id \in Nat
    BY <1>2 DEF Releases
  <2>3. \A one, other \in releases : one.id = other.id => one = other
    BY <1>1, <2>1
  <2>4. \A r \in releases : r.id \in Nat /\ r.id <= ids
    BY <1>1, <1>2, <2>1, <2>2
  <2> QED BY <2>3, <2>4
<1> HIDE DEF releases, ids
<1>6. w = [object |-> world.object, ref |-> world.ref, releases |-> releases, ids |-> ids,
           foreign |-> world.foreign]
  BY <1>2, <1>3
<1>7. w.releases = releases /\ w.ids = ids /\ w.foreign = world.foreign
  BY <1>6
<1>8. w \in Worlds
  BY <1>2, <1>4, <1>6 DEF Worlds
<1> QED BY <1>5, <1>7, <1>8 DEF Identified, releases

\* A new release, which no other has the identity of.
LEMMA NewReleaseKept ==
  ASSUME WorldKept, NEW new \in Releases, new.id = world.ids + 1,
         NEW w, w = [world EXCEPT !.releases = @ \cup {new}, !.ids = @ + 1]
  PROVE  /\ Identified(w) /\ w.foreign = world.foreign
         /\ w.releases = world.releases \cup {new}
<1>1. /\ world \in Worlds
      /\ \A one, other \in world.releases : one.id = other.id => one = other
      /\ \A r \in world.releases : r.id <= world.ids
  BY DEF WorldKept, Identified
<1>2. world = [object |-> world.object, ref |-> world.ref, releases |-> world.releases,
               ids |-> world.ids, foreign |-> world.foreign]
      /\ world.object \in BOOLEAN /\ world.ref \in Refs /\ world.releases \in SUBSET Releases
      /\ world.ids \in Nat /\ world.foreign \in Nat
  BY <1>1 DEF Worlds
<1> DEFINE releases == world.releases \cup {new}
           ids == world.ids + 1
<1>3. w = [world EXCEPT !.releases = releases, !.ids = ids]
  OBVIOUS
<1>4. releases \in SUBSET Releases /\ ids \in Nat
  BY <1>2
<1>5. /\ \A one, other \in releases : one.id = other.id => one = other
      /\ \A r \in releases : r.id <= ids
  <2>1. \A r \in releases : r = new \/ r \in world.releases
    OBVIOUS
  <2>2. \A r \in world.releases : r.id \in Nat
    BY <1>2 DEF Releases
  <2>3. \A r \in world.releases : r.id # new.id
    BY <1>1, <1>2, <2>2
  <2>4. \A one, other \in releases : one.id = other.id => one = other
    BY <1>1, <2>1, <2>3
  <2>5. \A r \in releases : r.id <= ids
    BY <1>1, <1>2, <2>1, <2>2
  <2> QED BY <2>4, <2>5
<1> HIDE DEF releases, ids
<1>6. w = [object |-> world.object, ref |-> world.ref, releases |-> releases, ids |-> ids,
           foreign |-> world.foreign]
  BY <1>2, <1>3
<1>7. w.releases = releases /\ w.ids = ids /\ w.foreign = world.foreign
  BY ONLY <1>6
<1>8. w \in Worlds
  BY <1>2, <1>4, <1>6 DEF Worlds
<1> QED BY <1>5, <1>7, <1>8 DEF Identified, releases

\* An upload appended to the assets of a release.
LEMMA AppendedKept ==
  ASSUME NEW r \in Releases, NEW a \in GitHub!AssetFacts,
         NEW new, new = [r EXCEPT !.assets = Append(@, a)]
  PROVE  new \in Releases /\ new.id = r.id /\ new.draft = r.draft
<1>1. Append(r.assets, a) \in Seq(GitHub!AssetFacts)
  BY AppendProperties DEF Releases
<1> DEFINE assets == Append(r.assets, a)
<1>2. new = [r EXCEPT !.assets = assets]
  OBVIOUS
<1> HIDE DEF assets
<1> QED BY <1>1, <1>2 DEF Releases, assets

LEMMA UploadsTyped ==
  ASSUME WorldKept, NEW name \in Asset \cup {"other"}, NEW bytes \in Asset \cup {"other"},
         NEW a \in GitHub!Uploads(name, bytes)
  PROVE  a \in GitHub!AssetFacts
<1>1. world.ids + 1 \in Nat
  BY DEF WorldKept, Identified, Worlds
<1>2. PICK u \in BOOLEAN, d \in BOOLEAN :
        a = [id |-> world.ids + 1, name |-> name, bytes |-> bytes, uploaded |-> u, digest |-> d]
  BY DEF GitHub!Uploads
<1> QED BY <1>1, <1>2 DEF GitHub!AssetFacts, GitHub!Other

\* What a request does leaves each release under its identity, and what is public whole.
LEMMA EffectKept ==
  ASSUME GitHubInv, work.doing = "sending", work.effect = {}, NEW e \in GitHub!Effects(work.op)
  PROVE  /\ Identified(e.w) /\ e.w.foreign = world.foreign
         /\ e.facts \in Facts /\ (work.op = "draft" => e.facts \in Drafts)
         /\ world.foreign = 0 => \A r \in e.w.releases : ~ r.draft => Whole(r)
<1>1. SendingKept /\ WorldKept /\ world \in Worlds /\ work.op \in GitHub!Operation
  BY DEF GitHubInv, SendingKept, WorldKept, Identified
<1>2. world.foreign = 0 => \A r \in world.releases : ~ r.draft => Whole(r)
  BY PublicWhole DEF GitHubInv
<1>3. world = [object |-> world.object, ref |-> world.ref, releases |-> world.releases,
               ids |-> world.ids, foreign |-> world.foreign]
      /\ world.object \in BOOLEAN /\ world.ref \in Refs /\ world.releases \in SUBSET Releases
      /\ world.ids \in Nat /\ world.foreign \in Nat
  BY <1>1 DEF Worlds
<1>4. CASE work.op = "object"
  <2>1. e = [w |-> [world EXCEPT !.object = TRUE], facts |-> [object |-> "commit"]]
    BY <1>4, HubNames DEF GitHub!Effects
  <2>2. e.w = [object |-> TRUE, ref |-> world.ref, releases |-> world.releases,
               ids |-> world.ids, foreign |-> world.foreign]
        /\ e.facts = [object |-> "commit"]
    BY <1>3, <2>1
  <2>3. e.facts \in Facts
    BY <2>2 DEF Facts
  <2>4. e.w \in Worlds /\ e.w.releases = world.releases /\ e.w.ids = world.ids
        /\ e.w.foreign = world.foreign
    BY <1>3, <2>2 DEF Worlds
  <2> QED BY <1>1, <1>2, <1>4, <2>3, <2>4 DEF WorldKept, Identified
<1>5. CASE work.op = "ref"
  <2>1. e = [w |-> [world EXCEPT !.ref = "commit"], facts |-> [ref |-> "commit"]]
    BY <1>5, HubNames DEF GitHub!Effects
  <2>2. e.w = [object |-> world.object, ref |-> "commit", releases |-> world.releases,
               ids |-> world.ids, foreign |-> world.foreign]
        /\ e.facts = [ref |-> "commit"] /\ "commit" \in Refs
    BY <1>3, <2>1 DEF Refs
  <2>3. e.facts \in Facts
    BY <2>2 DEF Facts
  <2>4. e.w \in Worlds /\ e.w.releases = world.releases /\ e.w.ids = world.ids
        /\ e.w.foreign = world.foreign
    BY <1>3, <2>2 DEF Worlds
  <2> QED BY <1>1, <1>2, <1>5, <2>3, <2>4 DEF WorldKept, Identified
<1>6. CASE work.op = "draft"
  <2> DEFINE new == [id |-> world.ids + 1, draft |-> TRUE, own |-> TRUE, assets |-> <<>>]
             w == [world EXCEPT !.releases = @ \cup {new}, !.ids = @ + 1]
  <2>1. e = [w |-> w, facts |-> GitHub!ReleaseFacts(new)]
    BY <1>6, HubNames DEF GitHub!Effects
  <2>2. new \in Releases /\ new.id = world.ids + 1 /\ new.draft /\ new.own
    BY <1>3 DEF Releases
  <2>3. GitHub!ReleaseFacts(new) \in Drafts
    BY <1>3, <2>2 DEF Drafts, Described, GitHub!ReleaseFacts
  <2> HIDE DEF new
  <2>4. /\ Identified(w) /\ w.foreign = world.foreign
        /\ w.releases = world.releases \cup {new}
    BY <1>1, <2>2, NewReleaseKept
  <2> HIDE DEF w
  <2>5. e.w = w /\ e.facts = GitHub!ReleaseFacts(new)
    BY <2>1
  <2> QED BY <1>2, <2>2, <2>3, <2>4, <2>5 DEF Facts, Drafts
<1>7. CASE work.op \in Asset
  <2> DEFINE free == {q \in GitHub!ReleaseAt(world, GitHub!Parent.id) :
                        ~ \E b \in GitHub!Files(q) : b.name = work.op}
             uploaded == GitHub!Uploads(work.op, work.op)
  <2>1. e \in UNION {{[w |-> GitHub!WithRelease(r, [r EXCEPT !.assets = Append(@, a)]), facts |-> a] :
                       a \in uploaded} : r \in free}
    BY <1>7, HubNames DEF GitHub!Effects
  <2> HIDE DEF free, uploaded
  <2>2. PICK r \in free, a \in uploaded :
          e = [w |-> GitHub!WithRelease(r, [r EXCEPT !.assets = Append(@, a)]), facts |-> a]
    BY <2>1
  <2> USE DEF free, uploaded
  <2>3. r \in world.releases /\ r \in Releases /\ r \in GitHub!ReleaseAt(world, GitHub!Parent.id)
    BY <1>3, <2>2 DEF GitHub!ReleaseAt
  <2>4. a \in GitHub!AssetFacts
    BY <1>1, <1>7, <2>2, UploadsTyped
  <2> DEFINE new == [r EXCEPT !.assets = Append(@, a)]
             w == GitHub!WithRelease(r, new)
  <2>5. new \in Releases /\ new.id = r.id /\ new.draft = r.draft
    BY <2>3, <2>4, AppendedKept
  <2>6. e = [w |-> w, facts |-> a]
    BY <2>2
  <2> HIDE DEF new
  <2>7. /\ Identified(w) /\ w.foreign = world.foreign
        /\ w.releases = (world.releases \ {r}) \cup {new}
    BY <1>1, <2>3, <2>5, WithReleaseKept
  <2> HIDE DEF w
  <2>8. e.w = w /\ e.facts = a
    BY <2>6
  <2>9. world.foreign = 0 => new.draft
    BY <1>1, <1>7, <2>3, <2>5 DEF SendingKept
  <2> QED BY <1>2, <1>7, <2>4, <2>7, <2>8, <2>9, HubNames DEF Facts
<1>8. CASE work.op = "publish"
  <2>1. PICK r \in GitHub!ReleaseAt(world, GitHub!Parent.id) :
          e = [w |-> GitHub!WithRelease(r, [r EXCEPT !.draft = FALSE]),
               facts |-> [GitHub!ReleaseFacts(r) EXCEPT !.draft = FALSE]]
    BY <1>8, HubNames DEF GitHub!Effects
  <2>2. r \in world.releases /\ r \in Releases
    BY <1>3, <2>1 DEF GitHub!ReleaseAt
  <2> DEFINE new == [r EXCEPT !.draft = FALSE]
             w == GitHub!WithRelease(r, new)
  <2>3. new \in Releases /\ new.id = r.id /\ new.assets = r.assets
    BY <2>2 DEF Releases
  <2>4. [GitHub!ReleaseFacts(r) EXCEPT !.draft = FALSE] \in Described
    BY <1>1, <2>2, ReleaseDescribed DEF Described
  <2>5. e.facts = [GitHub!ReleaseFacts(r) EXCEPT !.draft = FALSE] /\ e.w = w
    BY <2>1
  <2> HIDE DEF new
  <2>6. /\ Identified(w) /\ w.foreign = world.foreign
        /\ w.releases = (world.releases \ {r}) \cup {new}
    BY <1>1, <2>2, <2>3, WithReleaseKept
  <2> HIDE DEF w
  <2>7. world.foreign = 0 => Whole(new)
    <3>1. world.foreign = 0 => Whole(r)
      BY <1>1, <1>8, <2>1 DEF SendingKept
    <3> QED BY <2>3, <3>1 DEF Whole, GitHub!Files
  <2> QED BY <1>2, <1>8, <2>4, <2>5, <2>6, <2>7 DEF Facts
<1> QED BY <1>1, <1>4, <1>5, <1>6, <1>7, <1>8, HubNames

LEMMA HubCommitStep == ASSUME GitHubInv, GitHub!Commit PROVE GitHubInv'
<1>1. /\ work.doing = "sending" /\ work.effect = {} /\ UNCHANGED <<plan, evidence>>
  BY DEF GitHub!Commit, GitHub!Reach
<1>2. PICK e \in GitHub!Effects(work.op) :
        world' = e.w /\ work' = [work EXCEPT !.effect = {e.facts}]
  BY DEF GitHub!Commit, GitHub!Reach
<1>3. /\ Identified(e.w) /\ e.w.foreign = world.foreign
      /\ e.facts \in Facts /\ (work.op = "draft" => e.facts \in Drafts)
      /\ world.foreign = 0 => \A r \in e.w.releases : ~ r.draft => Whole(r)
  BY <1>1, EffectKept
<1>4. SendingKept /\ work.op \in GitHub!Operation
  BY <1>1 DEF GitHubInv, SendingKept
<1>5. /\ work'.doing = "sending" /\ work'.op = work.op /\ work'.parents = work.parents
      /\ work'.span = work.span /\ work'.effect = {e.facts}
  BY <1>2, <1>4 DEF SendingKept
<1>6. /\ (GitHub!ValidatePlan(plan) /\ plan \in GitHub!Plans)'
      /\ EvidenceKept'
  BY <1>1 DEF GitHubInv, EvidenceKept, GitHub!ValidatePlan, GitHub!Plans, GitHub!Selected,
     GitHub!RequiredParents
<1>7. WorldKept'
  BY <1>2, <1>3 DEF WorldKept, Identified
<1>8. GitHub!Parent' = GitHub!Parent
  BY <1>5 DEF GitHub!Parent
<1>9. SendingKept'
  <2>1. work' \in [doing : {"sending"}, op : GitHub!Operation,
                   parents : [GitHub!RequiredParents(plan, work.op) -> Facts],
                   span : SUBSET Worlds, effect : SUBSET Facts]
    BY <1>2, <1>3, <1>4 DEF SendingKept
  <2>2. GitHub!RequiredParents(plan, work.op)' = GitHub!RequiredParents(plan, work.op)
    BY <1>1, <1>5, ParentsStay
  <2>3. ParentOwn'
    BY <1>4, <1>5, <1>8 DEF SendingKept, ParentOwn
  <2> QED BY <1>3, <1>5, <2>1, <2>2, <2>3 DEF SendingKept
<1>10. GitHub!ObservationsTrue'
  BY <1>5 DEF GitHub!ObservationsTrue
<1>11. GitHub!DraftPublishedWhole'
  <2>1. (work.op = "publish" => \A name \in plan.assets : \E w \in work.span :
           GitHub!Holds(w, GitHub!Parent.id, name))'
    <3>1. work.op = "publish" => \A name \in plan.assets : \E w \in work.span :
            GitHub!Holds(w, GitHub!Parent.id, name)
      BY <1>1 DEF GitHubInv, GitHub!DraftPublishedWhole
    <3> QED BY <1>1, <1>5, <1>8, <3>1 DEF GitHub!Holds, GitHub!ReleaseAt, GitHub!Files
  <2>2. (world.foreign = 0 => \A r \in world.releases : ~ r.draft => Whole(r))'
    <3>1. \A r : Whole(r)' <=> Whole(r)
      BY <1>1 DEF Whole, GitHub!Files
    <3>2. world'.foreign = world.foreign /\ world'.releases = e.w.releases
      BY <1>2, <1>3
    <3> QED BY <1>3, <3>1, <3>2
  <2> QED BY <2>1, <2>2 DEF GitHub!DraftPublishedWhole, Whole
<1> QED BY <1>5, <1>6, <1>7, <1>9, <1>10, <1>11 DEF GitHubInv

\* An asset less.
LEMMA WithoutKept ==
  ASSUME NEW r \in Releases, NEW i \in DOMAIN r.assets,
         NEW new, new = [r EXCEPT !.assets = GitHub!Without(@, i)]
  PROVE  new \in Releases /\ new.id = r.id
<1> DEFINE s == r.assets
           assets == GitHub!Without(s, i)
<1>1. s \in Seq(GitHub!AssetFacts)
  BY DEF Releases
<1>2. Len(s) \in Nat /\ i \in 1 .. Len(s) /\ \A j \in 1 .. Len(s) : s[j] \in GitHub!AssetFacts
  BY <1>1, LenProperties, ElementOfSeq
<1> HIDE DEF s
<1>3. SubSeq(s, 1, i - 1) \in Seq(GitHub!AssetFacts)
  <2>1. \A j \in 1 .. i - 1 : s[j] \in GitHub!AssetFacts
    BY <1>2
  <2> QED BY <1>2, <2>1, SubSeqProperties
<1>4. SubSeq(s, i + 1, Len(s)) \in Seq(GitHub!AssetFacts)
  <2>1. \A j \in i + 1 .. Len(s) : s[j] \in GitHub!AssetFacts
    BY <1>2
  <2> QED BY <1>2, <2>1, SubSeqProperties
<1>5. assets \in Seq(GitHub!AssetFacts)
  BY <1>3, <1>4, ConcatProperties DEF GitHub!Without
<1>6. new = [r EXCEPT !.assets = assets]
  BY DEF s
<1> HIDE DEF assets
<1> QED BY <1>5, <1>6 DEF Releases

\* Whatever others do, releases keep their identities.
LEMMA ForeignWorld ==
  ASSUME GitHubInv, GitHub!Foreign
  PROVE  \E w : /\ Identified(w) /\ w.foreign = world.foreign
                /\ world' = [w EXCEPT !.foreign = @ + 1]
                /\ UNCHANGED <<plan, evidence>>
                /\ work' = IF work.doing = "reading"
                           THEN [work EXCEPT !.span = @ \cup {[w EXCEPT !.foreign = @ + 1]}]
                           ELSE work
<1> DEFINE moved == {[world EXCEPT !.ref = c] : c \in {GitHub!None, GitHub!Other}}
           drafted == {[world EXCEPT !.ids = @ + 1, !.releases = @ \cup
                          {[id |-> world.ids + 1, draft |-> TRUE, own |-> FALSE,
                            assets |-> <<>>]}]}
           changed == UNION {{GitHub!WithRelease(r, [r EXCEPT !.draft = FALSE]),
                              GitHub!WithRelease(r, [r EXCEPT !.own = FALSE]),
                              [world EXCEPT !.releases = @ \ {r}]} : r \in world.releases}
           added == UNION {{GitHub!WithRelease(r, [r EXCEPT !.assets = Append(@, a)]) :
                              a \in UNION {GitHub!Uploads(n, GitHub!Other) :
                                n \in (Asset \cup {GitHub!Other}) \ {b.name : b \in GitHub!Files(r)}}} :
                             r \in world.releases}
           removed == UNION {{GitHub!WithRelease(r, [r EXCEPT !.assets = GitHub!Without(@, i)]) :
                                i \in DOMAIN r.assets} : r \in world.releases}
<1>1. PICK w \in moved \cup drafted \cup changed \cup added \cup removed :
        /\ world' = [w EXCEPT !.foreign = @ + 1]
        /\ UNCHANGED <<plan, evidence>>
        /\ work' = IF work.doing = "reading"
                   THEN [work EXCEPT !.span = @ \cup {[w EXCEPT !.foreign = @ + 1]}]
                   ELSE work
  BY DEF GitHub!Foreign, GitHub!Reach
<1>2. WorldKept /\ world \in Worlds
  BY DEF GitHubInv, WorldKept, Identified
<1>3. world = [object |-> world.object, ref |-> world.ref, releases |-> world.releases,
               ids |-> world.ids, foreign |-> world.foreign]
      /\ world.object \in BOOLEAN /\ world.ref \in Refs /\ world.releases \in SUBSET Releases
      /\ world.ids \in Nat /\ world.foreign \in Nat
  BY <1>2 DEF Worlds
<1>4. ASSUME w \in moved PROVE Identified(w) /\ w.foreign = world.foreign
  <2>1. PICK c \in {GitHub!None, GitHub!Other} : w = [world EXCEPT !.ref = c]
    BY <1>4
  <2>2. c \in Refs
    BY DEF Refs, GitHub!None, None
  <2>3. w = [object |-> world.object, ref |-> c, releases |-> world.releases,
             ids |-> world.ids, foreign |-> world.foreign]
    BY <1>3, <2>1
  <2>4. w \in Worlds /\ w.releases = world.releases /\ w.ids = world.ids
        /\ w.foreign = world.foreign
    BY <1>3, <2>2, <2>3 DEF Worlds
  <2> QED BY <1>2, <2>4 DEF WorldKept, Identified
<1>5. ASSUME w \in drafted PROVE Identified(w) /\ w.foreign = world.foreign
  <2> DEFINE new == [id |-> world.ids + 1, draft |-> TRUE, own |-> FALSE, assets |-> <<>>]
  <2>1. new \in Releases /\ new.id = world.ids + 1
    BY <1>3 DEF Releases
  <2>2. w = [world EXCEPT !.ids = @ + 1, !.releases = @ \cup {new}]
    BY <1>5
  <2> HIDE DEF new
  <2>3. w = [world EXCEPT !.releases = @ \cup {new}, !.ids = @ + 1]
    BY <1>3, <2>2
  <2> QED BY <1>2, <2>1, <2>3, NewReleaseKept
<1>6. ASSUME w \in changed PROVE Identified(w) /\ w.foreign = world.foreign
  <2>1. PICK r \in world.releases :
          w \in {GitHub!WithRelease(r, [r EXCEPT !.draft = FALSE]),
                 GitHub!WithRelease(r, [r EXCEPT !.own = FALSE]),
                 [world EXCEPT !.releases = @ \ {r}]}
    BY <1>6
  <2>2. r \in Releases
    BY <1>3
  <2>3. CASE w = [world EXCEPT !.releases = @ \ {r}]
    <3>1. w = [object |-> world.object, ref |-> world.ref, releases |-> world.releases \ {r},
               ids |-> world.ids, foreign |-> world.foreign]
      BY <1>3, <2>3
    <3>2. w \in Worlds /\ w.releases = world.releases \ {r} /\ w.ids = world.ids
          /\ w.foreign = world.foreign
      BY <1>3, <3>1 DEF Worlds
    <3> QED BY <1>2, <3>2 DEF WorldKept, Identified
  <2>4. ASSUME NEW new, new \in {[r EXCEPT !.draft = FALSE], [r EXCEPT !.own = FALSE]},
               w = GitHub!WithRelease(r, new)
        PROVE  Identified(w) /\ w.foreign = world.foreign
    <3>1. new \in Releases /\ new.id = r.id
      BY <2>2, <2>4 DEF Releases
    <3> QED BY <1>2, <2>4, <3>1, WithReleaseKept
  <2> QED BY <2>1, <2>3, <2>4
<1>7. ASSUME w \in added PROVE Identified(w) /\ w.foreign = world.foreign
  <2>1. PICK r \in world.releases :
          w \in {GitHub!WithRelease(r, [r EXCEPT !.assets = Append(@, a)]) :
                   a \in UNION {GitHub!Uploads(n, GitHub!Other) :
                     n \in (Asset \cup {GitHub!Other}) \ {b.name : b \in GitHub!Files(r)}}}
    BY <1>7
  <2> DEFINE names == (Asset \cup {GitHub!Other}) \ {b.name : b \in GitHub!Files(r)}
             files == UNION {GitHub!Uploads(n, GitHub!Other) : n \in names}
  <2>2. PICK a \in files : w = GitHub!WithRelease(r, [r EXCEPT !.assets = Append(@, a)])
    <3>1. w \in {GitHub!WithRelease(r, [r EXCEPT !.assets = Append(@, a)]) : a \in files}
      BY <2>1
    <3> HIDE DEF files
    <3> QED BY <3>1
  <2>3. PICK n \in Asset \cup {GitHub!Other} : a \in GitHub!Uploads(n, GitHub!Other)
    OBVIOUS
  <2>4. a \in GitHub!AssetFacts /\ r \in Releases
    <3>1. GitHub!Other = "other"
      BY DEF GitHub!Other
    <3> QED BY <1>2, <1>3, <2>3, <3>1, UploadsTyped
  <2> DEFINE new == [r EXCEPT !.assets = Append(@, a)]
  <2>5. new \in Releases /\ new.id = r.id
    BY <2>4, AppendedKept
  <2>6. w = GitHub!WithRelease(r, new)
    BY <2>2
  <2> HIDE DEF new
  <2> QED BY <1>2, <2>5, <2>6, WithReleaseKept
<1>8. ASSUME w \in removed PROVE Identified(w) /\ w.foreign = world.foreign
  <2>1. PICK r \in world.releases :
          w \in {GitHub!WithRelease(r, [r EXCEPT !.assets = GitHub!Without(@, i)]) :
                   i \in DOMAIN r.assets}
    BY <1>8
  <2>2. PICK i \in DOMAIN r.assets :
          w = GitHub!WithRelease(r, [r EXCEPT !.assets = GitHub!Without(@, i)])
    BY <2>1
  <2> DEFINE new == [r EXCEPT !.assets = GitHub!Without(@, i)]
  <2>3. r \in Releases
    BY <1>3
  <2>4. new \in Releases /\ new.id = r.id
    BY <2>3, WithoutKept
  <2>5. w = GitHub!WithRelease(r, new)
    BY <2>2
  <2> HIDE DEF new
  <2> QED BY <1>2, <2>4, <2>5, WithReleaseKept
<1> HIDE DEF moved, drafted, changed, added, removed
<1> QED BY <1>1, <1>4, <1>5, <1>6, <1>7, <1>8

LEMMA HubForeignStep == ASSUME GitHubInv, GitHub!Foreign PROVE GitHubInv'
<1>1. PICK w : /\ Identified(w) /\ w.foreign = world.foreign
               /\ world' = [w EXCEPT !.foreign = @ + 1]
               /\ UNCHANGED <<plan, evidence>>
               /\ work' = IF work.doing = "reading"
                          THEN [work EXCEPT !.span = @ \cup {[w EXCEPT !.foreign = @ + 1]}]
                          ELSE work
  BY ForeignWorld
<1>2. world' \in Worlds /\ world'.foreign # 0 /\ WorldKept'
  <2>1. w \in Worlds
    BY <1>1 DEF Identified
  <2>2. w.foreign \in Nat /\ world'.foreign = w.foreign + 1 /\ world'.releases = w.releases
        /\ world'.ids = w.ids /\ world' \in Worlds
    BY <1>1, <2>1 DEF Worlds
  <2> QED BY <1>1, <2>2 DEF WorldKept, Identified
<1>3. /\ (GitHub!ValidatePlan(plan) /\ plan \in GitHub!Plans)'
      /\ EvidenceKept'
  BY <1>1 DEF GitHubInv, EvidenceKept, GitHub!ValidatePlan, GitHub!Plans, GitHub!Selected,
     GitHub!RequiredParents
<1>4. CASE work.doing = "reading"
  <2>1. ReadingTyped /\ ParentOwn /\ FactsTrue /\ ObjectRead /\ PublicationReads
    BY <1>4, HubReading
  <2> DEFINE span == work.span \cup {world'}
  <2>2. work' = [work EXCEPT !.span = span]
    BY <1>1, <1>4
  <2>3. span \in SUBSET Worlds /\ work.span \subseteq span /\ world' \in span
    BY <1>2, <2>1 DEF ReadingTyped
  <2> HIDE DEF span
  <2>4. /\ work'.op = work.op /\ work'.purpose = work.purpose /\ work'.parents = work.parents
        /\ work'.span = span /\ work'.object = work.object /\ work'.ref = work.ref
        /\ work'.releases = work.releases /\ work'.release = work.release
        /\ work'.listed = work.listed /\ work'.todo = work.todo
        /\ work'.missing = work.missing /\ work'.doing = "reading"
    BY <2>1, <2>2 DEF ReadingTyped
  <2>5. ReadingTyped'
    BY <1>1, <2>1, <2>2, <2>3, <2>4, ParentsStay DEF ReadingTyped
  <2>6. FactsTrue'
    <3>1. GitHub!Parent' = GitHub!Parent
      BY <2>4 DEF GitHub!Parent
    <3>2. /\ \A r : GitHub!ReleaseFacts(r)' = GitHub!ReleaseFacts(r)
          /\ \A v, id : GitHub!ReleaseAt(v, id)' = GitHub!ReleaseAt(v, id)
          /\ \A r : GitHub!Files(r)' = GitHub!Files(r)
          /\ \A facts : GitHub!Stable(facts)' = GitHub!Stable(facts)
      BY DEF GitHub!ReleaseFacts, GitHub!ReleaseAt, GitHub!Files, GitHub!Stable
    <3> QED BY <2>1, <2>3, <2>4, <3>1, <3>2 DEF FactsTrue
  <2>7. ParentOwn' /\ ObjectRead' /\ PublicationReads' /\ ReadAlone'
    BY <1>2, <2>1, <2>4 DEF ParentOwn, GitHub!Parent, ObjectRead, PublicationReads, ReadAlone
  <2>8. GitHub!ObservationsTrue' /\ GitHub!DraftPublishedWhole'
    BY <1>2, <2>4 DEF GitHub!ObservationsTrue, GitHub!DraftPublishedWhole
  <2> QED BY <1>2, <1>3, <2>4, <2>5, <2>6, <2>7, <2>8 DEF GitHubInv, ReadingKept
<1>5. CASE work.doing # "reading"
  <2>1. work' = work /\ plan' = plan
    BY <1>1, <1>5
  <2>2. work.doing = "sending" => SendingKept'
    BY <1>2, <2>1 DEF GitHubInv, SendingKept, ParentOwn, GitHub!Parent, GitHub!RequiredParents
  <2>3. work.doing = "answered" => AnsweredKept'
    BY <2>1 DEF GitHubInv, AnsweredKept
  <2>4. GitHub!ObservationsTrue'
    <3>1. GitHub!ObservationsTrue
      BY DEF GitHubInv
    <3> QED BY <2>1, <3>1 DEF GitHub!ObservationsTrue, GitHub!Effective, GitHub!Holds,
           GitHub!ReleaseAt, GitHub!Files
  <2>5. GitHub!DraftPublishedWhole'
    <3>1. GitHub!DraftPublishedWhole
      BY DEF GitHubInv
    <3> QED BY <1>2, <2>1, <3>1 DEF GitHub!DraftPublishedWhole, GitHub!Holds, GitHub!Parent,
           GitHub!ReleaseAt, GitHub!Files
  <2> QED BY <1>2, <1>3, <1>5, <2>1, <2>2, <2>3, <2>4, <2>5 DEF GitHubInv
<1> QED BY <1>4, <1>5

LEMMA GitHubStep == ASSUME GitHubInv, GitHub!Next PROVE GitHubInv'
BY HubBeginStep, HubReadStep, HubObserveStep, HubSendStep, HubCommitStep, HubAnswerStep,
   HubDecodeStep, HubForeignStep DEF GitHub!Next

LEMMA GitHubSafe ==
  ASSUME GitHubInv
  PROVE  GitHub!TypeOK /\ GitHub!ObservationsTrue /\ GitHub!DraftPublishedWhole
BY DEF GitHubInv, WorldKept, Identified, Worlds, Releases, GitHub!TypeOK

-----------------------------------------------------------------------------
(* The providers together *)

LEMMA OneProviderSteps ==
  ASSUME [Next]_vars
  PROVE  /\ on' = on
         /\ on = "npm" => Npm!Next \/ UNCHANGED npm
         /\ on = "github" => GitHub!Next \/ UNCHANGED github
         /\ on = "pypi" => PyPi!Next \/ UNCHANGED pypi
         /\ on = "mcp" => Mcp!Next \/ UNCHANGED mcp
BY DEF Next, vars

LEMMA NpmKept ==
  /\ Init /\ on = "npm" => NpmInv
  /\ NpmInv /\ (Npm!Next \/ UNCHANGED npm) => NpmInv'
<1>1. NpmInv /\ UNCHANGED npm => NpmInv'
  BY DEF npm, NpmInv, VersionsKept, AnswersKept, ProvenanceKept, SeenTrue, Npm!Validated,
     Npm!SignedBySource
<1> QED BY <1>1, NpmInit, NpmStep DEF Init

LEMMA GitHubKept ==
  /\ Init /\ on = "github" => GitHubInv
  /\ GitHubInv /\ (GitHub!Next \/ UNCHANGED github) => GitHubInv'
<1>1. ASSUME GitHubInv, UNCHANGED github PROVE GitHubInv'
  <2>1. UNCHANGED <<world, plan, evidence, work>>
    BY <1>1 DEF github
  <2>2. EvidenceKept'
    BY <1>1, <2>1 DEF GitHubInv, EvidenceKept
  <2>3. ASSUME work.doing = "reading" PROVE ReadingKept'
    <3>1. ReadingKept
      BY <1>1, <2>3 DEF GitHubInv
    <3>2. ReadingTyped'
      BY <2>1, <3>1 DEF ReadingKept, ReadingTyped, GitHub!RequiredParents
    <3>3. ParentOwn'
      BY <2>1, <3>1 DEF ReadingKept, ParentOwn, GitHub!Parent
    <3>4. FactsTrue'
      BY <2>1, <3>1 DEF ReadingKept, FactsTrue, GitHub!Parent, GitHub!ReleaseAt,
         GitHub!ReleaseFacts, GitHub!Files, GitHub!Stable
    <3>5. ObjectRead' /\ PublicationReads'
      BY <2>1, <3>1 DEF ReadingKept, ObjectRead, PublicationReads
    <3>6. ReadAlone'
      BY <2>1, <3>1 DEF ReadingKept, ReadAlone, Paging, GitHub!Parent, GitHub!ReleaseAt
    <3> QED BY <3>2, <3>3, <3>4, <3>5, <3>6 DEF ReadingKept
  <2>4. work.doing = "sending" => SendingKept'
    BY <1>1, <2>1 DEF GitHubInv, SendingKept, ParentOwn, Whole, GitHub!Parent,
       GitHub!RequiredParents, GitHub!ReleaseAt, GitHub!Files
  <2>5. work.doing = "answered" => AnsweredKept'
    BY <1>1, <2>1 DEF GitHubInv, AnsweredKept
  <2>6. GitHub!ObservationsTrue'
    <3>1. GitHub!ObservationsTrue
      BY <1>1 DEF GitHubInv
    <3> QED BY <2>1, <3>1 DEF GitHub!ObservationsTrue, GitHub!Effective, GitHub!Holds,
           GitHub!ReleaseAt, GitHub!Files
  <2>7. GitHub!DraftPublishedWhole'
    <3>1. GitHub!DraftPublishedWhole
      BY <1>1 DEF GitHubInv
    <3> QED BY <2>1, <3>1 DEF GitHub!DraftPublishedWhole, GitHub!Holds, GitHub!Parent,
           GitHub!ReleaseAt, GitHub!Files
  <2> QED BY <1>1, <2>1, <2>2, <2>3, <2>4, <2>5, <2>6, <2>7, WorldStays DEF GitHubInv
<1> QED BY <1>1, HubInit, GitHubStep DEF Init

LEMMA PyPiKept ==
  /\ Init /\ on = "pypi" => PyPiInv
  /\ PyPiInv /\ (PyPi!Next \/ UNCHANGED pypi) => PyPiInv'
<1>1. PyPiInv /\ UNCHANGED pypi => PyPiInv'
  BY DEF pypi, PyPiInv, IndexTyped, FormsKept, PyPi!Sent, PyPi!Inspected, PyPi!OutcomesTrue,
     PyPi!ObservationsTrue, PyPi!DuplicateDistribution
<1> QED BY <1>1, PyPiInit, PyPiStep DEF Init

LEMMA McpKept ==
  /\ Init /\ on = "mcp" => McpInv
  /\ McpInv /\ (Mcp!Next \/ UNCHANGED mcp) => McpInv'
<1>1. McpInv /\ UNCHANGED mcp => McpInv'
  BY DEF mcp, McpInv, ServedOnce, StoredKept, Mcp!ObservationsTrue
<1> QED BY <1>1, McpInit, McpStep DEF Init

\* Each provider keeps its invariant, whatever others do to its registry and wherever its
\* reads and its calls are interrupted (packages/npm, github, pypi and mcp).
THEOREM ProvidersKept == Spec => []ProviderInv
<1>1. Init => ProviderInv
  BY NpmKept, GitHubKept, PyPiKept, McpKept DEF ProviderInv, Init
<1>2. ProviderInv /\ [Next]_vars => ProviderInv'
  BY OneProviderSteps, NpmKept, GitHubKept, PyPiKept, McpKept DEF ProviderInv
<1> QED BY <1>1, <1>2, PTL DEF Spec

\* The state of each provider and of its registry stays of its types.
THEOREM ProvidersTyped == Spec => []TypeOK
<1>1. ProviderInv => TypeOK
  BY NpmTyped, GitHubSafe, PyPiTyped, McpSafe DEF ProviderInv, TypeOK
<1> QED BY <1>1, ProvidersKept, PTL

\* A receipt is of a write that took effect at the registry, and a rejection of one that
\* never will (acknowledges and isAuthenticationRejection of npm, decodeResponse of PyPI
\* and MCP).
THEOREM ReceiptsMeanEffects == Spec => []OutcomesTrue
<1>1. ProviderInv => OutcomesTrue
  BY NpmSafe, PyPiSafe, McpSafe DEF ProviderInv, OutcomesTrue
<1> QED BY <1>1, ProvidersKept, PTL

\* What an observation says was so in a state the registry was in, for GitHub one that it
\* was in while the reads went on, though others write between them (classifyObservation).
THEOREM ObservationsMeanStates == Spec => []ObservationsTrue
<1>1. ProviderInv => ObservationsTrue
  BY NpmSafe, GitHubSafe, PyPiSafe, McpSafe DEF ProviderInv, ObservationsTrue
<1> QED BY <1>1, ProvidersKept, PTL

\* npm's provenance is of the very bytes and the run that built them, GitHub's release goes
\* public with the whole plan in it, and files of one PyPI plan take different names and read
\* as what the index was told (createProvenance, preflight, uploadIntent).
THEOREM WhatIsSentIsWhole == Spec => []SentWhole
<1>1. ProviderInv => SentWhole
  BY NpmSafe, GitHubSafe, PyPiSafe DEF ProviderInv, SentWhole
<1> QED BY <1>1, ProvidersKept, PTL

=============================================================================
