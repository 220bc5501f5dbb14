----------------------------- MODULE McpProvider -----------------------------
(***************************************************************************)
(* The MCP registry provider: one POST publishes a version of a server's   *)
(* manifest, which its authorization must own; the registry answers with   *)
(* what it stored, and reads tell later what it serves.  A version is not  *)
(* replaced, but its status changes, and others publish.  packages/mcp.    *)
(***************************************************************************)
EXTENDS Naturals, FiniteSets

CONSTANTS
  Namespace, Version,    \* of a server's name
  Coordinate, Setup,     \* what a package is, and how it is run
  MaxForeign             \* bound: what others do at the registry

McpAssumption == MaxForeign \in Nat

VARIABLES servers, publication, look
vars == <<servers, publication, look>>

None == "none"

\* Package and Input: a package of some registry by its coordinate, and how it is run; whether
\* an input is secret, and whether it has a value.
Package == [coordinate : Coordinate, setup : Setup]
Input == [secret : BOOLEAN, value : BOOLEAN]
Manifest == [namespace : Namespace, version : Version, packages : SUBSET Package,
             remote : BOOLEAN, input : Input]

\* ManifestCodec: something to run, each package once, no secret's value.
Admissible(manifest) ==
  /\ manifest.packages # {} \/ manifest.remote
  /\ \A one, other \in manifest.packages : one.coordinate = other.coordinate => one = other
  /\ ~ (manifest.input.secret /\ manifest.input.value)

\* PublishIntent: a token owns a namespace; the workflow of a repository owns its owner's,
\* when its audience is the registry published to.
Authorization == [kind : {"token", "oidc"}, owns : Namespace, audience : {"registry", "other"}]

Owns(authorization, manifest) ==
  /\ authorization.owns = manifest.namespace
  /\ authorization.kind = "oidc" => authorization.audience = "registry"

Entry == [manifest : Manifest, status : {"active", "deprecated", "deleted"}]
Key(manifest) == <<manifest.namespace, manifest.version>>

Init ==
  /\ servers = [now |-> {}, past |-> {}, foreign |-> 0]
  /\ look = {}
  /\ \E manifest \in Manifest, authorization \in Authorization :
       /\ Admissible(manifest) /\ Owns(authorization, manifest)
       /\ publication = [manifest |-> manifest, authorization |-> authorization, body |-> {},
                         phase |-> "planned", stored |-> FALSE, answer |-> None,
                         outcome |-> None]

TypeOK ==
  /\ servers.now \subseteq Entry /\ servers.past \subseteq Entry
  /\ publication.manifest \in Manifest /\ publication.authorization \in Authorization
  /\ publication.phase \in {"planned", "ready", "sending", "done", "refused"}

Step(fields) == publication' = fields /\ UNCHANGED <<servers, look>>

\* prepare, render: the body is the manifest in canonical form.
Prepare ==
  /\ publication.phase = "planned"
  /\ Step([publication EXCEPT !.phase = "ready", !.body = {publication.manifest}])

\* ownsRequest: the body is the one made again of the scope.
OwnsRequest(body) == body = publication.manifest

\* What the transport is handed is recognised before it is sent.
Send ==
  /\ publication.phase = "ready"
  /\ \E body \in publication.body \cup {[publication.manifest EXCEPT !.remote = ~ @]} :
       Step([publication EXCEPT !.body = {body},
               !.phase = IF OwnsRequest(body) THEN "sending" ELSE "refused"])

Serve(entry) ==
  [servers EXCEPT !.now = {e \in @ : Key(e.manifest) # Key(entry.manifest)} \cup {entry},
                  !.past = @ \cup {entry}]
Taken(manifest) == \E entry \in servers.now : Key(entry.manifest) = Key(manifest)

\* The registry stores a version it does not have, for whom the authorization lets publish.
Store ==
  /\ publication.phase \in {"sending", "done"} /\ ~ publication.stored
  /\ publication.answer \in {None, "lost", "error"}
  /\ publication.authorization.kind = "oidc" => publication.authorization.audience = "registry"
  /\ \E body \in publication.body :
       /\ ~ Taken(body)
       /\ servers' = Serve([manifest |-> body, status |-> "active"])
  /\ publication' = [publication EXCEPT !.stored = TRUE]
  /\ UNCHANGED look

\* Mutant: 200 is a receipt, whatever the registry says it stored.
AcknowledgesAny(answered, manifest) == TRUE
Acknowledges(answered, manifest) ==
  answered = {[manifest |-> manifest, status |-> "active"]}

\* decodeResponse: a receipt repeats the exact manifest as active.  The registry may answer
\* 200 with another entry it serves, or with something unreadable ({}).
Answered ==
  /\ publication.phase = "sending"
  /\ \/ \E answer \in {"lost", "error"} :
          Step([publication EXCEPT !.phase = "done", !.answer = answer, !.outcome = "Unknown"])
     \/ \E answered \in {{}} \cup {{entry} : entry \in
             {e \in servers.now : publication.stored \/ e.manifest # publication.manifest}} :
          Step([publication EXCEPT !.phase = "done", !.answer = "ok",
                  !.outcome = IF Acknowledges(answered, publication.manifest)
                              THEN "Accepted" ELSE "Unknown"])

\* Mutant: a missing version is absent, and may be published again.
MissingIsAbsent(manifest, page) ==
  CASE page = {} -> "Absent"
    [] \E entry \in page : Key(entry.manifest) # Key(manifest) -> "Inconclusive"
    [] page = {[manifest |-> manifest, status |-> "active"]} -> "Satisfied"
    [] OTHER -> "Conflict"

\* observe, classifyObservation: 404 is pending; another coordinate says nothing; another
\* manifest, or ours no longer active, conflicts.
Classify(manifest, page) ==
  CASE page = {} -> "Pending"
    [] \E entry \in page : Key(entry.manifest) # Key(manifest) -> "Inconclusive"
    [] page = {[manifest |-> manifest, status |-> "active"]} -> "Satisfied"
    [] OTHER -> "Conflict"

Observe ==
  /\ publication.phase \in {"ready", "sending", "done"}
  /\ \/ look' = {[page |-> {}, status |-> "Inconclusive"]}
     \/ \E page \in {{}} \cup {{entry} : entry \in servers.past} :
          look' = {[page |-> page, status |-> Classify(publication.manifest, page)]}
  /\ UNCHANGED <<servers, publication>>

\* Others publish, and anyone may change a status.
Foreign ==
  /\ servers.foreign < MaxForeign
  /\ \/ \E manifest \in Manifest :
          /\ ~ Taken(manifest) /\ Admissible(manifest)
          /\ servers' = [Serve([manifest |-> manifest, status |-> "active"]) EXCEPT !.foreign = @ + 1]
     \/ \E entry \in servers.now, status \in {"active", "deprecated", "deleted"} :
          servers' = [Serve([entry EXCEPT !.status = status]) EXCEPT !.foreign = @ + 1]
  /\ UNCHANGED <<publication, look>>

Next == Prepare \/ Send \/ Store \/ Answered \/ Observe \/ Foreign

Spec == Init /\ [][Next]_vars

-----------------------------------------------------------------------------
(* Properties *)

\* A receipt is of a publication that was stored as intended, and it is there for good:
\* only its status may change.
OutcomesTrue ==
  publication.outcome = "Accepted" =>
    /\ publication.stored
    /\ \E entry \in servers.now : entry.manifest = publication.manifest

\* Satisfied: the registry served the exact manifest.  Absence is never reported, so no
\* observation licenses a second publication.
ObservationsTrue ==
  \A seen \in look :
    /\ seen.status = "Satisfied" =>
         seen.page = {[manifest |-> publication.manifest, status |-> "active"]}
    /\ seen.status # "Absent"
    /\ seen.status = "Conflict" =>
         \E entry \in seen.page : Key(entry.manifest) = Key(publication.manifest)
=============================================================================
