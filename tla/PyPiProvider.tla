---------------------------- MODULE PyPiProvider ----------------------------
(***************************************************************************)
(* The Python provider beside an index.  A plan uploads files of a bundle, *)
(* one operation per file, each inspected before it is sent; the page the  *)
(* index lists a project by says later whether a file is there.  An index  *)
(* caches its pages, may take a second file of one name, and lists what    *)
(* others upload and yank.  packages/pypi/src.                             *)
(***************************************************************************)
EXTENDS Naturals, FiniteSets

CONSTANTS
  Coordinate,   \* a project and a version of it
  Filename,     \* names of distributions, and the coordinate each spells
  Spells,
  File,         \* artifacts of the bundle
  MaxForeign    \* bound: what others do at the index

PyPiAssumption == Spells \in [Filename -> Coordinate] /\ MaxForeign \in Nat

VARIABLES index, plan, bundle, work, read
vars == <<index, plan, bundle, work, read>>

None == "none"

\* The endpoint is one index for all uploads of the plan; who is authorized is in Credentials.
UploadIntent == [filename : Filename, coordinate : Coordinate, file : File]

\* What may be metadata in an archive: the directory each such member is in and what it
\* says; and whether members lie over each other, so that tools may read different ones.
Member == [directory : Coordinate, says : Coordinate]
Archive == [members : {m \in SUBSET Member : Cardinality(m) \in 1..2}, overlap : BOOLEAN]

Listed == [file : File, yanked : BOOLEAN]
Listing == {{}} \cup {{listed} : listed \in Listed}   \* of one name, on the project's page
Idle == [phase |-> "planned", body |-> None, committed |-> FALSE, answer |-> None,
         outcome |-> None]

-----------------------------------------------------------------------------
(* A plan, and what may be uploaded *)

\* Mutant: only equal intents are duplicates.
DuplicateIntents(intents) == FALSE

\* author: within a project and version, one operation for a name and for an artifact.
DuplicateDistribution(intents) ==
  \E one, other \in intents :
    /\ one # other /\ one.coordinate = other.coordinate
    /\ one.filename = other.filename \/ one.file = other.file

Init ==
  /\ \E intents \in SUBSET UploadIntent :
       /\ Cardinality(intents) \in 1..2 /\ ~ DuplicateDistribution(intents)
       /\ plan = intents
       /\ work = [intent \in intents |-> Idle]
  /\ bundle \in [{intent.file : intent \in plan} -> Archive]
  /\ index = [now |-> [n \in Filename |-> {}], past |-> [n \in Filename |-> {{}}], foreign |-> 0]
  /\ read = {}

TypeOK ==
  /\ plan \subseteq UploadIntent /\ DOMAIN work = plan
  /\ bundle \in [{intent.file : intent \in plan} -> Archive]
  /\ index.now \in [Filename -> Listing] /\ index.past \in [Filename -> SUBSET Listing]
  /\ \A intent \in plan : work[intent].body \in File \cup {None}

\* Mutant: the first metadata found will do.
FirstMetadata(filename, archive) ==
  /\ ~ archive.overlap
  /\ \E member \in archive.members :
       member.directory = Spells[filename] /\ member.says = Spells[filename]

\* readZip, readTar and inspect: no member lies over another; one is the metadata, in the
\* directory the name spells, and it spells what the name does.
Inspected(filename, archive) ==
  /\ ~ archive.overlap
  /\ \E member \in archive.members :
       /\ archive.members = {member}
       /\ member.directory = Spells[filename] /\ member.says = Spells[filename]

\* multipart: the form for an intent and bytes, which may not exist.
Form(intent, file) ==
  IF /\ file = intent.file
     /\ Inspected(intent.filename, bundle[file])
     /\ Spells[intent.filename] = intent.coordinate
  THEN {[content |-> file, filename |-> intent.filename, metadata |-> intent.coordinate]}
  ELSE {}

Step(intent, fields) == work' = [work EXCEPT ![intent] = fields]

\* prepare: the artifact is read and the form made of it.
Prepare(intent) ==
  /\ work[intent].phase = "planned"
  /\ Step(intent, IF Form(intent, intent.file) = {}
                  THEN [work[intent] EXCEPT !.phase = "refused"]
                  ELSE [work[intent] EXCEPT !.phase = "ready", !.body = intent.file])
  /\ UNCHANGED <<index, plan, bundle, read>>

\* Mutant: the boundary and the length are enough.
LooksOwn(intent, file) == TRUE

\* ownsRequest: the form, made again of the bytes the body ends with, is the body.
OwnsRequest(intent, file) == Form(intent, file) # {}

\* The transport is handed a request, which owns nothing until it is recognised.
Send(intent) ==
  /\ work[intent].phase = "ready"
  /\ \E file \in File :
       Step(intent, IF file \in DOMAIN bundle /\ OwnsRequest(intent, file)
                    THEN [work[intent] EXCEPT !.phase = "sending", !.body = file]
                    ELSE [work[intent] EXCEPT !.phase = "refused"])
  /\ UNCHANGED <<index, plan, bundle, read>>

Lists(filename, listed) ==
  [index EXCEPT !.now[filename] = {listed}, !.past[filename] = @ \cup {{listed}}]

\* The index stores an upload, unless it answered that it did not.
Commit(intent) ==
  /\ work[intent].phase \in {"sending", "done"} /\ ~ work[intent].committed
  /\ work[intent].answer \in {None, "lost"}
  /\ index' = Lists(intent.filename, [file |-> work[intent].body, yanked |-> FALSE])
  /\ Step(intent, [work[intent] EXCEPT !.committed = TRUE])
  /\ UNCHANGED <<plan, bundle, read>>

\* Mutant: any success acknowledges, the redirection that follows an upload too.
AcknowledgesBelow400(answer) == answer \in {"ok", "redirect"}
Acknowledges(answer) == answer = "ok"

\* decodeResponse: 200 alone is a receipt; whatever else is unknown.
Answer(intent) ==
  /\ work[intent].phase = "sending"
  /\ \E answer \in IF work[intent].committed THEN {"ok", "error", "redirect", "lost"}
                   ELSE {"error", "redirect", "lost"} :
       Step(intent, [work[intent] EXCEPT !.phase = "done", !.answer = answer,
            !.outcome = IF Acknowledges(answer) THEN "Accepted" ELSE "Unknown"])
  /\ UNCHANGED <<index, plan, bundle, read>>

-----------------------------------------------------------------------------
(* Observation by the project's page *)

\* What a reading of the page is: none, one that says nothing of a file, or the entry of one,
\* which in JSON may lack the digest and in HTML has no size.
Reading ==
  {"error", "malformed", "missing", "other", "json", "json-size", "html", "html-digest"}

\* jsonFacet, htmlFacet: JSON gives sizes and digests, as far as the entry has them, HTML a
\* digest if its link has one (as JSON without a size does).  A page that lists a name twice,
\* or whose link disagrees, is malformed as a whole.
Facet(listing, page) ==
  IF page \in {"error", "malformed"} THEN [is |-> "Unavailable"]
  ELSE IF page = "missing" THEN [is |-> "Absent"]
  ELSE IF page = "other" THEN [is |-> "DifferentProject"]
  ELSE IF listing = {} THEN [is |-> "Absent"]
  ELSE LET files == {listed.file : listed \in listing}
                IN  [is |-> "File", yanked |-> \E listed \in listing : listed.yanked,
                     size |-> IF page \in {"json", "json-size"} THEN files ELSE {},
                     digest |-> IF page \in {"html", "json-size"} THEN {} ELSE files]

\* Mutant: a listing without a digest is believed.
ClassifyByName(intent, facet, receipts) ==
  IF facet.is = "Unavailable" THEN "Inconclusive"
  ELSE IF facet.is = "Absent" THEN IF receipts THEN "Pending" ELSE "Absent"
  ELSE IF facet.is = "DifferentProject" THEN "Conflict"
  ELSE IF facet.yanked \/ facet.size \ {intent.file} # {} THEN "Conflict"
  ELSE "Satisfied"

\* classifyObservation
Classify(intent, facet, receipts) ==
  IF facet.is = "Unavailable" THEN "Inconclusive"
  ELSE IF facet.is = "Absent" THEN IF receipts THEN "Pending" ELSE "Absent"
  ELSE IF facet.is = "DifferentProject" THEN "Conflict"
  ELSE IF facet.yanked THEN "Conflict"
  ELSE IF (facet.size \cup facet.digest) \ {intent.file} # {} THEN "Conflict"
  ELSE IF facet.digest = {} THEN "Inconclusive"
  ELSE "Satisfied"

\* observe prepares as a send does, then reads the page, from a cache or not.
Observe(intent) ==
  /\ work[intent].phase \in {"ready", "sending", "done"}
  /\ \E listing \in index.past[intent.filename], page \in Reading :
       /\ page = "missing" => listing = {}
       /\ read' = {[intent |-> intent, listing |-> listing,
                    status |-> Classify(intent, Facet(listing, page),
                                        work[intent].outcome = "Accepted")]}
  /\ UNCHANGED <<index, plan, bundle, work>>

\* Somebody else uploads, replaces or yanks a file.
Foreign ==
  /\ index.foreign < MaxForeign
  /\ \E filename \in Filename, listed \in Listed :
       index' = [Lists(filename, listed) EXCEPT !.foreign = @ + 1]
  /\ UNCHANGED <<plan, bundle, work, read>>

Next ==
  \/ Foreign
  \/ \E intent \in plan :
       \/ Prepare(intent) \/ Send(intent) \/ Commit(intent) \/ Answer(intent) \/ Observe(intent)

Spec == Init /\ [][Next]_vars

-----------------------------------------------------------------------------
(* Properties *)

Sent(intent) == work[intent].phase \in {"sending", "done"}

\* The operations of a plan are independent: no two that are sent upload to one name,
\* although their intents may give one name to two versions.
NamesDistinct ==
  \A one, other \in plan :
    Sent(one) /\ Sent(other) /\ one # other => one.filename # other.filename

\* Whichever metadata an installer finds in the file, it is what the form told the index.
OneReading ==
  \A intent \in plan : Sent(intent) =>
    /\ work[intent].body = intent.file
    /\ ~ bundle[intent.file].overlap
    /\ {member.says : member \in bundle[intent.file].members} = {intent.coordinate}

\* A receipt is of an upload the index took.
OutcomesTrue ==
  \A intent \in plan : work[intent].outcome = "Accepted" => work[intent].committed

\* Satisfied and absent, of the listing that was read.
ObservationsTrue ==
  \A observed \in read :
    LET intended == {[file |-> observed.intent.file, yanked |-> FALSE]}
    IN  /\ observed.status = "Satisfied" => observed.listing = intended
        /\ observed.status \in {"Absent", "Pending"} => observed.listing = {}
=============================================================================
