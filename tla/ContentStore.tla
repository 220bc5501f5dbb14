------------------------------- MODULE ContentStore -------------------------------
(***************************************************************************)
(* Owned content as files named by their digest, in one directory several  *)
(* processes use: packages/ts-release/src/platform/ContentStore.ts.        *)
(*                                                                         *)
(* A file is what its bytes are the content of.  What the system shows and *)
(* what outlives a power loss differ: a file's bytes until it is synced, a *)
(* name until the directory is, a directory just made until its parent is, *)
(* which this code leaves to the system.                                   *)
(***************************************************************************)
EXTENDS Naturals, Sequences, FiniteSets

CONSTANTS
  Process,    \* one call at a time each
  Content,    \* identities: a size and a digest
  Damaged,    \* content whose name is held by something else from the start
  Broken,     \* bytes that are no content: a beginning, an end, anything else
  MaxFiles    \* bound: the files ever created

ASSUME ContentStoreAssumption ==
  /\ Damaged \subseteq Content
  /\ Broken \notin Content
  /\ MaxFiles \in Nat

NoFile == 0

VARIABLES
  directory,  \* "absent", "fresh" (its own entry is not safe) or "durable"
  files,      \* the bytes of every file created
  flushed,    \* the files whose bytes are safe
  names,      \* the file that has the name of a content
  settled,    \* the contents whose name is safe
  temporary,  \* the files that have a temporary name
  phase,      \* the call of each process, by its next effect
  content,    \* what the call is about
  file,       \* its temporary file
  input,      \* the file it opened to read
  kept,       \* content that persist returned, for the properties only
  orphans     \* files whose owner could not remove them, for the properties only

disk == <<directory, files, flushed, names, settled, temporary>>
call == <<phase, content, file, input>>
vars == <<disk, call, kept, orphans>>

Phase == {"idle", "mkdir", "create", "write", "sync", "link", "open", "scan",
          "settle", "finish", "discard", "openToRead", "scanToRead"}

Named == {c \in Content : names[c] # NoFile}

\* The first file stands for whatever is under a name in a directory that others
\* wrote to.
Init ==
  /\ directory \in {"absent", "durable"}
  /\ files = <<Broken>>
  /\ flushed = {1}
  /\ names = [c \in Content |-> IF directory = "durable" /\ c \in Damaged
                                  THEN 1 ELSE NoFile]
  /\ settled = Named
  /\ temporary = {}
  /\ phase = [p \in Process |-> "idle"]
  /\ content = [p \in Process |-> Broken]
  /\ file = [p \in Process |-> NoFile]
  /\ input = [p \in Process |-> NoFile]
  /\ kept = {}
  /\ orphans = {}

Goto(p, next) == phase' = [phase EXCEPT ![p] = next]

Return(p) ==
  /\ Goto(p, "idle")
  /\ content' = [content EXCEPT ![p] = Broken]
  /\ file' = [file EXCEPT ![p] = NoFile]
  /\ input' = [input EXCEPT ![p] = NoFile]

-----------------------------------------------------------------------------
(* persist, under putOwned and putFileOwned *)

Put(p) ==
  /\ phase[p] = "idle"
  /\ \E c \in Content : content' = [content EXCEPT ![p] = c]
  /\ Goto(p, "mkdir")
  /\ UNCHANGED <<disk, file, input, kept, orphans>>

MakeDirectory(p) ==
  /\ phase[p] = "mkdir"
  /\ directory' = IF directory = "absent" THEN "fresh" ELSE directory
  /\ Goto(p, "create")
  /\ UNCHANGED <<files, flushed, names, settled, temporary, content, file, input,
                 kept, orphans>>

\* A name nobody else draws; the call owns it before it can be interrupted.
CreateTemporary(p) ==
  /\ phase[p] = "create" /\ Len(files) < MaxFiles
  /\ files' = Append(files, Broken)
  /\ file' = [file EXCEPT ![p] = Len(files) + 1]
  /\ temporary' = temporary \cup {Len(files) + 1}
  /\ Goto(p, "write")
  /\ UNCHANGED <<directory, flushed, names, settled, content, input, kept, orphans>>

\* The bytes are the owner's copy, or a source that proved to be what was expected
\* as it was copied; any other source fails the call.
WriteTemporary(p) ==
  /\ phase[p] = "write"
  /\ files' = [files EXCEPT ![file[p]] = content[p]]
  /\ Goto(p, "sync")
  /\ UNCHANGED <<directory, flushed, names, settled, temporary, content, file,
                 input, kept, orphans>>

\* Mutant: the temporary file is closed without a sync.
Unsynced(p) == flushed

Synced(p) == flushed \cup {file[p]}

SyncTemporary(p) ==
  /\ phase[p] = "sync"
  /\ flushed' = Synced(p)
  /\ Goto(p, "link")
  /\ UNCHANGED <<directory, files, names, settled, temporary, content, file, input,
                 kept, orphans>>

\* Mutant: a name that exists is taken for its contents.
TrustName(p) == "settle"

\* A name that exists proves nothing: whichever file has it is read back.
AfterLink(p) == "open"

LinkName(p) ==
  /\ phase[p] = "link"
  /\ names' = [names EXCEPT ![content[p]] = IF @ = NoFile THEN file[p] ELSE @]
  /\ Goto(p, AfterLink(p))
  /\ UNCHANGED <<directory, files, flushed, settled, temporary, content, file, input,
                 kept, orphans>>

\* withOwned, to read back and to read.
OpenName(p) ==
  /\ phase[p] \in {"open", "openToRead"}
  /\ names[content[p]] # NoFile
  /\ input' = [input EXCEPT ![p] = names[content[p]]]
  /\ Goto(p, IF phase[p] = "open" THEN "scan" ELSE "scanToRead")
  /\ UNCHANGED <<disk, content, file, kept, orphans>>

\* Any deviation from what was expected fails the call.
ScanBack(p) ==
  /\ phase[p] = "scan"
  /\ files[input[p]] = content[p]
  /\ Goto(p, "settle")
  /\ UNCHANGED <<disk, content, file, input, kept, orphans>>

\* Mutant: the directory is left to the system.
NothingSettled == settled

\* Every name in the directory, whoever made it.
AllSettled == Named

SyncDirectory(p) ==
  /\ phase[p] = "settle"
  /\ settled' = AllSettled
  /\ Goto(p, "finish")
  /\ UNCHANGED <<directory, files, flushed, names, temporary, content, file, input,
                 kept, orphans>>

Unlink(p) == temporary' = temporary \ {file[p]}

\* Nothing is promised of a directory that may itself be lost.
Finish(p) ==
  /\ phase[p] = "finish"
  /\ Unlink(p)
  /\ kept' = IF directory = "durable" THEN kept \cup {content[p]} ELSE kept
  /\ Return(p)
  /\ UNCHANGED <<directory, files, flushed, names, settled, orphans>>

Discard(p) ==
  /\ phase[p] = "discard"
  /\ Unlink(p)
  /\ Return(p)
  /\ UNCHANGED <<directory, files, flushed, names, settled, kept, orphans>>

\* The temporary name could not be removed, which fails the call.
LeaveTemporary(p) ==
  /\ phase[p] \in {"finish", "discard"}
  /\ orphans' = orphans \cup {file[p]}
  /\ Return(p)
  /\ UNCHANGED <<disk, kept>>

\* Mutant: only what succeeds is cleaned up.
CleanUpNothing(p) == FALSE

\* created: there is a temporary file to remove whatever happens.
Created(p) == file[p] # NoFile

\* An effect fails, a check does not hold, or the call is interrupted, which takes
\* effect between two effects.
Fail(p) ==
  /\ phase[p] \notin {"idle", "discard"}
  /\ IF Created(p)
       THEN Goto(p, "discard") /\ UNCHANGED <<content, file, input>>
       ELSE Return(p)
  /\ UNCHANGED <<disk, kept, orphans>>

-----------------------------------------------------------------------------
(* verify and read *)

Get(p) ==
  /\ phase[p] = "idle"
  /\ \E c \in Content : content' = [content EXCEPT ![p] = c]
  /\ Goto(p, "openToRead")
  /\ UNCHANGED <<disk, file, input, kept, orphans>>

\* The bytes are delivered after the last of them was checked.
ScanToRead(p) ==
  /\ phase[p] = "scanToRead"
  /\ files[input[p]] = content[p]
  /\ Return(p)
  /\ UNCHANGED <<disk, kept, orphans>>

-----------------------------------------------------------------------------
(* What the system does to them *)

Crash(p) ==
  /\ phase[p] # "idle"
  /\ orphans' = IF file[p] = NoFile THEN orphans ELSE orphans \cup {file[p]}
  /\ Return(p)
  /\ UNCHANGED <<disk, kept>>

\* Bytes and names reach the disk when the system sees fit; what has not is lost,
\* with every call.
PowerLoss ==
  /\ \E written \in SUBSET (DOMAIN files \ flushed) :
       files' = [f \in DOMAIN files |->
                   IF f \in flushed \cup written THEN files[f] ELSE Broken]
  /\ flushed' = DOMAIN files
  /\ \/ /\ directory # "absent"
        /\ directory' = "durable"
        /\ \E reached \in SUBSET (Named \ settled) :
             names' = [c \in Content |->
                         IF c \in settled \cup reached THEN names[c] ELSE NoFile]
        /\ temporary' \in SUBSET temporary
     \/ /\ directory # "durable"
        /\ directory' = "absent"
        /\ names' = [c \in Content |-> NoFile]
        /\ temporary' = {}
  /\ settled' = {c \in Content : names'[c] # NoFile}
  /\ orphans' = temporary'
  /\ phase' = [p \in Process |-> "idle"]
  /\ content' = [p \in Process |-> Broken]
  /\ file' = [p \in Process |-> NoFile]
  /\ input' = [p \in Process |-> NoFile]
  /\ UNCHANGED kept

-----------------------------------------------------------------------------
Step(p) ==
  \/ MakeDirectory(p) \/ CreateTemporary(p) \/ WriteTemporary(p) \/ SyncTemporary(p)
  \/ LinkName(p) \/ OpenName(p) \/ ScanBack(p) \/ SyncDirectory(p)
  \/ Finish(p) \/ Discard(p) \/ LeaveTemporary(p) \/ Fail(p) \/ ScanToRead(p)

Next ==
  \/ \E p \in Process : Put(p) \/ Get(p) \/ Step(p) \/ Crash(p)
  \/ PowerLoss

Spec == Init /\ [][Next]_vars

-----------------------------------------------------------------------------
(* What the store promises *)

TypeOK ==
  /\ directory \in {"absent", "fresh", "durable"}
  /\ files \in Seq(Content \cup {Broken})
  /\ flushed \subseteq DOMAIN files
  /\ names \in [Content -> {NoFile} \cup DOMAIN files]
  /\ settled \subseteq Named
  /\ temporary \subseteq DOMAIN files
  /\ phase \in [Process -> Phase]
  /\ content \in [Process -> Content \cup {Broken}]
  /\ file \in [Process -> {NoFile} \cup DOMAIN files]
  /\ input \in [Process -> {NoFile} \cup DOMAIN files]
  /\ kept \subseteq Content
  /\ orphans \subseteq DOMAIN files

\* No interleaving of writers, crash or power loss puts anything but the whole
\* content under its name, where nothing else had that name before: a file is
\* linked only after its bytes are safe.
NamesComplete ==
  \A c \in Content \ Damaged :
    names[c] # NoFile => files[names[c]] = c /\ names[c] \in flushed

\* What persist returned, for good, is under its name, whole, and safe from a power
\* loss, also where it found the name taken.
KeptSafe ==
  \A c \in kept :
    /\ c \in settled
    /\ files[names[c]] = c /\ names[c] \in flushed

\* Only death and a failed removal leave temporary files behind; a call that
\* fails, is refused or is interrupted removes its own.
TemporariesOwned ==
  \A f \in temporary \ orphans :
    \E p \in Process : file[p] = f

\* What a call has behind it when it is at an effect.
CallsConsistent ==
  \A p \in Process :
    /\ file[p] = NoFile <=>
         phase[p] \in {"idle", "mkdir", "create", "openToRead", "scanToRead"}
    /\ phase[p] # "idle" => content[p] \in Content
    /\ phase[p] \in {"write", "sync"} => file[p] \notin flushed
    /\ phase[p] \in {"sync", "link"} => files[file[p]] = content[p]
    /\ phase[p] = "link" => file[p] \in flushed
    /\ phase[p] \in {"open", "scan", "settle", "finish"} => names[content[p]] # NoFile
    /\ phase[p] = "scan" => input[p] = names[content[p]]
    /\ phase[p] \in {"settle", "finish"} => files[names[content[p]]] = content[p]
    /\ phase[p] = "finish" => content[p] \in settled
    /\ \A q \in Process : q # p /\ file[q] = file[p] => file[p] = NoFile

\* A name is given only to bytes that are safe, and nothing was promised of a
\* directory that can be lost.
NamesSafe ==
  /\ \A c \in Named : names[c] \in flushed
  /\ kept # {} => directory = "durable"

\* The invariant behind the promises.
ContentInv ==
  /\ TypeOK /\ CallsConsistent /\ NamesSafe
  /\ NamesComplete /\ KeptSafe /\ TemporariesOwned
=============================================================================
