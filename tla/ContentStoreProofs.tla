--------------------------- MODULE ContentStoreProofs ---------------------------
(***************************************************************************)
(* What persist returned is safe, for any number of processes, contents    *)
(* and files.                                                              *)
(***************************************************************************)
EXTENDS ContentStore, TLAPS

USE ContentStoreAssumption

LEMMA ContentInvInit == Init => ContentInv
BY DEF Init, ContentInv, TypeOK, CallsConsistent, NamesSafe, NamesComplete, KeptSafe,
       TemporariesOwned, Named, NoFile, Phase

\* Effects on nothing but the call.
LEMMA CallStep ==
  ASSUME ContentInv, NEW p \in Process, UNCHANGED <<disk, kept, orphans>>,
         Put(p) \/ Get(p) \/ OpenName(p) \/ ScanBack(p) \/ Fail(p) \/ ScanToRead(p)
  PROVE  ContentInv'
<1> USE DEF Goto, Return, Named, NoFile, Phase, disk, Created
<1>1. TypeOK'
  <2>1. CASE Put(p) \/ Get(p)
    BY <2>1 DEF ContentInv, TypeOK, Put, Get
  <2>2. CASE OpenName(p)
    BY <2>2 DEF ContentInv, TypeOK, CallsConsistent, OpenName
  <2>3. CASE ScanBack(p) \/ ScanToRead(p)
    BY <2>3 DEF ContentInv, TypeOK, ScanBack, ScanToRead
  <2>4. CASE Fail(p)
    BY <2>4 DEF ContentInv, TypeOK, Fail
  <2> QED BY <2>1, <2>2, <2>3, <2>4
<1>2. CallsConsistent'
  <2>1. CASE Put(p)
    BY <2>1 DEF ContentInv, TypeOK, CallsConsistent, Put
  <2>2. CASE Get(p)
    BY <2>2 DEF ContentInv, TypeOK, CallsConsistent, Get
  <2>3. CASE OpenName(p)
    BY <2>3 DEF ContentInv, TypeOK, CallsConsistent, OpenName
  <2>4. CASE ScanBack(p)
    BY <2>4 DEF ContentInv, TypeOK, CallsConsistent, ScanBack
  <2>5. CASE Fail(p)
    BY <2>5 DEF ContentInv, TypeOK, CallsConsistent, Fail
  <2>6. CASE ScanToRead(p)
    BY <2>6 DEF ContentInv, TypeOK, CallsConsistent, ScanToRead
  <2> QED BY <2>1, <2>2, <2>3, <2>4, <2>5, <2>6
<1>3. NamesSafe' /\ NamesComplete' /\ KeptSafe'
  BY DEF ContentInv, NamesSafe, NamesComplete, KeptSafe
<1>4. TemporariesOwned'
  <2>1. NoFile \notin temporary
    BY DEF ContentInv, TypeOK
  <2>2. \/ file' = file
        \/ file[p] = NoFile /\ \A q \in Process \ {p} : file'[q] = file[q]
    <3>1. CASE Put(p) \/ Get(p) \/ OpenName(p) \/ ScanBack(p)
      BY <3>1 DEF Put, Get, OpenName, ScanBack
    <3>2. CASE ScanToRead(p) \/ Fail(p)
      BY <3>2 DEF ContentInv, TypeOK, CallsConsistent, ScanToRead, Fail
    <3> QED BY <3>1, <3>2
  <2> QED BY <2>1, <2>2 DEF ContentInv, TemporariesOwned
<1> QED BY <1>1, <1>2, <1>3, <1>4 DEF ContentInv

LEMMA MakeDirectoryStep ==
  ASSUME ContentInv, NEW p \in Process, MakeDirectory(p)
  PROVE  ContentInv'
BY DEF ContentInv, TypeOK, CallsConsistent, NamesSafe, NamesComplete, KeptSafe,
       TemporariesOwned, MakeDirectory, Goto, Named, NoFile, Phase

LEMMA CreateTemporaryStep ==
  ASSUME ContentInv, NEW p \in Process, CreateTemporary(p)
  PROVE  ContentInv'
<1> USE DEF Goto, Named, NoFile, Phase
<1>1. /\ files' = Append(files, Broken) /\ files \in Seq(Content \cup {Broken})
      /\ Len(files) \in Nat /\ DOMAIN files = 1..Len(files)
      /\ DOMAIN files' = 1..(Len(files) + 1)
      /\ \A f \in DOMAIN files : files'[f] = files[f]
      /\ files' \in Seq(Content \cup {Broken})
  BY DEF ContentInv, TypeOK, CreateTemporary
<1>2. TypeOK'
  BY <1>1 DEF ContentInv, TypeOK, CreateTemporary
<1>3. CallsConsistent'
  BY <1>1 DEF ContentInv, TypeOK, CallsConsistent, CreateTemporary
<1>4. NamesSafe' /\ NamesComplete' /\ KeptSafe'
  BY <1>1 DEF ContentInv, TypeOK, NamesSafe, NamesComplete, KeptSafe, CreateTemporary
<1>5. TemporariesOwned'
  BY <1>1 DEF ContentInv, TypeOK, CallsConsistent, TemporariesOwned, CreateTemporary
<1> QED BY <1>2, <1>3, <1>4, <1>5 DEF ContentInv

LEMMA WriteTemporaryStep ==
  ASSUME ContentInv, NEW p \in Process, WriteTemporary(p)
  PROVE  ContentInv'
<1> USE DEF Goto, Named, NoFile, Phase
<1>1. /\ phase[p] = "write" /\ file[p] \in DOMAIN files \ flushed /\ content[p] \in Content
      /\ files' \in Seq(Content \cup {Broken}) /\ DOMAIN files' = DOMAIN files
      /\ files'[file[p]] = content[p]
      /\ \A f \in DOMAIN files \ {file[p]} : files'[f] = files[f]
  BY DEF ContentInv, TypeOK, CallsConsistent, WriteTemporary
<1>2. TypeOK'
  BY <1>1 DEF ContentInv, TypeOK, WriteTemporary
<1>3. CallsConsistent'
  BY <1>1 DEF ContentInv, TypeOK, CallsConsistent, NamesSafe, WriteTemporary
<1>4. NamesSafe' /\ NamesComplete' /\ KeptSafe'
  BY <1>1 DEF ContentInv, TypeOK, NamesSafe, NamesComplete, KeptSafe, WriteTemporary
<1>5. TemporariesOwned'
  BY DEF ContentInv, TemporariesOwned, WriteTemporary
<1> QED BY <1>2, <1>3, <1>4, <1>5 DEF ContentInv

LEMMA SyncTemporaryStep ==
  ASSUME ContentInv, NEW p \in Process, SyncTemporary(p)
  PROVE  ContentInv'
BY DEF ContentInv, TypeOK, CallsConsistent, NamesSafe, NamesComplete, KeptSafe,
       TemporariesOwned, SyncTemporary, Synced, Goto, Named, NoFile, Phase

LEMMA LinkNameStep ==
  ASSUME ContentInv, NEW p \in Process, LinkName(p)
  PROVE  ContentInv'
<1> USE DEF Goto, Named, NoFile, Phase
<1>1. /\ content[p] \in Content
      /\ file[p] \in DOMAIN files \cap flushed /\ files[file[p]] = content[p]
      /\ names'[content[p]] = IF names[content[p]] = NoFile THEN file[p]
                                ELSE names[content[p]]
      /\ \A c \in Content \ {content[p]} : names'[c] = names[c]
      /\ \A c \in Named : names'[c] = names[c]
  BY DEF ContentInv, TypeOK, CallsConsistent, LinkName
<1>2. TypeOK'
  BY <1>1 DEF ContentInv, TypeOK, LinkName, AfterLink
<1>3. CallsConsistent'
  BY <1>1 DEF ContentInv, TypeOK, CallsConsistent, LinkName, AfterLink
<1>4. NamesSafe' /\ NamesComplete' /\ KeptSafe'
  BY <1>1 DEF ContentInv, TypeOK, NamesSafe, NamesComplete, KeptSafe, LinkName
<1>5. TemporariesOwned'
  BY DEF ContentInv, TemporariesOwned, LinkName
<1> QED BY <1>2, <1>3, <1>4, <1>5 DEF ContentInv

LEMMA SyncDirectoryStep ==
  ASSUME ContentInv, NEW p \in Process, SyncDirectory(p)
  PROVE  ContentInv'
BY DEF ContentInv, TypeOK, CallsConsistent, NamesSafe, NamesComplete, KeptSafe,
       TemporariesOwned, SyncDirectory, AllSettled, Goto, Named, NoFile, Phase

\* Calls that end, in whatever way.
LEMMA EndStep ==
  ASSUME ContentInv, NEW p \in Process,
         Finish(p) \/ Discard(p) \/ LeaveTemporary(p) \/ Crash(p)
  PROVE  ContentInv'
<1> USE DEF Goto, Return, Unlink, Named, NoFile, Phase, disk
<1>1. TypeOK'
  BY SMTT(30) DEF ContentInv, TypeOK, CallsConsistent, Finish, Discard, LeaveTemporary, Crash
<1>2. CallsConsistent'
  BY DEF ContentInv, TypeOK, CallsConsistent, Finish, Discard, LeaveTemporary, Crash
<1>3. NamesSafe' /\ NamesComplete'
  BY DEF ContentInv, NamesSafe, NamesComplete, Finish, Discard, LeaveTemporary, Crash
<1>4. KeptSafe'
  BY DEF ContentInv, TypeOK, CallsConsistent, NamesSafe, KeptSafe, Finish, Discard,
         LeaveTemporary, Crash
<1>5. TemporariesOwned'
  BY DEF ContentInv, TypeOK, TemporariesOwned, Finish, Discard, LeaveTemporary, Crash
<1> QED BY <1>1, <1>2, <1>3, <1>4, <1>5 DEF ContentInv

LEMMA PowerLossStep ==
  ASSUME ContentInv, PowerLoss
  PROVE  ContentInv'
<1> USE DEF Named, NoFile, Phase
<1>1. /\ files' \in Seq(Content \cup {Broken}) /\ DOMAIN files' = DOMAIN files
      /\ \A f \in flushed : files'[f] = files[f]
      /\ flushed' = DOMAIN files
  <2>1. PICK written \in SUBSET (DOMAIN files \ flushed) :
          files' = [f \in DOMAIN files |->
                      IF f \in flushed \cup written THEN files[f] ELSE Broken]
    BY DEF PowerLoss
  <2>2. /\ files \in Seq(Content \cup {Broken}) /\ flushed \subseteq DOMAIN files
        /\ Len(files) \in Nat /\ DOMAIN files = 1..Len(files)
    BY DEF ContentInv, TypeOK
  <2>3. files' \in [1..Len(files) -> Content \cup {Broken}]
    BY <2>1, <2>2
  <2>4. files' \in Seq(Content \cup {Broken})
    BY <2>2, <2>3
  <2> QED BY <2>1, <2>2, <2>4 DEF PowerLoss
<1>2. /\ names' \in [Content -> {NoFile} \cup DOMAIN files]
      /\ \A c \in Content : names'[c] \in {NoFile, names[c]}
      /\ directory = "durable" =>
           directory' = "durable" /\ \A c \in settled : names'[c] = names[c]
      /\ temporary' \subseteq temporary /\ directory' \in {"absent", "durable"}
  BY DEF ContentInv, TypeOK, PowerLoss
<1>3. TypeOK'
  BY <1>1, <1>2 DEF ContentInv, TypeOK, PowerLoss
<1>4. CallsConsistent'
  BY DEF CallsConsistent, PowerLoss
<1>5. NamesSafe' /\ NamesComplete' /\ KeptSafe'
  BY <1>1, <1>2 DEF ContentInv, TypeOK, NamesSafe, NamesComplete, KeptSafe, PowerLoss
<1>6. TemporariesOwned'
  BY DEF TemporariesOwned, PowerLoss
<1> QED BY <1>3, <1>4, <1>5, <1>6 DEF ContentInv

LEMMA ContentInvStep == ContentInv /\ [Next]_vars => ContentInv'
<1> SUFFICES ASSUME ContentInv, [Next]_vars PROVE ContentInv'
  OBVIOUS
<1>1. CASE UNCHANGED vars
  BY <1>1 DEF vars, disk, call, ContentInv, TypeOK, CallsConsistent, NamesSafe,
              NamesComplete, KeptSafe, TemporariesOwned, Named
<1>2. ASSUME NEW p \in Process,
             Put(p) \/ Get(p) \/ OpenName(p) \/ ScanBack(p) \/ Fail(p) \/ ScanToRead(p)
      PROVE  ContentInv'
  <2>1. UNCHANGED <<disk, kept, orphans>>
    BY <1>2 DEF Put, Get, OpenName, ScanBack, Fail, ScanToRead
  <2> QED BY <1>2, <2>1, CallStep
<1>3. ASSUME NEW p \in Process, Step(p) PROVE ContentInv'
  BY <1>2, <1>3, MakeDirectoryStep, CreateTemporaryStep, WriteTemporaryStep,
     SyncTemporaryStep, LinkNameStep, SyncDirectoryStep, EndStep DEF Step
<1> QED BY <1>1, <1>2, <1>3, EndStep, PowerLossStep DEF Next

\* Every effect of every call, every crash and every power loss leaves each call
\* with what its next effect relies on (platform/ContentStore.ts).
THEOREM StoreIsKept == Spec => []ContentInv
BY ContentInvInit, ContentInvStep, PTL DEF Spec

\* What persist returned is under its name, whole, and outlives every crash and
\* power loss.
THEOREM PersistIsSafe == Spec => []KeptSafe
<1>1. ContentInv => KeptSafe
  BY DEF ContentInv
<1> QED BY <1>1, StoreIsKept, PTL

\* No crash and no interleaving leaves part of a content under its name.
THEOREM NamesAreComplete == Spec => []NamesComplete
<1>1. ContentInv => NamesComplete
  BY DEF ContentInv
<1> QED BY <1>1, StoreIsKept, PTL

\* Only death and a failed removal leave temporary files.
THEOREM TemporariesAreOwned == Spec => []TemporariesOwned
<1>1. ContentInv => TemporariesOwned
  BY DEF ContentInv
<1> QED BY <1>1, StoreIsKept, PTL
=============================================================================
