----------------------------- MODULE TreeRestore -----------------------------
(***************************************************************************)
(* Restoring owned trees beside other programs: each tree is written file  *)
(* by file into a staging directory of its own, compared with its record,  *)
(* and moved over a destination that one mkdir has claimed.  Writing and   *)
(* moving may fail, and a process may die at any point.                    *)
(* packages/ts-release/src/EffectBuild.ts.                                 *)
(***************************************************************************)
EXTENDS Naturals

CONSTANTS
  Restorer,     \* calls of restoreTree, with one destination
  Entries,      \* how many entries the tree has
  MaxForeign    \* bound: what others do at the destination

RestoreAssumption == Entries \in Nat /\ MaxForeign \in Nat

VARIABLES disk, restorer
vars == <<disk, restorer>>

None == "none"

\* What the destination holds: nothing, the empty directory a restorer or somebody else
\* made, the tree of a restorer, or somebody else's files.
Nowhere == [is |-> "nothing", by |-> None]
Init ==
  /\ \E is \in {"nothing", "empty", "files"} :
       disk = [destination |-> [is |-> is, by |-> IF is = "nothing" THEN None ELSE "other"],
               staging |-> [r \in Restorer |-> 0], locked |-> {}, lost |-> FALSE, foreign |-> 0]
  /\ restorer = [r \in Restorer |-> [phase |-> "called", sound |-> TRUE, result |-> None]]

TypeOK ==
  /\ disk.destination.is \in {"nothing", "empty", "files", "tree"}
  /\ disk.destination.by \in Restorer \cup {"other", None}
  /\ disk.staging \in [Restorer -> 0..Entries + 1] /\ disk.locked \subseteq Restorer
  /\ \A r \in Restorer : restorer[r].phase \in
       {"called", "checked", "staging", "verified", "claimed", "cleaning", "returned", "dead"}

At(r, phase) == restorer[r].phase = phase
Step(r, fields) == restorer' = [restorer EXCEPT ![r] = fields]
Fails(r) == Step(r, [restorer[r] EXCEPT !.phase = "cleaning", !.result = "failed"])

\* An occupied destination is refused at once; it may become occupied later.
Check(r) ==
  /\ At(r, "called")
  /\ Step(r, IF disk.destination.is = "nothing" THEN [restorer[r] EXCEPT !.phase = "checked"]
             ELSE [restorer[r] EXCEPT !.phase = "returned", !.result = "failed"])
  /\ UNCHANGED disk

\* A staging directory beside the destination, if it can be made; staging[r] is what it has:
\* 0 is none.
Stage(r) ==
  /\ At(r, "checked")
  /\ \/ /\ disk' = [disk EXCEPT !.staging[r] = 1]
        /\ Step(r, [restorer[r] EXCEPT !.phase = "staging"])
     \/ /\ Step(r, [restorer[r] EXCEPT !.phase = "returned", !.result = "failed"])
        /\ UNCHANGED disk

\* write: one entry from verified content, which a disk may still corrupt; or it fails.
Write(r) ==
  /\ At(r, "staging") /\ disk.staging[r] <= Entries
  /\ \/ /\ disk' = [disk EXCEPT !.staging[r] = @ + 1]
        /\ \E sound \in BOOLEAN : Step(r, [restorer[r] EXCEPT !.sound = @ /\ sound])
     \/ Fails(r) /\ UNCHANGED disk

\* Mutant: the written tree is taken as it is.
AnyTree(r) == disk.staging[r] = Entries + 1

\* The restored tree has the recorded size, digest and root mode.
SameIdentity(r) == disk.staging[r] = Entries + 1 /\ restorer[r].sound

\* Directory modes go last, and may make the directories read-only; the tree is observed.
Verify(r) ==
  /\ At(r, "staging") /\ disk.staging[r] = Entries + 1
  /\ disk' = [disk EXCEPT !.locked = @ \cup {r}]
  /\ IF SameIdentity(r) THEN Step(r, [restorer[r] EXCEPT !.phase = "verified"]) ELSE Fails(r)

\* mkdir makes the destination, or refuses whatever is there.
Unoccupied == disk.destination.is = "nothing"

Claim(r) ==
  /\ At(r, "verified")
  /\ IF Unoccupied
     THEN /\ disk' = [disk EXCEPT !.destination = [is |-> "empty", by |-> r]]
          /\ Step(r, [restorer[r] EXCEPT !.phase = "claimed"])
     ELSE Fails(r) /\ UNCHANGED disk

\* Mutant: what is at the destination is moved aside.
ReplacesAnything == disk.destination.is # "nothing"

\* rename replaces an empty directory, and refuses one that has files.
Replaces == disk.destination.is \in {"nothing", "empty"}

Move(r) ==
  /\ At(r, "claimed")
  /\ \/ /\ Replaces
        /\ disk' = [disk EXCEPT !.destination = [is |-> "tree", by |-> r], !.staging[r] = 0,
                      !.lost = @ \/ disk.destination.is \in {"files", "tree"}]
        /\ Step(r, [restorer[r] EXCEPT !.phase = "cleaning", !.result = "restored"])
     \/ Fails(r) /\ UNCHANGED disk

\* Mutant: directories are removed as they are.
RemovableAsIs(r) == r \notin disk.locked

\* The release of the staging directory reopens its read-only directories.
Removable(r) == TRUE

\* The call returns when its staging directory is gone.  A step of the release may fail: the
\* call dies of it, and what is left of the directory stays (nothing reads how much).
Clean(r) ==
  /\ At(r, "cleaning")
  /\ \/ /\ disk' = IF Removable(r)
                    THEN [disk EXCEPT !.staging[r] = 0, !.locked = @ \ {r}] ELSE disk
        /\ Step(r, [restorer[r] EXCEPT !.phase = "returned"])
     \/ /\ Step(r, [restorer[r] EXCEPT !.phase = "returned", !.result = "defect"])
        /\ UNCHANGED disk

\* Between the claim and the move an interruption waits, but a process still dies.
Interrupt(r) ==
  /\ restorer[r].phase \in {"staging", "verified"}
  /\ Fails(r) /\ UNCHANGED disk
Die(r) ==
  /\ restorer[r].phase \notin {"returned", "dead"}
  /\ Step(r, [restorer[r] EXCEPT !.phase = "dead", !.result = None]) /\ UNCHANGED disk

\* Others create, fill, and take away what is at the destination.
Foreign ==
  /\ disk.foreign < MaxForeign
  /\ \/ /\ disk.destination.is = "nothing"
        /\ \E is \in {"empty", "files"} :
             disk' = [disk EXCEPT !.destination = [is |-> is, by |-> "other"], !.foreign = @ + 1]
     \/ /\ disk.destination.is = "empty"
        /\ disk' = [disk EXCEPT !.destination.is = "files", !.foreign = @ + 1]
     \/ /\ disk.destination.is = "empty"
        /\ disk' = [disk EXCEPT !.destination = Nowhere, !.foreign = @ + 1]
  /\ UNCHANGED restorer

Next ==
  \/ Foreign
  \/ \E r \in Restorer :
       \/ Check(r) \/ Stage(r) \/ Write(r) \/ Verify(r) \/ Claim(r) \/ Move(r)
       \/ Clean(r) \/ Interrupt(r) \/ Die(r)

Spec == Init /\ [][Next]_vars

-----------------------------------------------------------------------------
(* Properties *)

\* A tree at the destination is whole and as recorded, nothing anybody put there was
\* replaced by it, and at most one call claims to have restored it.
RestoredWhole ==
  /\ ~ disk.lost
  /\ disk.destination.is = "tree" => restorer[disk.destination.by].sound
  /\ \A r, other \in Restorer :
       restorer[r].result = "restored" /\ restorer[other].result = "restored" => r = other
  /\ \A r \in Restorer :
       restorer[r].result = "restored" => disk.destination = [is |-> "tree", by |-> r]

\* A call that ended left no staging directory behind, however far it had come, unless it
\* ended in the defect that says so.
StagingRemoved ==
  \A r \in Restorer :
    At(r, "returned") /\ restorer[r].result # "defect" => disk.staging[r] = 0
=============================================================================
