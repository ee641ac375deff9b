------------------------- MODULE LayerMigrate_proofs -------------------------
EXTENDS LayerMigrate, TLAPS

(***************************************************************************)
(* What a run knows at each step, about the planned files the person has    *)
(* left alone.                                                              *)
(***************************************************************************)
(* The loops only ever work on planned files. *)
Planned == pc # "idle" => todo \subseteq plan /\ missing \subseteq plan

(* A file the backup loop is past has a copy in a backup. *)
Secured == pc # "idle" =>
  \A f \in plan : backup[f] \in saved[f] \/ (pc = "backup" /\ f \in todo)

(* Where a file still owes its copy on disk. *)
Owed == CASE pc = "backup"  -> todo \cup missing
          [] pc = "restore" -> todo
          [] OTHER          -> {}
AsBackedUp == pc # "idle" =>
  \A f \in plan \ (touched \cup Owed) : disk[f] = backup[f]

(* A file waiting to be restored is not on disk. *)
Waiting == CASE pc = "backup"  -> missing
             [] pc = "restore" -> todo
             [] OTHER          -> {}
NotThere == \A f \in Waiting \ touched : ~OnDisk(f)

(* Nothing is untracked before the layer is excluded. *)
StillTracked ==
  pc \in {"backup", "restore"} => \A f \in plan \ touched : index[f] # Absent
Hidden == pc = "untrack" => excluded

IInv == TypeOK /\ Planned /\ Secured /\ AsBackedUp /\ NotThere /\ StillTracked /\ Hidden

-----------------------------------------------------------------------------
USE DEF Copy

(* No step of the run or the person, and no fault, leaves a value out of its *)
(* type; in particular a backup never holds anything but file contents.      *)
LEMMA TypeStep == TypeOK /\ [Next]_vars => TypeOK'
<1> SUFFICES ASSUME TypeOK, [Next]_vars PROVE TypeOK'
  OBVIOUS
<1> USE DEF TypeOK
<1>1. CASE Start
  BY <1>1 DEF Start, Tracked
<1>2. CASE BackedUp
  BY <1>2 DEF BackedUp
<1>3. CASE ExcludeLayer
  BY <1>3 DEF ExcludeLayer, ExcludeOr, AppendBlock, RefuseBlock
<1>4. ASSUME NEW f \in Files, BackUp(f) PROVE TypeOK'
  <2>1. (IF OnDisk(f) THEN disk[f] ELSE index[f]) \in Versions
    BY <1>4 DEF BackUp, BackedUpWith, HasCopy, OnDisk
  <2> QED
    BY <1>4, <2>1 DEF BackUp, BackedUpWith
<1>5. ASSUME NEW f \in Files, BackUpRefused(f) PROVE TypeOK'
  BY <1>5 DEF BackUpRefused
<1>6. ASSUME NEW f \in Files, Restore(f) PROVE TypeOK'
  BY <1>6 DEF Restore
<1>7. ASSUME NEW B \in Batches, Untrack(B) PROVE TypeOK'
  BY <1>7 DEF Untrack, UntrackIf, Batches
<1>8. CASE Dies
  <2>1. excluded' \in BOOLEAN /\ broken' \in BOOLEAN
    BY <1>8, Zenon DEF Dies, TearBlock
  <2>2. faults' \in Nat /\ pc' = "idle"
    BY <1>8 DEF Dies
  <2> QED
    BY <1>8, <2>1, <2>2, Zenon DEF Dies
<1>9. CASE PersonCommits
  BY <1>9 DEF PersonCommits
<1>10. CASE PersonRepairs
  <2>1. excluded' \in BOOLEAN /\ broken' \in BOOLEAN
    BY <1>10, Zenon DEF PersonRepairs, RepairBlock
  <2>2. edits' \in Nat
    BY <1>10 DEF PersonRepairs
  <2> QED
    BY <1>10, <2>1, <2>2, Zenon DEF PersonRepairs
<1>11. ASSUME NEW f \in Files, PersonSaves(f) PROVE TypeOK'
  BY <1>11 DEF PersonSaves, Acts
<1>12. ASSUME NEW f \in Files, PersonStages(f) PROVE TypeOK'
  BY <1>12 DEF PersonStages, Acts
<1>13. CASE UNCHANGED vars
  BY <1>13 DEF vars
<1> QED
  BY <1>1, <1>2, <1>3, <1>4, <1>5, <1>6, <1>7, <1>8, <1>9, <1>10, <1>11, <1>12, <1>13
  DEF Next, Guild, Person

(* Every variable keeps its type in every behaviour of the migration: the    *)
(* type invariant the migrate run checks, for any files, contents and bounds. *)
THEOREM TypeCorrect == Spec => []TypeOK
<1>1. Init => TypeOK
  BY DEF Init, TypeOK
<1> QED
  BY <1>1, TypeStep, PTL DEF Spec

-----------------------------------------------------------------------------
(* The inductive invariant: what a run knows survives every step of the run, *)
(* and what the person changes meanwhile drops out of it through touched.    *)
LEMMA InvStep == IInv /\ [Next]_vars => IInv'
<1> SUFFICES ASSUME IInv, [Next]_vars PROVE IInv'
  OBVIOUS
<1> USE DEF IInv
<1>0. TypeOK'
  BY TypeStep
<1>1. CASE Start
  <2>1. plan' = Tracked /\ todo' = Tracked /\ missing' = {} /\ pc' = "backup"
    BY <1>1 DEF Start
  <2>2. Planned' /\ Secured' /\ AsBackedUp' /\ NotThere' /\ Hidden'
    BY <2>1 DEF Planned, Secured, AsBackedUp, Owed, NotThere, Waiting, Hidden
  <2>3. StillTracked'
    BY <1>1, <2>1 DEF Start, StillTracked, Tracked
  <2> QED
    BY <1>0, <2>2, <2>3
<1>2. CASE BackedUp
  BY <1>0, <1>2 DEF BackedUp, Planned, Secured, AsBackedUp, Owed, NotThere, Waiting,
    OnDisk, StillTracked, Hidden
<1>3. CASE ExcludeLayer
  <2>1. PICK refused \in {"idle"} : ExcludeOr(refused)
    BY <1>3 DEF ExcludeLayer
  <2>2. Hidden'
    BY <2>1, Zenon DEF ExcludeOr, AppendBlock, RefuseBlock, Hidden
  <2>3. /\ pc = "restore" /\ todo = {} /\ pc' \in {"untrack", "idle"} /\ todo' = plan
        /\ UNCHANGED <<index, disk, plan, missing, backup, saved, touched>>
    BY <2>1 DEF ExcludeOr
  <2> QED
    BY <1>0, <2>2, <2>3 DEF Planned, Secured, AsBackedUp, Owed, NotThere, Waiting,
      StillTracked
<1>4. ASSUME NEW f \in Files, BackUp(f) PROVE IInv'
  <2>1. PICK copy : /\ copy = (IF OnDisk(f) THEN disk[f] ELSE index[f])
                    /\ BackedUpWith(f, copy)
    BY <1>4 DEF BackUp
  <2>2. /\ pc = "backup" /\ pc' = "backup" /\ f \in todo
        /\ backup' = [backup EXCEPT ![f] = copy]
        /\ saved' = [saved EXCEPT ![f] = @ \cup {copy}]
        /\ todo' = todo \ {f}
        /\ missing' = IF OnDisk(f) THEN missing ELSE missing \cup {f}
        /\ UNCHANGED <<head, index, disk, plan, touched>>
    BY <2>1 DEF BackedUpWith
  <2>3. Planned'
    BY <2>2 DEF Planned
  <2>4. Secured'
    BY <2>2 DEF Secured, TypeOK
  <2>5. AsBackedUp'
    BY <2>1, <2>2 DEF AsBackedUp, Owed, TypeOK
  <2>6. NotThere'
    BY <2>2 DEF NotThere, Waiting, OnDisk
  <2>7. StillTracked' /\ Hidden'
    BY <2>2 DEF StillTracked, Hidden
  <2> QED
    BY <1>0, <2>3, <2>4, <2>5, <2>6, <2>7
<1>5. ASSUME NEW f \in Files, BackUpRefused(f) PROVE IInv'
  <2>1. pc' = "idle"
    BY <1>5 DEF BackUpRefused
  <2> QED
    BY <1>0, <2>1 DEF Planned, Secured, AsBackedUp, NotThere, Waiting, StillTracked, Hidden
<1>6. ASSUME NEW f \in Files, Restore(f) PROVE IInv'
  <2>1. /\ pc = "restore" /\ pc' = "restore" /\ f \in todo
        /\ disk' = [disk EXCEPT ![f] = backup[f]]
        /\ todo' = todo \ {f}
        /\ UNCHANGED <<index, plan, missing, backup, saved, touched>>
    BY <1>6 DEF Restore
  <2> QED
    BY <1>0, <2>1 DEF Planned, Secured, AsBackedUp, Owed, NotThere, Waiting, OnDisk,
      StillTracked, Hidden, TypeOK
<1>7. ASSUME NEW B \in Batches, Untrack(B) PROVE IInv'
  <2>1. /\ pc = "untrack" /\ pc' \in {"untrack", "idle"}
        /\ todo' \subseteq todo
        /\ UNCHANGED <<disk, plan, missing, backup, saved, touched>>
    BY <1>7 DEF Untrack, UntrackIf
  <2>2. Hidden'
    BY <1>7, <2>1 DEF Untrack, UntrackIf, Hidden
  <2> QED
    BY <1>0, <2>1, <2>2 DEF Planned, Secured, AsBackedUp, Owed, NotThere, Waiting,
      StillTracked
<1>8. CASE Dies
  <2>1. pc' = "idle"
    BY <1>8 DEF Dies
  <2> QED
    BY <1>0, <2>1 DEF Planned, Secured, AsBackedUp, NotThere, Waiting, StillTracked, Hidden
<1>9. CASE PersonCommits
  <2>1. /\ touched \subseteq touched'
        /\ UNCHANGED <<index, disk, pc, plan, todo, missing, backup, saved, excluded>>
    BY <1>9 DEF PersonCommits
  <2> QED
    BY <1>0, <2>1 DEF Planned, Secured, AsBackedUp, Owed, NotThere, Waiting, OnDisk,
      StillTracked, Hidden
<1>10. CASE PersonRepairs
  <2>1. pc' = "idle"
    BY <1>10 DEF PersonRepairs
  <2> QED
    BY <1>0, <2>1 DEF Planned, Secured, AsBackedUp, NotThere, Waiting, StillTracked, Hidden
<1>11. ASSUME NEW f \in Files, PersonSaves(f) PROVE IInv'
  <2>1. /\ touched' = touched \cup {f}
        /\ \A g \in Files \ {f} : disk'[g] = disk[g]
        /\ UNCHANGED <<index, pc, plan, todo, missing, backup, saved, excluded>>
    BY <1>11 DEF PersonSaves, Acts, TypeOK
  <2> QED
    BY <1>0, <2>1 DEF Planned, Secured, AsBackedUp, Owed, NotThere, Waiting, OnDisk,
      StillTracked, Hidden, TypeOK
<1>12. ASSUME NEW f \in Files, PersonStages(f) PROVE IInv'
  <2>1. /\ touched' = touched \cup {f}
        /\ \A g \in Files \ {f} : index'[g] = index[g]
        /\ UNCHANGED <<disk, pc, plan, todo, missing, backup, saved, excluded>>
    BY <1>12 DEF PersonStages, Acts, TypeOK
  <2> QED
    BY <1>0, <2>1 DEF Planned, Secured, AsBackedUp, Owed, NotThere, Waiting, OnDisk,
      StillTracked, Hidden, TypeOK
<1>13. CASE UNCHANGED vars
  BY <1>0, <1>13 DEF vars, Planned, Secured, AsBackedUp, Owed, NotThere, Waiting, OnDisk,
    StillTracked, Hidden
<1> QED
  BY <1>1, <1>2, <1>3, <1>4, <1>5, <1>6, <1>7, <1>8, <1>9, <1>10, <1>11, <1>12, <1>13
  DEF Next, Guild, Person

(* The invariant holds of a project in any state the first run may find. *)
LEMMA Invariant == Spec => []IInv
<1>1. Init => IInv
  BY DEF Init, IInv, TypeOK, Planned, Secured, AsBackedUp, NotThere, Waiting, StillTracked,
    Hidden
<1> QED
  BY <1>1, InvStep, PTL DEF Spec

(* Every run that reaches git holds a copy of every planned file and has the *)
(* layer excluded, and what the person left alone is on disk as backed up.   *)
THEOREM SafeToUntrack == Spec => []ReadyToUntrack
<1>1. IInv => ReadyToUntrack
  BY DEF IInv, ReadyToUntrack, TypeOK, Secured, AsBackedUp, Owed, Hidden
<1> QED
  BY <1>1, Invariant, PTL

-----------------------------------------------------------------------------
(* A step of a run, or its death, leaves every content of a file the person  *)
(* has left alone somewhere: Restore writes only where nothing was, and what *)
(* Untrack takes out of the index is on disk or in HEAD, since a file that   *)
(* is gone from disk is one the person has touched.                          *)
LEMMA LosesNothing ==
  ASSUME IInv, [Next]_vars, edits' = edits, NEW f \in Files \ touched
  PROVE  Recoverable(f) \subseteq Recoverable(f)'
<1> USE DEF IInv
<1>1. edits \in Nat /\ edits' # edits + 1
  BY DEF TypeOK
<1>2. CASE UNCHANGED <<head, index, disk>> /\ \A g \in Files : saved[g] \subseteq saved'[g]
  BY <1>2 DEF Recoverable
<1>3. ASSUME NEW g \in Files, BackUp(g) PROVE Recoverable(f) \subseteq Recoverable(f)'
  BY <1>2, <1>3 DEF BackUp, BackedUpWith, TypeOK
<1>4. ASSUME NEW g \in Files, Restore(g) PROVE Recoverable(f) \subseteq Recoverable(f)'
  <2>1. CASE g = f
    <3>1. disk[f] \notin Versions
      BY <1>4, <2>1 DEF Restore, NotThere, Waiting, OnDisk
    <3> QED
      BY <1>4, <2>1, <3>1 DEF Restore, Recoverable
  <2>2. CASE g # f
    BY <1>4, <2>2 DEF Restore, Recoverable, TypeOK
  <2> QED
    BY <2>1, <2>2
<1>5. ASSUME NEW B \in Batches, Untrack(B) PROVE Recoverable(f) \subseteq Recoverable(f)'
  <2>1. pc = "untrack" /\ UNCHANGED <<head, disk, saved>>
    BY <1>5 DEF Untrack, UntrackIf
  <2>2. CASE f \notin B \/ index' = index
    <3>1. index'[f] = index[f]
      BY <1>5, <2>2 DEF Untrack, UntrackIf, TypeOK
    <3> QED
      BY <2>1, <3>1 DEF Recoverable
  <2>3. CASE f \in B /\ index' # index
    <3>1. Removable(f) /\ f \in todo
      BY <1>5, <2>3 DEF Untrack, UntrackIf, Batches
    <3>2. disk[f] \in Versions
      BY <2>1, <3>1 DEF Planned, Secured, AsBackedUp, Owed, TypeOK
    <3>3. index[f] \in {disk[f], head[f]}
      BY <3>1, <3>2, MigrateAssumption DEF Removable
    <3> QED
      BY <2>1, <3>3 DEF Recoverable
  <2> QED
    BY <2>2, <2>3
<1>6. Start \/ BackedUp \/ Dies => Recoverable(f) \subseteq Recoverable(f)'
  BY <1>2 DEF Start, BackedUp, Dies
<1>7. ExcludeLayer => Recoverable(f) \subseteq Recoverable(f)'
  BY <1>2 DEF ExcludeLayer, ExcludeOr
<1>8. ASSUME NEW g \in Files, BackUpRefused(g) PROVE Recoverable(f) \subseteq Recoverable(f)'
  BY <1>2, <1>8 DEF BackUpRefused
<1>9. ~Person
  BY <1>1 DEF Person, PersonCommits, PersonRepairs, PersonSaves, PersonStages, Acts
<1>10. CASE UNCHANGED vars
  BY <1>2, <1>10 DEF vars
<1> QED
  BY <1>3, <1>4, <1>5, <1>6, <1>7, <1>8, <1>9, <1>10 DEF Next, Guild

(* No step of a run or its death loses a version of a file the person is not *)
(* changing meanwhile: disk, index, HEAD or a backup directory still has it.  *)
THEOREM LossFree == Spec => NothingLost
<1> DEFINE Keeps == edits' = edits =>
             \A f \in Files \ touched : Recoverable(f) \subseteq Recoverable(f)'
<1>1. IInv /\ [Next]_vars => [Keeps]_vars
  BY LosesNothing
<1> QED
  BY <1>1, Invariant, PTL DEF Spec, NothingLost

-----------------------------------------------------------------------------
(* What git makes of a path, one case at a time. *)
StatusCases == \A f \in Files :
  /\ index[f] # Absent => status[f] = "tracked"
  /\ index[f] = Absent /\ disk[f] = Absent => status[f] = "absent"
  /\ index[f] = Absent /\ disk[f] # Absent /\ excluded => status[f] = "hidden"
  /\ index[f] = Absent /\ disk[f] # Absent /\ ~excluded => status[f] = "visible"
StatusTyped == status \in [Files -> P!Status]

(* Before a step, both hold by the definition of status. *)
LEMMA StatusOf == StatusCases /\ StatusTyped
<1>1. StatusCases
  BY Zenon DEF StatusCases, status
<1>2. \A f \in Files : status[f] \in P!Status
  BY Zenon DEF status, P!Status
<1> QED
  BY <1>1, <1>2, Zenon DEF status, StatusTyped

(* After a step, too. *)
LEMMA StatusOfNext == StatusCases' /\ StatusTyped'
<1>1. StatusCases'
  BY Zenon DEF StatusCases, status
<1>2. \A f \in Files : status'[f] \in P!Status
  BY Zenon DEF status, P!Status
<1> QED
  BY <1>1, <1>2, Zenon DEF status, StatusTyped

(* A step of a run shows git no new file and tracks none: Restore brings a   *)
(* file back that is still tracked, ExcludeLayer hides, and Untrack comes    *)
(* after it.                                                                 *)
LEMMA GuildStep ==
  ASSUME IInv, Guild \/ Dies
  PROVE  P!Guild
<1>1. StatusCases /\ StatusCases' /\ StatusTyped'
  BY StatusOf, StatusOfNext
<1>2. UNCHANGED edits
  BY DEF Guild, Start, BackedUp, ExcludeLayer, ExcludeOr, BackUp, BackedUpWith,
    BackUpRefused, Restore, Untrack, UntrackIf, Dies
<1> SUFFICES ASSUME NEW f \in Files \ touched PROVE P!MayBecome(status[f], status'[f])
  BY <1>1, <1>2 DEF P!Guild, StatusTyped
<1> USE DEF IInv
<1>3. CASE index'[f] = index[f] /\ disk'[f] = disk[f] /\ (excluded => excluded')
  BY <1>1, <1>3, Zenon DEF StatusCases, P!MayBecome
<1>4. CASE index[f] # Absent /\ (index'[f] # Absent \/ disk'[f] = Absent \/ excluded')
  BY <1>1, <1>4, Zenon DEF StatusCases, P!MayBecome
<1>5. ASSUME NEW g \in Files, Restore(g) PROVE P!MayBecome(status[f], status'[f])
  <2>1. CASE g = f
    <3>1. index[f] # Absent /\ index' = index
      BY <1>5, <2>1 DEF Restore, StillTracked, Planned
    <3> QED
      BY <1>4, <3>1
  <2>2. CASE g # f
    <3>1. index' = index /\ disk'[f] = disk[f] /\ excluded' = excluded
      BY <1>5, <2>2 DEF Restore, TypeOK
    <3> QED
      BY <1>3, <3>1
  <2> QED
    BY <2>1, <2>2
<1>6. ASSUME NEW B \in Batches, Untrack(B) PROVE P!MayBecome(status[f], status'[f])
  <2>1. excluded /\ excluded' /\ disk' = disk
    BY <1>6, Zenon DEF Untrack, UntrackIf, Hidden
  <2>2. index'[f] = index[f] \/ index[f] # Absent
    BY <1>6 DEF Untrack, UntrackIf, Removable, TypeOK
  <2> QED
    BY <1>3, <1>4, <2>1, <2>2
<1>7. CASE ExcludeLayer
  <2>1. index' = index /\ disk' = disk
    BY <1>7 DEF ExcludeLayer, ExcludeOr
  <2>2. excluded => excluded'
    BY <1>7, Zenon DEF ExcludeLayer, ExcludeOr, AppendBlock, RefuseBlock
  <2> QED
    BY <1>3, <2>1, <2>2
<1>8. CASE Dies
  <2>1. index' = index /\ disk' = disk
    BY <1>8 DEF Dies
  <2>2. excluded => excluded'
    BY <1>8, Zenon DEF Dies, TearBlock
  <2> QED
    BY <1>3, <2>1, <2>2
<1>9. CASE Start \/ BackedUp \/ \E g \in Files : BackUp(g) \/ BackUpRefused(g)
  <2>1. UNCHANGED <<index, disk, excluded>>
    BY <1>9 DEF Start, BackedUp, BackUp, BackedUpWith, BackUpRefused
  <2> QED
    BY <1>3, <2>1
<1> QED
  BY <1>5, <1>6, <1>7, <1>8, <1>9 DEF Guild

(* A person's step is one the promise leaves open: whatever it changes, it is *)
(* counted in edits.                                                          *)
LEMMA PersonStep == Person => P!Person
<1>1. Person => edits' = edits + 1
  BY Zenon DEF Person, PersonCommits, PersonRepairs, PersonSaves, PersonStages, Acts
<1> QED
  BY <1>1, StatusOfNext DEF P!Person, StatusTyped

(* The migration implements the promise the guild makes of a project's files *)
(* for any number of files, any batch size and any number of edits and       *)
(* deaths: it never leaves one untracked and visible.                        *)
THEOREM PromiseKept == Spec => KeepsPromise
<1>1. Init => P!Init
  BY StatusOf DEF Init, P!Init, StatusTyped
<1>2. IInv /\ [Next]_vars => [P!Guild \/ P!Person]_<<status, edits, touched>>
  <2>1. UNCHANGED vars => UNCHANGED <<status, edits, touched>>
    BY DEF vars, status
  <2> QED
    BY <2>1, GuildStep, PersonStep DEF Next
<1> QED
  BY <1>1, <1>2, Invariant, PTL DEF Spec, KeepsPromise, P!Promise
=============================================================================
