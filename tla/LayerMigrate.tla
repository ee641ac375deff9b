----------------------------- MODULE LayerMigrate -----------------------------
(***************************************************************************)
(* core/layer_migrate.py: `drunken-init --migrate-ai-layer --apply` moves a *)
(* committed AI layer out of the project's git: back every file up, restore *)
(* what was missing from disk, exclude the layer, untrack it in batches.    *)
(* The person goes on editing, staging and committing while it runs, and a  *)
(* run may die between any two steps and be started again.                  *)
(***************************************************************************)
EXTENDS Naturals, FiniteSets, LayerExclude

CONSTANTS Files,      \* paths on the AI-layer list
          Versions,   \* contents of a file
          Absent,     \* no such file, or no such index or HEAD entry
          Link,       \* the path is, or is behind, a symbolic link
          Chunk,      \* _CHUNK: paths given to one git rm
          MaxEdits,   \* bound: the person's steps
          MaxFaults   \* bound: runs killed or failed by the operating system

ASSUME MigrateAssumption ==
  /\ Absent \notin Versions /\ Link \notin Versions /\ Absent # Link
  /\ IsFiniteSet(Files)
  /\ Chunk \in Nat \ {0} /\ MaxEdits \in Nat /\ MaxFaults \in Nat

VARIABLES head, index, disk,  \* what HEAD, the index and the disk hold
          pc,                 \* the step the run is at
          plan,               \* rels: the tracked paths the run found
          todo,               \* paths left in the current loop
          missing,            \* planned paths that were not on disk
          backup,             \* the run's backup directory
          saved,              \* contents in every backup directory so far
          faults,
          touched             \* history: paths the person changed during this run

git    == <<head, index>>
run    == <<pc, plan, todo, missing, backup, saved, touched>>
marker == <<excluded, broken>>
vars == <<head, index, disk, pc, plan, todo, missing, backup, saved, faults, touched,
          excluded, broken, edits>>

Copy == Versions \cup {Absent}
Tracked == {f \in Files : index[f] # Absent}
OnDisk(f) == disk[f] \in Versions

Init ==
  /\ head \in [Files -> Copy] /\ index \in [Files -> Copy]
  /\ disk \in [Files -> Copy \cup {Link}]
  /\ pc = "idle" /\ plan = {} /\ todo = {} /\ missing = {} /\ touched = {}
  /\ backup = [f \in Files |-> Absent] /\ saved = [f \in Files |-> {}]
  /\ excluded \in BOOLEAN /\ broken \in BOOLEAN
  /\ edits = 0 /\ faults = 0

-----------------------------------------------------------------------------
(* _tracked_layer, _refuse_symlinks and _prepare_backup_dir.  A refusal     *)
(* changes nothing, so only the run that goes on is a step.                 *)
Start ==
  /\ pc = "idle"
  /\ Tracked # {}
  /\ \A f \in Tracked : disk[f] # Link
  /\ pc' = "backup"
  /\ plan' = Tracked /\ todo' = Tracked
  /\ missing' = {} /\ touched' = {}
  /\ backup' = [f \in Files |-> Absent]
  /\ UNCHANGED <<head, index, disk, saved, faults, excluded, broken, edits>>

\* slips: the exit status of git show ignored; a file missing from disk given up on
HasCopyUnchecked(f) == TRUE
HasCopyOnDisk(f) == OnDisk(f)
HasCopy(f) == OnDisk(f) \/ index[f] # Absent

(* One turn of the loop of _back_up: the bytes on disk, or the index copy.  *)
BackedUpWith(f, copy) ==
  /\ pc = "backup" /\ f \in todo
  /\ HasCopy(f)
  /\ backup' = [backup EXCEPT ![f] = copy]
  /\ saved' = [saved EXCEPT ![f] = @ \cup {copy}]
  /\ missing' = IF OnDisk(f) THEN missing ELSE missing \cup {f}
  /\ todo' = todo \ {f}
  /\ UNCHANGED <<head, index, disk, pc, plan, touched, faults, excluded, broken, edits>>
BackUpIndex(f) ==   \* slip: the index copy of every file
  index[f] # Absent /\ BackedUpWith(f, index[f])
BackUp(f) == BackedUpWith(f, IF OnDisk(f) THEN disk[f] ELSE index[f])

(* The person untracked and deleted the file meanwhile: git show fails. *)
BackUpRefused(f) ==
  /\ pc = "backup" /\ f \in todo
  /\ ~HasCopy(f)
  /\ pc' = "idle"
  /\ UNCHANGED <<head, index, disk, plan, todo, missing, backup, saved, touched, faults,
                 excluded, broken, edits>>

(* The backup is complete; _scan only reads it. *)
BackedUp ==
  /\ pc = "backup" /\ todo = {}
  /\ pc' = "restore" /\ todo' = missing
  /\ UNCHANGED <<head, index, disk, plan, missing, backup, saved, touched, faults,
                 excluded, broken, edits>>

(* One turn of the restore loop: write_bytes, whatever is there now. *)
Restore(f) ==
  /\ pc = "restore" /\ f \in todo
  /\ disk' = [disk EXCEPT ![f] = backup[f]]
  /\ todo' = todo \ {f}
  /\ UNCHANGED <<head, index, pc, plan, missing, backup, saved, touched, faults,
                 excluded, broken, edits>>

(* exclude_ai_layer(); it raises on a marker block that was never closed. *)
ExcludeOr(refused) ==
  /\ pc = "restore" /\ todo = {}
  /\ \/ AppendBlock /\ pc' = "untrack"
     \/ RefuseBlock /\ pc' = refused
  /\ todo' = plan
  /\ UNCHANGED <<head, index, disk, plan, missing, backup, saved, touched, faults, edits>>
ExcludeBestEffort == ExcludeOr("untrack")   \* slip: the error is swallowed
ExcludeLayer == ExcludeOr("idle")

(* The paths one git rm --cached is given.  _untrack takes them in sorted   *)
(* order; any order is allowed here.                                        *)
Batches ==
  {B \in SUBSET todo \ {{}} :
     Cardinality(B) = Chunk \/ (B = todo /\ Cardinality(B) < Chunk)}

(* git's own rule for rm --cached without -f: the path is in the index, and *)
(* a file still on disk has its index copy on disk or in HEAD.              *)
Removable(f) ==
  /\ index[f] # Absent
  /\ disk[f] = Absent \/ index[f] \in {disk[f], head[f]}

(* One turn of the loop of _untrack: git takes the batch or none of it, and *)
(* its error ends the run.                                                  *)
UntrackIf(B, allowed) ==
  /\ pc = "untrack" /\ todo # {}
  /\ IF allowed
     THEN /\ index' = [f \in Files |-> IF f \in B THEN Absent ELSE index[f]]
          /\ todo' = todo \ B
          /\ pc' = IF todo' = {} THEN "idle" ELSE pc
     ELSE pc' = "idle" /\ UNCHANGED <<index, todo>>
  /\ UNCHANGED <<head, disk, plan, missing, backup, saved, touched, faults,
                 excluded, broken, edits>>
UntrackForced(B) == UntrackIf(B, B \subseteq Tracked)    \* slip: git rm -f
Untrack(B) == UntrackIf(B, \A f \in B : Removable(f))

(* The process is killed, a write fails or a backup does not read back as   *)
(* written; inside the append of the marker block it leaves the block torn. *)
Dies ==
  /\ pc # "idle" /\ faults < MaxFaults
  /\ pc' = "idle" /\ faults' = faults + 1
  /\ \/ UNCHANGED <<excluded, broken>>
     \/ pc = "restore" /\ todo = {} /\ TearBlock
  /\ UNCHANGED <<head, index, disk, plan, todo, missing, backup, saved, touched, edits>>

Guild ==
  \/ Start \/ BackedUp \/ ExcludeLayer
  \/ \E f \in Files : BackUp(f) \/ BackUpRefused(f) \/ Restore(f)
  \/ \E B \in Batches : Untrack(B)

-----------------------------------------------------------------------------
Acts(f) ==
  /\ edits < MaxEdits
  /\ edits' = edits + 1
  /\ touched' = touched \cup {f}

(* Saves, creates or deletes the file. *)
PersonSaves(f) ==
  /\ Acts(f)
  /\ \E v \in Copy \ {disk[f]} : disk' = [disk EXCEPT ![f] = v]
  /\ UNCHANGED <<head, index, pc, plan, todo, missing, backup, saved, faults, excluded, broken>>

(* git add, git reset or git rm --cached on the path. *)
PersonStages(f) ==
  /\ Acts(f)
  /\ \E v \in {disk[f], head[f], Absent} \ {index[f], Link} : index' = [index EXCEPT ![f] = v]
  /\ UNCHANGED <<head, disk, pc, plan, todo, missing, backup, saved, faults, excluded, broken>>

PersonCommits ==
  /\ edits < MaxEdits /\ head # index
  /\ edits' = edits + 1
  /\ head' = index
  /\ touched' = touched \cup {f \in Files : head[f] # index[f]}
  /\ UNCHANGED <<index, disk, pc, plan, todo, missing, backup, saved, faults, excluded, broken>>

(* A person's edit of info/exclude falls between runs. *)
PersonRepairs ==
  /\ pc = "idle" /\ edits < MaxEdits
  /\ edits' = edits + 1
  /\ \/ RepairBlock
     \/ ~broken /\ excluded /\ excluded' = FALSE /\ UNCHANGED broken
  /\ UNCHANGED <<head, index, disk, pc, plan, todo, missing, backup, saved, touched, faults>>

Person ==
  \/ PersonCommits \/ PersonRepairs
  \/ \E f \in Files : PersonSaves(f) \/ PersonStages(f)

Next == Guild \/ Dies \/ Person
Spec == Init /\ [][Next]_vars

(* A person starts the run again until it reports nothing left to migrate,  *)
(* and a started run is scheduled; nobody is obliged to edit or to kill it. *)
FairSpec == Spec /\ WF_vars(Guild)

-----------------------------------------------------------------------------
TypeOK ==
  /\ head \in [Files -> Copy] /\ index \in [Files -> Copy]
  /\ disk \in [Files -> Copy \cup {Link}]
  /\ pc \in {"idle", "backup", "restore", "untrack"}
  /\ plan \subseteq Files /\ todo \subseteq Files /\ missing \subseteq Files
  /\ backup \in [Files -> Copy] /\ saved \in [Files -> SUBSET Versions]
  /\ touched \subseteq Files
  /\ excluded \in BOOLEAN /\ broken \in BOOLEAN
  /\ edits \in Nat /\ faults \in Nat

(* "The backup is read back and compared before anything else happens", and *)
(* "the files stay on disk": when a run reaches its first git write it holds *)
(* a copy of every planned file, the layer is excluded, and every planned    *)
(* file the person has left alone is on disk exactly as the backup has it.   *)
ReadyToUntrack ==
  pc = "untrack" =>
    /\ excluded
    /\ \A f \in plan : backup[f] \in saved[f]
    /\ \A f \in plan \ touched : disk[f] = backup[f]

(* No step of a run, killed or not, loses a version of a file the person is  *)
(* not changing meanwhile: what the disk, the index or HEAD held is still in *)
(* one of them or in a backup.                                               *)
Recoverable(f) == ({disk[f], index[f], head[f]} \cap Versions) \cup saved[f]
NothingLost ==
  [][edits' = edits =>
       \A f \in Files \ touched : Recoverable(f) \subseteq Recoverable(f)']_vars

(* A run never leaves a file untracked and visible, wherever it stops: the   *)
(* reason the module gives for excluding before untracking.                  *)
status == [f \in Files |->
  CASE index[f] # Absent -> "tracked"
    [] index[f] = Absent /\ disk[f] = Absent -> "absent"
    [] OTHER -> IF excluded THEN "hidden" ELSE "visible"]
P == INSTANCE LayerPromise WITH Paths <- Files
KeepsPromise == P!Promise

(* Reruns finish: once the person and the faults have stopped, either nothing *)
(* of the layer is tracked or there is something only a person can resolve.   *)
NeedsPerson ==
  \/ broken
  \/ \E f \in Tracked : disk[f] = Link \/ ~Removable(f)
RerunsFinish == <>[](Tracked = {} \/ NeedsPerson)
=============================================================================
