----------------------------- MODULE WorktreeSync -----------------------------
(***************************************************************************)
(* core/worktrees.py: `drunken-init --sync-worktrees --apply` copies the AI *)
(* layer of the registered checkout into its linked worktrees, one worktree *)
(* after the other: plan it, copy what is missing there, then add a line    *)
(* for each copied file to info/exclude, which all worktrees share.  A run  *)
(* may be killed or fail between any two of these steps.                    *)
(***************************************************************************)
EXTENDS Naturals, FiniteSets

CONSTANTS Trees,     \* the linked worktrees
          Files,     \* paths on the AI-layer list
          Versions,  \* contents of a file
          Absent,    \* no such file
          Link,      \* the path is, or is behind, a symbolic link
          MaxEdits,  \* bound: the person's steps
          MaxFaults  \* bound: runs killed or failed by the operating system

ASSUME SyncAssumption ==
  /\ Absent \notin Versions /\ Link \notin Versions /\ Absent # Link
  /\ MaxEdits \in Nat /\ MaxFaults \in Nat

VARIABLES source,   \* the registered checkout's layer
          read,     \* what the run read of it when it started
          disk,     \* the layer paths of each worktree
          tracked,  \* those in each worktree's index
          hidden,   \* those a line of info/exclude names
          pc, outcome,
          queue,    \* worktrees the run has not finished
          tree,     \* the one it is copying to
          planned,  \* candidates: the files missing there
          left,     \* candidates not yet copied
          made,     \* history: files in worktrees that a run put there, untouched since
          failed,   \* history: a run has failed
          edits, faults,
          touched   \* history: files the person changed in worktrees during this run

vars == <<source, read, disk, tracked, hidden, pc, outcome, queue, tree, planned, left,
          made, failed, edits, faults, touched>>

Copy == Versions \cup {Absent}

(* The checkout holds the whole layer, excluded by drunken-init or not; its  *)
(* other states are a person's edits away.                                  *)
Init ==
  /\ source \in [Files -> Versions] /\ read = [f \in Files |-> Absent]
  /\ disk \in [Trees -> [Files -> Copy \cup {Link}]]
  /\ tracked \in [Trees -> SUBSET Files] /\ hidden \in {{}, Files}
  /\ pc = "idle" /\ outcome = "none"
  /\ queue = {} /\ tree \in Trees /\ planned = {} /\ left = {}
  /\ made = {} /\ failed = FALSE /\ touched = {} /\ edits = 0 /\ faults = 0

-----------------------------------------------------------------------------
(* sync(): the source files are read once, for every worktree. *)
StartsAs(result) ==
  /\ pc = "idle"
  /\ pc' = "plan" /\ outcome' = result
  /\ read' = source /\ queue' = Trees /\ touched' = {}
  /\ UNCHANGED <<source, disk, tracked, hidden, tree, planned, left, made, failed, edits,
                 faults>>
StartStale == StartsAs(outcome)         \* slip: the last run's result is kept
Start == StartsAs("running")

(* The classification of _sync_one: what is tracked, linked or there is     *)
(* left alone, as unchanged or as a conflict.                               *)
\* slips: git is not asked; a line in info/exclude is taken for a copy
MissingOnDisk(t, f) == read[f] # Absent /\ disk[t][f] = Absent
NotListed(t, f) == MissingOnDisk(t, f) /\ f \notin tracked[t] \cup hidden
Candidate(t, f) == read[f] # Absent /\ disk[t][f] = Absent /\ f \notin tracked[t]

Plan(t) ==
  LET found == {f \in Files : Candidate(t, f)} IN
  /\ pc = "plan" /\ t \in queue
  /\ IF found = {}
     THEN /\ queue' = queue \ {t}
          /\ UNCHANGED <<pc, tree, planned, left>>
     ELSE /\ pc' = "copy" /\ tree' = t
          /\ planned' = found /\ left' = found
          /\ UNCHANGED queue
  /\ UNCHANGED <<source, read, disk, tracked, hidden, outcome, made, failed, edits, faults,
                 touched>>

(* copy2 of the checkout's file as it is now, over whatever is there now. *)
CopyFile(f) ==
  /\ pc = "copy" /\ f \in left
  /\ source[f] # Absent
  /\ disk' = [disk EXCEPT ![tree][f] = source[f]]
  /\ made' = made \cup {<<tree, f>>}
  /\ left' = left \ {f}
  /\ UNCHANGED <<source, read, tracked, hidden, pc, outcome, queue, tree, planned,
                 failed, edits, faults, touched>>

(* The file was deleted from the checkout after it was read: the error ends *)
(* the run, whatever it has copied.                                         *)
CopyRefused(f) ==
  /\ pc = "copy" /\ f \in left
  /\ source[f] = Absent
  /\ pc' = "idle" /\ outcome' = "failed" /\ failed' = TRUE
  /\ UNCHANGED <<source, read, disk, tracked, hidden, queue, tree, planned, left, made,
                 edits, faults, touched>>

(* _exclude_copied_files: one line for each candidate. *)
ExcludesAs(lines) ==
  /\ pc = "copy" /\ left = {}
  /\ hidden' = hidden \cup lines
  /\ pc' = "plan" /\ queue' = queue \ {tree}
  /\ UNCHANGED <<source, read, disk, tracked, outcome, tree, planned, left, made,
                 failed, edits, faults, touched>>
ExcludeLeft == ExcludesAs(left)         \* slip: the list the loop has emptied
ExcludeCopied == ExcludesAs(planned)

Finish ==
  /\ pc = "plan" /\ queue = {}
  /\ pc' = "idle" /\ outcome' = "done"
  /\ UNCHANGED <<source, read, disk, tracked, hidden, queue, tree, planned, left, made,
                 failed, edits, faults, touched>>

(* Killed, or a copy or the append fails. *)
Dies ==
  /\ pc # "idle" /\ faults < MaxFaults
  /\ pc' = "idle" /\ outcome' = "failed" /\ failed' = TRUE
  /\ faults' = faults + 1
  /\ UNCHANGED <<source, read, disk, tracked, hidden, queue, tree, planned, left, made,
                 edits, touched>>

Guild ==
  \/ Start \/ ExcludeCopied \/ Finish
  \/ \E t \in Trees : Plan(t)
  \/ \E f \in Files : CopyFile(f) \/ CopyRefused(f)

-----------------------------------------------------------------------------
Acts(changed) ==
  /\ edits < MaxEdits /\ edits' = edits + 1
  /\ touched' = touched \cup changed /\ made' = made \ changed
  /\ UNCHANGED <<read, pc, outcome, queue, tree, planned, left, failed, faults>>

PersonSaves(t, f) ==
  /\ Acts({<<t, f>>})
  /\ \E v \in Copy \ {disk[t][f]} : disk' = [disk EXCEPT ![t][f] = v]
  /\ UNCHANGED <<source, tracked, hidden>>

(* git add, or git rm --cached. *)
PersonStages(t, f) ==
  /\ Acts({<<t, f>>})
  /\ tracked' = [tracked EXCEPT ![t] = IF f \in @ THEN @ \ {f} ELSE @ \cup {f}]
  /\ UNCHANGED <<source, disk, hidden>>

PersonEditsSource(f) ==
  /\ Acts({})
  /\ \E v \in Copy \ {source[f]} : source' = [source EXCEPT ![f] = v]
  /\ UNCHANGED <<disk, tracked, hidden>>

(* Adds or removes the line that names f, and answers for every copy of it. *)
PersonExcludes(f) ==
  /\ Acts(Trees \X {f})
  /\ hidden' = IF f \in hidden THEN hidden \ {f} ELSE hidden \cup {f}
  /\ UNCHANGED <<source, disk, tracked>>

Person ==
  \E f \in Files :
    \/ PersonEditsSource(f) \/ PersonExcludes(f)
    \/ \E t \in Trees : PersonSaves(t, f) \/ PersonStages(t, f)

Next == Guild \/ Dies \/ Person
Spec == Init /\ [][Next]_vars

(* A person starts the sync again after every change; a started run goes on. *)
FairSpec == Spec /\ WF_vars(Guild)

-----------------------------------------------------------------------------
TypeOK ==
  /\ source \in [Files -> Copy] /\ read \in [Files -> Copy]
  /\ disk \in [Trees -> [Files -> Copy \cup {Link}]]
  /\ tracked \in [Trees -> SUBSET Files] /\ hidden \subseteq Files
  /\ pc \in {"idle", "plan", "copy"} /\ outcome \in {"none", "running", "failed", "done"}
  /\ (pc = "idle") <=> (outcome # "running")
  /\ queue \subseteq Trees /\ tree \in Trees /\ planned \subseteq Files
  /\ left \subseteq planned /\ (left # {} /\ pc = "copy" => tree \in queue)
  /\ made \subseteq Trees \X Files /\ touched \subseteq Trees \X Files
  /\ failed \in BOOLEAN /\ edits \in Nat /\ faults \in Nat

(* "A different or tracked file is reported and left untouched": no step of *)
(* a run changes a file that exists in a worktree or that its git tracks,   *)
(* the plan being older than the copy or not, unless the person brought it  *)
(* about during the run.                                                    *)
LeftUntouched ==
  [][edits' = edits =>
       \A t \in Trees, f \in Files :
          <<t, f>> \notin touched /\ (disk[t][f] # Absent \/ f \in tracked[t])
            => disk'[t][f] = disk[t][f]]_vars

(* Runs that have never failed show git nothing new for longer than it       *)
(* takes: a file they made that git status would list is in the worktree a   *)
(* run is copying to at this moment.                                         *)
Shown == {m \in made : m[2] \notin hidden /\ m[2] \notin tracked[m[1]]}
OnlyWhileCopying == ~failed => \A m \in Shown : pc = "copy" /\ m[1] = tree

(* Repeated runs leave no worktree without a file of the checkout's layer,  *)
(* once the person and the faults have stopped.                             *)
Settled ==
  \A t \in Trees, f \in Files :
    source[f] = Absent \/ disk[t][f] # Absent \/ f \in tracked[t]
SyncsFinish == <>[]Settled

(* The test's "idempotent and excludes copied layer": when a run reports    *)
(* success, what this run or an earlier one copied is excluded.             *)
RerunExcludes == outcome = "done" => Shown = {}
=============================================================================
