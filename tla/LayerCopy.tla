------------------------------ MODULE LayerCopy ------------------------------
(***************************************************************************)
(* core/layer_copy.py: `drunken-init --config-repo` copies a project's AI   *)
(* layer in from the config repo.  Everything is checked first (nothing the *)
(* project tracks, no symlink, no secret), then the layer is excluded, then *)
(* the files are copied one by one, an existing one only with               *)
(* --overwrite-ai-layer.  The person edits both trees meanwhile, and a copy *)
(* may fail or the run be killed at any point.                              *)
(***************************************************************************)
EXTENDS Naturals, LayerExclude

CONSTANTS Paths,      \* paths of the repository that matter here
          Layer,      \* those the config repo's project folder holds
          AnyDepth,   \* those matched by a pattern that is not anchored
          Fold,       \* str.casefold() of each path
          Place,      \* the file each path names on this filesystem
          Nested,     \* the project is a subfolder of its repository
          Versions,   \* contents of a file
          Bad,        \* contents the scan refuses
          Absent, Link, \* no file; a symbolic link
          Torn,       \* a copy that was cut short
          Kills,      \* runs are killed too, beside failing to copy
          MaxEdits,   \* bound: the person's steps
          MaxFaults   \* bound: failed copies and killed runs

ASSUME CopyAssumption ==
  /\ AnyDepth \subseteq Layer /\ Layer \subseteq Paths /\ Bad \subseteq Versions
  /\ Absent # Link /\ Absent # Torn /\ Link # Torn /\ {Absent, Link, Torn} \cap Versions = {}
  /\ \A p, q \in Paths : Place[p] = Place[q] => Fold[p] = Fold[q]
  /\ \A p, q \in Layer : Place[p] = Place[q] => p = q
  /\ Nested \in BOOLEAN /\ Kills \in BOOLEAN /\ MaxEdits \in Nat /\ MaxFaults \in Nat

VARIABLES config,     \* the config repo's copy of each layer file
          head,       \* the paths in HEAD
          index,      \* each path's index entry: none, intent-to-add, content
          disk,       \* what the file at each place holds
          pc,
          overwrite,  \* --overwrite-ai-layer
          result,     \* each layer file: still to do, copied, or skipped as same or drift
          outcome,    \* how the last run ended
          faults,
          touched     \* history: paths the person changed during this run

vars == <<config, head, index, disk, pc, overwrite, result, outcome, faults, touched,
          excluded, broken, edits>>

Places == {Place[p] : p \in Paths}
OnDisk(p) == disk[Place[p]] # Absent

(* _has_staged_content and _in_head: an intent-to-add entry is neither. *)
TrackedInIndex(p) == index[p] = "content"   \* slip: HEAD is not asked
Tracked(p) == p \in head \/ index[p] = "content"

(* _is_tracked: this path, or one that differs from it only in case. *)
ConflictsExactly(p) == Tracked(p)           \* slip: the exact name only
Conflicts(p) == \E q \in Paths : Fold[q] = Fold[p] /\ Tracked(q)

(* _scan_layer_files. *)
CleanOrThere(p) == OnDisk(p) \/ config[p] \notin Bad  \* slip: new files only
Clean(p) == config[p] \notin Bad

Init ==
  /\ config \in [Layer -> Versions]
  /\ head \in SUBSET Paths /\ index \in [Paths -> {"none", "intent", "content"}]
  /\ disk \in [Places -> (Versions \ Bad) \cup {Absent, Link}]
  /\ pc = "idle" /\ overwrite = FALSE
  /\ result = [p \in Layer |-> "none"] /\ outcome = "none"
  /\ excluded \in BOOLEAN /\ broken \in BOOLEAN
  /\ edits = 0 /\ faults = 0 /\ touched = {}

-----------------------------------------------------------------------------
(* validate_ai_layer_copy: a refusal writes nothing, so only the run that   *)
(* goes on is a step.                                                       *)
Starts(over, fresh) ==
  /\ pc = "idle"
  /\ \A p \in Layer : Clean(p) /\ disk[Place[p]] # Link /\ ~Conflicts(p)
  /\ pc' = "exclude" /\ overwrite' = over
  /\ result' = fresh /\ outcome' = "running"
  /\ touched' = {}
  /\ UNCHANGED <<config, head, index, disk, faults, excluded, broken, edits>>
StartAgain(over) ==    \* slip: results kept from the last run
  Starts(over, [p \in Layer |-> IF result[p] = "none" THEN "todo" ELSE result[p]])
Start(over) == Starts(over, [p \in Layer |-> "todo"])

(* exclude_ai_layer(); a marker block that was never closed ends the run. *)
ExcludeOr(refused) ==
  /\ pc = "exclude"
  /\ \/ AppendBlock /\ pc' = "copy" /\ UNCHANGED outcome
     \/ RefuseBlock /\ pc' = refused /\ outcome' = "refused"
  /\ UNCHANGED <<config, head, index, disk, overwrite, result, faults, touched, edits>>
ExcludeBestEffort == ExcludeOr("copy")      \* slip: the error is swallowed
ExcludeLayer == ExcludeOr("idle")

(* What the loop makes of the next file. *)
KeptIfSame(p) == disk[Place[p]] = config[p]        \* slip: only an equal file is kept
Kept(p) == OnDisk(p) /\ ~overwrite

IdenticalShallow(p) == OnDisk(p)                   \* slip: filecmp.cmp(shallow=True)
Identical(p) == disk[Place[p]] = config[p]

Skip(p) ==
  /\ pc = "copy" /\ result[p] = "todo" /\ Kept(p)
  /\ result' = [result EXCEPT ![p] = IF Identical(p) THEN "same" ELSE "drift"]
  /\ UNCHANGED <<config, head, index, disk, pc, overwrite, outcome, faults, touched,
                 excluded, broken, edits>>

Copy(p) ==
  /\ pc = "copy" /\ result[p] = "todo" /\ ~Kept(p)
  /\ disk' = [disk EXCEPT ![Place[p]] = config[p]]
  /\ result' = [result EXCEPT ![p] = "copied"]
  /\ UNCHANGED <<config, head, index, pc, overwrite, outcome, faults, touched,
                 excluded, broken, edits>>

(* _copy_ai_layer_in: drift is what makes main() exit 1. *)
Finish ==
  /\ pc = "copy" /\ \A p \in Layer : result[p] # "todo"
  /\ pc' = "idle"
  /\ outcome' = IF \E p \in Layer : result[p] = "drift" THEN "drift" ELSE "done"
  /\ UNCHANGED <<config, head, index, disk, overwrite, result, faults, touched,
                 excluded, broken, edits>>

(* copy2 truncates its destination before it writes. *)
CutShort(p) ==
  /\ pc = "copy" /\ result[p] = "todo" /\ ~Kept(p)
  /\ disk' \in {disk, [disk EXCEPT ![Place[p]] = Torn]}

Stops(how) ==
  /\ faults < MaxFaults /\ faults' = faults + 1
  /\ pc' = "idle" /\ outcome' = how
  /\ UNCHANGED <<config, head, index, overwrite, result, touched, edits>>

(* PartialCopyError: disk full, permissions. *)
CopyFails(p) == Stops("partial") /\ CutShort(p) /\ UNCHANGED <<excluded, broken>>

(* The process is killed: between two steps, in a copy, or in the append. *)
Dies ==
  /\ Kills /\ pc # "idle"
  /\ Stops("killed")
  /\ \/ UNCHANGED <<disk, excluded, broken>>
     \/ UNCHANGED <<excluded, broken>> /\ \E p \in Layer : CutShort(p)
     \/ pc = "exclude" /\ TearBlock /\ UNCHANGED disk

Guild ==
  \/ \E over \in BOOLEAN : Start(over)
  \/ ExcludeLayer \/ Finish \/ Dies
  \/ \E p \in Layer : Skip(p) \/ Copy(p) \/ CopyFails(p)

-----------------------------------------------------------------------------
Acts(changed) ==
  /\ edits < MaxEdits /\ edits' = edits + 1
  /\ touched' = touched \cup changed
  /\ UNCHANGED <<pc, overwrite, result, outcome, faults>>

SamePlace(p) == {q \in Paths : Place[q] = Place[p]}

(* Saves, creates or deletes the file. *)
PersonSaves(p) ==
  /\ Acts(SamePlace(p))
  /\ \E v \in ((Versions \ Bad) \cup {Absent}) \ {disk[Place[p]]} :
       disk' = [disk EXCEPT ![Place[p]] = v]
  /\ UNCHANGED <<config, head, index, excluded, broken>>

(* git add, git add -N, git reset or git rm --cached. *)
PersonStages(p) ==
  /\ Acts({p})
  /\ \E entry \in {"none", "intent", "content"} \ {index[p]} : index' = [index EXCEPT ![p] = entry]
  /\ UNCHANGED <<config, head, disk, excluded, broken>>

PersonCommits ==
  LET staged == {p \in Paths : index[p] = "content"} IN
  /\ head # staged /\ head' = staged
  /\ Acts((head \ staged) \cup (staged \ head))
  /\ UNCHANGED <<config, index, disk, excluded, broken>>

(* The config repo is a working copy like any other. *)
PersonConfigures(p) ==
  /\ Acts({p})
  /\ \E v \in Versions \ {config[p]} : config' = [config EXCEPT ![p] = v]
  /\ UNCHANGED <<head, index, disk, excluded, broken>>

(* A person's edit of info/exclude falls between runs. *)
PersonRepairs ==
  /\ pc = "idle"
  /\ Acts({})
  /\ \/ RepairBlock
     \/ ~broken /\ excluded /\ excluded' = FALSE /\ UNCHANGED broken
  /\ UNCHANGED <<config, head, index, disk>>

Person ==
  \/ PersonCommits \/ PersonRepairs
  \/ \E p \in Paths : PersonSaves(p) \/ PersonStages(p)
  \/ \E p \in Layer : PersonConfigures(p)

Next == Guild \/ Person
Spec == Init /\ [][Next]_vars

-----------------------------------------------------------------------------
TypeOK ==
  /\ config \in [Layer -> Versions]
  /\ head \subseteq Paths /\ index \in [Paths -> {"none", "intent", "content"}]
  /\ disk \in [Places -> Versions \cup {Absent, Link, Torn}]
  /\ pc \in {"idle", "exclude", "copy"} /\ overwrite \in BOOLEAN
  /\ outcome \in {"none", "running", "refused", "partial", "killed", "done", "drift"}
  /\ excluded \in BOOLEAN /\ broken \in BOOLEAN
  /\ edits \in 0..MaxEdits /\ faults \in 0..MaxFaults /\ touched \subseteq Paths
  /\ result \in [Layer -> {"none", "todo", "copied", "same", "drift"}]
  /\ (outcome = "running") <=> (pc # "idle")

(* "Overwriting a committed file through this path would be a silent,        *)
(* surprising edit": no step of a run changes the file a tracked path names, *)
(* under that or any other spelling, staged or only in HEAD, on disk or      *)
(* deleted, unless the person came to track it after the run had checked.    *)
TrackedKept ==
  [][edits' = edits =>
       \A q \in Paths \ touched :
          q \in head \/ index[q] = "content" => disk'[Place[q]] = disk[Place[q]]]_vars

(* Without --overwrite-ai-layer no step of a run, not even a copy cut short, *)
(* changes a file that exists.                                               *)
ExistingKept ==
  [][edits' = edits /\ ~overwrite =>
       \A p \in Layer : OnDisk(p) => disk'[Place[p]] = disk[Place[p]]]_vars

(* Content the scan refuses never reaches the project, in a run of any       *)
(* shape, unless the person changed that config file behind the run's back.  *)
OnlyScanned ==
  [][edits' = edits =>
       \A p \in Layer \ touched :
          disk'[Place[p]] # disk[Place[p]] => disk'[Place[p]] \notin Bad]_vars

(* The report is about what is on disk, for a run that failed half way too:  *)
(* what it calls copied or matching equals the config repo's file, what it   *)
(* calls different differs.                                                  *)
ReportMatchesDisk ==
  \A p \in Layer \ touched :
    /\ result[p] \in {"copied", "same"} => disk[Place[p]] = config[p]
    /\ result[p] = "drift" => disk[Place[p]] # config[p]

(* What git status makes of each layer path, and the guild's promise of it:  *)
(* a run, whole or cut short, never shows git a new file.                    *)
Covers(p) == excluded /\ (p \in AnyDepth \/ ~Nested)
status == [p \in Layer |->
  CASE p \in head \/ index[p] # "none" -> "tracked"
    [] ~(p \in head \/ index[p] # "none") /\ ~OnDisk(p) -> "absent"
    [] OTHER -> IF Covers(p) THEN "hidden" ELSE "visible"]
P == INSTANCE LayerPromise WITH Paths <- Layer
KeepsPromise == P!Promise

(* "Re-running after fixing the underlying problem is idempotent": a rerun   *)
(* never takes a file a failed run of the guild wrote for the person's own,  *)
(* different one.                                                            *)
RerunIdempotent ==
  \A p \in Layer \ touched : result[p] = "drift" => disk[Place[p]] # Torn
=============================================================================
