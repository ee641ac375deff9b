----------------------------- MODULE InitRegistry -----------------------------
(***************************************************************************)
(* core/init.py: what drunken-init does to projects.json.  A registration   *)
(* reads the file, builds the new document in memory, truncates the file    *)
(* and writes it; --remove-project reads it, copies it to a backup and      *)
(* swaps a new file into place.  There is no lock, a run may be killed      *)
(* between any two steps, and a person restores a file that does not parse. *)
(***************************************************************************)
EXTENDS Naturals, FiniteSets

CONSTANTS Procs,     \* drunken-init processes
          Projects,  \* project ids
          None,      \* not registered
          Missing,   \* no such file
          Empty,     \* truncated to nothing
          Garbled,   \* neither empty nor JSON
          MaxCalls,  \* bound: runs of drunken-init
          MaxFaults, \* bound: runs killed or failed by the operating system
          MaxEdits   \* bound: repairs by a person

(* What the properties tell apart in an entry is its jira block: none, one  *)
(* with an e-mail, one without.                                             *)
Jira == {"none", "email", "no_email"}
Document == [Projects -> Jira \cup {None}]
Unreadable == {Empty, Garbled}

ASSUME RegistryAssumption ==
  /\ None \notin Projects /\ None \notin Jira
  /\ Missing \notin Unreadable /\ (Unreadable \cup {Missing}) \cap Document = {}
  /\ MaxCalls \in Nat /\ MaxFaults \in Nat /\ MaxEdits \in Nat

VARIABLES file,     \* what the registry's path holds
          pc,       \* where each process is
          doc,      \* the document a process holds in memory
          about,    \* the project it was started for
          detached, \* its open file has been replaced at the path
          backups,  \* what the .bak files hold
          calls, faults, edits,
          base,     \* history: the last complete document at the path
          overlap,  \* history: two processes have been at work at once
          cut       \* history: a registration stopped between truncating and writing

vars == <<file, pc, doc, about, detached, backups, calls, faults, edits, base, overlap, cut>>

NoDocument == [i \in Projects |-> None]
Running(p) == pc[p] # "idle"
Ends(p) ==
  /\ pc' = [pc EXCEPT ![p] = "idle"]
  /\ doc' = [doc EXCEPT ![p] = NoDocument]
  /\ about' = [about EXCEPT ![p] = None]

Init ==
  /\ file \in Document \cup {Missing}
  /\ base = IF file = Missing THEN NoDocument ELSE file
  /\ about = [p \in Procs |-> None]
  /\ pc = [p \in Procs |-> "idle"] /\ doc = [p \in Procs |-> NoDocument]
  /\ detached = [p \in Procs |-> FALSE]
  /\ backups = {}
  /\ calls = 0 /\ faults = 0 /\ edits = 0
  /\ overlap = FALSE /\ cut = FALSE

-----------------------------------------------------------------------------
(* _ensure_registry_document: a missing file is an empty registry, one that *)
(* does not parse is refused; registry.py reads the latter as empty too.    *)
ReadsCorruptAsEmpty(content) == TRUE    \* slip: the reader of registry.py
Reads(content) == content \notin Unreadable

Contents == IF file \in Document THEN file ELSE NoDocument

Begins(p, i, step, document) ==
  /\ ~Running(p) /\ calls < MaxCalls /\ calls' = calls + 1
  /\ pc' = [pc EXCEPT ![p] = step]
  /\ doc' = [doc EXCEPT ![p] = document]
  /\ about' = [about EXCEPT ![p] = i]
  /\ overlap' = (overlap \/ \E q \in Procs : Running(q))
  /\ UNCHANGED <<file, detached, backups, faults, edits, base, cut>>

(* The jira block of the entry: the four --jira-* options replace it together, *)
(* and then the config repo's jira.json, which may hold no e-mail, replaces it *)
(* whole.                                                                      *)
JiraBySomeOptions(old, options) ==  \* slip: fewer than all four options do
  IF options THEN "some" ELSE IF old = None THEN "none" ELSE old
JiraByOptions(old, options) ==
  IF options THEN "email" ELSE IF old = None THEN "none" ELSE old
JiraAfter(old, options, fragment) ==
  IF fragment THEN "no_email" ELSE JiraByOptions(old, options)

(* main() up to _write: everything that can be refused is refused here.     *)
(* Without --project the document is written back as it was read.           *)
Register(p, i, options, fragment) ==
  /\ Reads(file)
  /\ Begins(p, i, "write", IF i = None THEN Contents
              ELSE [Contents EXCEPT ![i] = JiraAfter(@, options, fragment)])

(* _run_remove_project: the id must be registered. *)
Remove(p, i) ==
  /\ file # Missing /\ Reads(file)
  /\ Contents[i] # None
  /\ Begins(p, i, "backup", [Contents EXCEPT ![i] = None])

-----------------------------------------------------------------------------
(* open(registry_file, "w"). *)
Truncate(p) ==
  /\ pc[p] = "write"
  /\ file' = Empty
  /\ pc' = [pc EXCEPT ![p] = "dump"]
  /\ detached' = [detached EXCEPT ![p] = FALSE]
  /\ UNCHANGED <<doc, about, backups, calls, faults, edits, base, overlap, cut>>

(* json.dump into the open file, from its beginning: over what another      *)
(* writer put there meanwhile, the end of which may show; into nowhere, if  *)
(* the path has been given another file.                                    *)
Dump(p) ==
  /\ pc[p] = "dump"
  /\ file' \in IF detached[p] THEN {file}
               ELSE IF file = Empty THEN {doc[p]} ELSE {doc[p], Garbled}
  /\ base' = IF file' \in Document THEN file' ELSE base
  /\ Ends(p)
  /\ UNCHANGED <<detached, backups, calls, faults, edits, overlap, cut>>

(* _backup_registry reads the file again and writes a name never used.      *)
BackUpBy(p, kept) ==
  /\ pc[p] = "backup"
  /\ backups' = backups \cup kept
  /\ pc' = [pc EXCEPT ![p] = "swap"]
  /\ UNCHANGED <<file, doc, about, detached, calls, faults, edits, base, overlap, cut>>
BackUpNew(p) == BackUpBy(p, {doc[p]})     \* slip: the document without the entry
BackUp(p) == BackUpBy(p, {file})

(* _swap_registry: a temporary file, complete, replaces the registry.       *)
Replaces(p, content) ==
  /\ pc[p] = "swap"
  /\ file' = content
  /\ base' = IF content \in Document THEN content ELSE base
  /\ detached' = [q \in Procs |-> detached[q] \/ pc[q] = "dump"]
  /\ Ends(p)
  /\ UNCHANGED <<backups, calls, faults, edits, overlap, cut>>
SwapUnflushed(p) ==    \* slip: os.replace before the temporary file is closed
  \E content \in {doc[p], Garbled} : Replaces(p, content)
Swap(p) == Replaces(p, doc[p])

(* The process is killed, or the operating system fails its next step.  A   *)
(* backup or a temporary file it had begun is left over, the first of them  *)
(* under a name nothing reads.                                              *)
Dies(p) ==
  /\ Running(p) /\ faults < MaxFaults /\ faults' = faults + 1
  /\ IF pc[p] = "dump"
     THEN /\ cut' = TRUE
          /\ file' \in IF detached[p] THEN {file} ELSE {file, Garbled}
     ELSE UNCHANGED <<cut, file>>
  /\ Ends(p)
  /\ UNCHANGED <<detached, backups, calls, edits, base, overlap>>

Guild ==
  \/ \E p \in Procs : Truncate(p) \/ Dump(p) \/ BackUp(p) \/ Swap(p) \/ Dies(p)
  \/ \E p \in Procs, i \in Projects \cup {None} : \E options, fragment \in BOOLEAN :
       Register(p, i, options, fragment)
  \/ \E p \in Procs, i \in Projects : Remove(p, i)

(* "Fix or remove the file, then run drunken-init again." *)
PersonRepairs ==
  /\ file \in Unreadable /\ \A p \in Procs : ~Running(p)
  /\ edits < MaxEdits /\ edits' = edits + 1
  /\ file' \in (backups \cap Document) \cup {base, Missing}
  /\ base' = IF file' = Missing THEN NoDocument ELSE file'
  /\ UNCHANGED <<pc, doc, about, detached, backups, calls, faults, overlap, cut>>

Next == Guild \/ PersonRepairs
Spec == Init /\ [][Next]_vars

-----------------------------------------------------------------------------
TypeOK ==
  /\ file \in Document \cup Unreadable \cup {Missing}
  /\ pc \in [Procs -> {"idle", "write", "dump", "backup", "swap"}]
  /\ about \in [Procs -> Projects \cup {None}]
  /\ doc \in [Procs -> Document] /\ detached \in [Procs -> BOOLEAN]
  /\ backups \subseteq Document \cup Unreadable
  /\ \A p \in Procs : pc[p] = "backup" => file # Missing
  /\ calls \in 0..MaxCalls /\ faults \in 0..MaxFaults /\ edits \in 0..MaxEdits
  /\ base \in Document /\ overlap \in BOOLEAN /\ cut \in BOOLEAN

(* Runs that do not overlap, killed at any point, leave every other project's *)
(* entry as it was: between one complete registry and the next only the entry *)
(* the run was started for differs, however many broken files and refused     *)
(* runs lie between the two.                                                  *)
OthersKept ==
  [][~overlap' /\ edits' = edits =>
       \A i \in Projects : base'[i] # base[i] => \E p \in Procs : about[p] = i]_vars

(* The only ways to a registry that does not parse are a registration killed *)
(* while it writes and two runs at once; no death of --remove-project is one. *)
UnreadableOnlyIfCut ==
  file \in Unreadable => cut \/ overlap \/ \E p \in Procs : pc[p] = "dump"

(* A backup from before the removal holds every entry a removal takes away,  *)
(* for runs that do not overlap: the last one removed can be put back.       *)
RemovedIsBackedUp ==
  [][~overlap' /\ edits' = edits =>
       \A i \in Projects : base[i] # None /\ base'[i] = None =>
          \E b \in backups \cap Document : b[i] = base[i]]_vars
=============================================================================
