----------------------------- MODULE SettingsHook -----------------------------
(***************************************************************************)
(* core/install.py: `drunken-install hook --apply` and `--remove` put the   *)
(* guild's two hooks into the user's settings.json, or take them out, one   *)
(* event after the other: plan, read, parse, back up, look for a concurrent *)
(* edit, replace the file.  Nothing is locked: other runs, the person and   *)
(* the host that owns the file change it between any two of these steps.    *)
(***************************************************************************)
EXTENDS Naturals, Sequences, FiniteSets

CONSTANTS Procs,     \* drunken-install processes
          Keys,      \* what the file holds beside the hooks
          Bare,      \* nothing beside the hooks
          Absent,    \* no such file
          Garbled,   \* not a JSON object
          MaxRuns,   \* bound: runs of drunken-install hook
          MaxEdits,  \* bound: changes by the person or the host
          MaxFaults  \* bound: runs killed

Events == {"SessionStart", "UserPromptSubmit"}

(* An entry of an event holds the guild's command, others' commands or both. *)
Entry == {"guild", "other", "shared"}
Settings == [keys : Keys, hooks : [Events -> Seq(Entry)]]
IsSettings(text) == text \notin {Absent, Garbled}

ASSUME SettingsAssumption ==
  /\ Absent # Garbled /\ Absent \notin Settings /\ Garbled \notin Settings
  /\ Bare \in Keys
  /\ MaxRuns \in Nat /\ MaxEdits \in Nat /\ MaxFaults \in Nat

VARIABLES file,      \* what settings.json holds
          pc,        \* where each process is
          event,     \* the event it is working on
          remove,    \* --remove, not --apply
          mem,       \* original: the bytes it read first; loaded: the text it parsed
                     \* (history); doc: the document it parsed, then the one it writes
          outcome,   \* how its last run ended
          backups,   \* what the .bak files hold
          runs, edits, faults,
          stable     \* history: its steps after which nobody else changed the file

vars == <<file, pc, event, remove, mem, outcome, backups, runs, edits, faults, stable>>

NoHooks == [e \in Events |-> <<>>]
Empty == [keys |-> Bare, hooks |-> NoHooks]    \* {}
Nothing == [original |-> Absent, loaded |-> Absent, doc |-> Empty]
Running(p) == pc[p] # "idle"

Init ==
  /\ file \in {Absent, Garbled} \cup
       {[keys |-> Bare, hooks |-> [e \in Events |-> entries]] :
          entries \in {<<>>, <<"other">>, <<"guild">>, <<"shared">>}}
  /\ pc = [p \in Procs |-> "idle"]
  /\ event = [p \in Procs |-> "SessionStart"] /\ remove = [p \in Procs |-> FALSE]
  /\ mem = [p \in Procs |-> Nothing]
  /\ outcome = [p \in Procs |-> "none"]
  /\ backups = {} /\ runs = 0 /\ edits = 0 /\ faults = 0
  /\ stable = [p \in Procs |-> {}]

-----------------------------------------------------------------------------
(* _is_guild_entry: any of the entry's commands. *)
IsGuildAlone(entry) == entry = "guild"      \* slip: all of them
IsGuild(entry) == entry \in {"guild", "shared"}
HasGuild(settings, e) == \E i \in DOMAIN settings.hooks[e] : IsGuild(settings.hooks[e][i])

(* The entries that are not in a set, in order. *)
Without(entries, drop) ==
  LET kept[n \in 0 .. Len(entries)] ==
        IF n = 0 THEN <<>>
        ELSE IF entries[n] \in drop THEN kept[n-1] ELSE Append(kept[n-1], entries[n])
  IN  kept[Len(entries)]

(* _merge_add and _merge_remove: a removed entry goes with all it holds. *)
Merged(settings, e, removing) ==
  [settings EXCEPT !.hooks[e] =
     IF removing THEN Without(@, {entry \in Entry : IsGuild(entry)}) ELSE Append(@, "guild")]

(* A step of p that others see nothing of, and one that changes the file. *)
Notes(p, step) == stable' = [stable EXCEPT ![p] = @ \cup {step}]
Disturbs(p) == stable' = [q \in Procs |-> IF q = p THEN stable[q] ELSE {}]

Ends(p, how) ==
  /\ pc' = [pc EXCEPT ![p] = "idle"]
  /\ mem' = [mem EXCEPT ![p] = Nothing]
  /\ outcome' = [outcome EXCEPT ![p] = how]

(* _run_hook: the session hook first, then the route hook. *)
Begin(p, removing) ==
  /\ ~Running(p) /\ runs < MaxRuns /\ runs' = runs + 1
  /\ pc' = [pc EXCEPT ![p] = "plan"]
  /\ event' = [event EXCEPT ![p] = "SessionStart"]
  /\ remove' = [remove EXCEPT ![p] = removing]
  /\ outcome' = [outcome EXCEPT ![p] = "running"]
  /\ stable' = [stable EXCEPT ![p] = {"begin"}]
  /\ UNCHANGED <<file, mem, backups, edits, faults>>

NextEvent(p) ==
  IF event[p] = "SessionStart"
  THEN /\ event' = [event EXCEPT ![p] = "UserPromptSubmit"]
       /\ pc' = [pc EXCEPT ![p] = "plan"]
       /\ mem' = [mem EXCEPT ![p] = Nothing]
       /\ UNCHANGED outcome
  ELSE Ends(p, "done") /\ UNCHANGED event

(* plan_hook: there is something to add, or something to remove. *)
ToDoCopied(p) ==                            \* slip: the twin asks of the first event
  IF file = Absent THEN ~remove[p] ELSE HasGuild(file, "SessionStart") = remove[p]
ToDo(p) ==
  IF file = Absent THEN ~remove[p] ELSE HasGuild(file, event[p]) = remove[p]

Plan(p) ==
  /\ pc[p] = "plan"
  /\ IF file = Garbled THEN Ends(p, "failed") /\ UNCHANGED event
     ELSE IF ToDo(p) THEN pc' = [pc EXCEPT ![p] = "read"] /\ UNCHANGED <<event, outcome, mem>>
     ELSE NextEvent(p)
  /\ stable' = [stable EXCEPT ![p] = (@ \cap {"begin"}) \cup {"plan"}]
  /\ UNCHANGED <<file, remove, backups, runs, edits, faults>>

(* settings_path.read_bytes(), if there is a file; {} if there is none. *)
Read(p) ==
  /\ pc[p] = "read"
  /\ IF file = Absent
     THEN /\ mem' = [mem EXCEPT ![p].doc = Merged(Empty, event[p], remove[p])]
          /\ pc' = [pc EXCEPT ![p] = "replace"]
     ELSE /\ mem' = [mem EXCEPT ![p].original = file]
          /\ pc' = [pc EXCEPT ![p] = "load"]
  /\ Notes(p, "read")
  /\ UNCHANGED <<file, event, remove, outcome, backups, runs, edits, faults>>

(* _load_settings reads the file a second time. *)
ParsesAnything(text) == text # Absent       \* slip: not even an object is asked for
Parses(text) == IsSettings(text)
Load(p) ==
  /\ pc[p] = "load"
  /\ IF Parses(file)
     THEN /\ mem' = [mem EXCEPT ![p].doc = file, ![p].loaded = file]
          /\ pc' = [pc EXCEPT ![p] = "backup"]
          /\ UNCHANGED outcome
     ELSE Ends(p, "failed")
  /\ UNCHANGED <<file, event, remove, backups, runs, edits, faults, stable>>

(* _backup opens the .bak, then reads the file a third time: an empty .bak   *)
(* stays where that fails.  The merge happens in memory.                     *)
BackUpOf(p, text) ==
  /\ pc[p] = "backup"
  /\ IF file = Absent
     THEN Ends(p, "failed") /\ backups' = backups \cup {Garbled}
     ELSE /\ backups' = backups \cup {text}
          /\ mem' = [mem EXCEPT ![p].doc = Merged(@, event[p], remove[p])]
          /\ pc' = [pc EXCEPT ![p] = "check"]
          /\ UNCHANGED outcome
  /\ UNCHANGED <<file, event, remove, runs, edits, faults, stable>>
BackUpMerged(p) == BackUpOf(p, Merged(mem[p].doc, event[p], remove[p]))  \* slip: too late
BackUp(p) == BackUpOf(p, file)

(* The last read: a file that is not what was read first is left alone. *)
UnchangedAs(p) == file # Absent             \* slip: it is only looked for
Unchanged(p) == file = mem[p].original
Check(p) ==
  /\ pc[p] = "check"
  /\ IF Unchanged(p) THEN pc' = [pc EXCEPT ![p] = "replace"] /\ UNCHANGED <<outcome, mem>>
     ELSE Ends(p, "failed")
  /\ Notes(p, "check")
  /\ UNCHANGED <<file, event, remove, backups, runs, edits, faults>>

(* _write_json_atomic. *)
Replace(p) ==
  /\ pc[p] = "replace"
  /\ file' = mem[p].doc
  /\ NextEvent(p)
  /\ Disturbs(p)
  /\ UNCHANGED <<remove, backups, runs, edits, faults>>

Dies(p) ==
  /\ Running(p) /\ faults < MaxFaults /\ faults' = faults + 1
  /\ Ends(p, "failed")
  /\ \/ UNCHANGED backups
     \/ pc[p] = "backup" /\ backups' = backups \cup {Garbled}
  /\ UNCHANGED <<file, event, remove, runs, edits, stable>>

-----------------------------------------------------------------------------
(* What a person, or the host, makes of the file: other keys, a hook of     *)
(* their own in an entry of its own or in the guild's, an entry less, a     *)
(* backup put back, no file, or one that does not parse.                    *)
Edited ==
  IF ~IsSettings(file) THEN backups \cup {Empty, Absent}
  ELSE {[file EXCEPT !.keys = k] : k \in Keys}
       \cup {[file EXCEPT !.hooks[e] = Append(@, "other")] : e \in Events}
       \cup (UNION {{[file EXCEPT !.hooks[e] = [@ EXCEPT ![i] = "shared"]] :
                        i \in DOMAIN file.hooks[e]} : e \in Events})
       \cup {[file EXCEPT !.hooks[e] = Tail(@)] : e \in {x \in Events : file.hooks[x] # <<>>}}
       \cup backups \cup {Absent, Garbled}

PersonEdits ==
  /\ edits < MaxEdits /\ edits' = edits + 1
  /\ file' \in Edited \ {file}
  /\ stable' = [p \in Procs |-> {}]
  /\ UNCHANGED <<pc, event, remove, mem, outcome, backups, runs, faults>>

Guild ==
  \E p \in Procs :
    \/ \E removing \in BOOLEAN : Begin(p, removing)
    \/ Plan(p) \/ Read(p) \/ Load(p) \/ BackUp(p) \/ Check(p) \/ Replace(p) \/ Dies(p)

Next == Guild \/ PersonEdits
Spec == Init /\ [][Next]_vars

-----------------------------------------------------------------------------
(* Types.  What is merged and written is always a settings document; a       *)
(* process has an outcome pending exactly while it runs.                     *)
TypeOK ==
  /\ file \in Settings \cup {Absent, Garbled}
  /\ pc \in [Procs -> {"idle", "plan", "read", "load", "backup", "check", "replace"}]
  /\ event \in [Procs -> Events] /\ remove \in [Procs -> BOOLEAN]
  /\ mem \in [Procs -> [original : Settings \cup {Absent, Garbled},
                         loaded : Settings \cup {Absent}, doc : Settings]]
  /\ outcome \in [Procs -> {"none", "running", "failed", "done"}]
  /\ backups \subseteq Settings \cup {Garbled}
  /\ runs \in 0..MaxRuns /\ edits \in 0..MaxEdits /\ faults \in 0..MaxFaults
  /\ stable \in [Procs -> SUBSET {"begin", "plan", "read", "check"}]
  /\ \A p \in Procs : (outcome[p] = "running") <=> Running(p)

Replaces(p) == pc[p] = "replace" /\ pc'[p] # "replace" /\ file' # file

(* "Must abort rather than have its edit silently overwritten": whoever      *)
(* changes the file during a run, other keys and others' hooks are in it     *)
(* after the run has replaced it, as they were before.  Excepted are three   *)
(* cases the code does not see: a change after its last look, a change made  *)
(* before the second read and unmade after it, and a file it did not find    *)
(* at first; and what shares an entry that is removed.                       *)
Others(settings, p) ==
  [e \in Events |->
     Without(settings.hooks[e],
             {"guild"} \cup IF remove[p] /\ e = event[p] THEN {"shared"} ELSE {})]
OthersKept ==
  [][\A p \in Procs :
       /\ Replaces(p) /\ "check" \in stable[p] /\ mem[p].loaded = mem[p].original
       => /\ IsSettings(file) /\ file'.keys = file.keys
          /\ Others(file', p) = Others(file, p)]_vars

(* "Idempotent": a run that finds the file as it planned for never leaves an *)
(* event with a second entry of the guild's that was not there before.       *)
GuildEntries(settings, e) ==
  {i \in DOMAIN settings.hooks[e] : settings.hooks[e][i] \in {"guild", "shared"}}
NoSecondEntry ==
  [][\A p \in Procs :
       Replaces(p) /\ "plan" \in stable[p] =>
         \A e \in Events : \/ Cardinality(GuildEntries(file', e)) <= 1
                           \/ file'.hooks[e] = file.hooks[e]]_vars

(* "One command, same safety for both": a run that reports success and that  *)
(* nobody interfered with has put both hooks in, or taken both out.          *)
BothOrNeither ==
  \A p \in Procs : outcome[p] = "done" /\ "begin" \in stable[p] =>
    \A e \in Events : (file # Absent /\ GuildEntries(file, e) # {}) = ~remove[p]

(* What a run replaces can be put back: whatever came before and whoever     *)
(* runs beside it, a file that nobody has changed since the run first read   *)
(* it is in a backup by the time it is replaced, as it was.  What the backup *)
(* misses is a change made or unmade around the third read, which makes it.  *)
ReplacedIsBackedUp ==
  [][\A p \in Procs :
       Replaces(p) /\ "read" \in stable[p] /\ file # Absent => file \in backups]_vars
=============================================================================
