--------------------------------- MODULE Reap ---------------------------------
(***************************************************************************)
(* core/orphans.py and the `reap` command of core/install.py: processes    *)
(* that a session left behind, and processes that hold files of the        *)
(* installed tool, are planned from one reading of the process table,      *)
(* verified against a second and terminated one by one, each confirmed by  *)
(* another.  Meanwhile processes exit, start and take over pids.  As on    *)
(* Windows, which the command is for, a process outlives its parent and    *)
(* goes on naming the parent's pid.                                        *)
(***************************************************************************)
EXTENDS Naturals, Sequences, FiniteSets, FiniteSetsExt, Functions

CONSTANTS Pids,         \* process ids
          Self,         \* the pid of this `drunken-install reap`
          Trees,        \* process tables to start from
          Gone,         \* no process has that pid
          MaxExits,     \* bound: exits that are not reap's doing
          MaxStarts     \* bound: processes started

Kinds == {"explorer", "app", "session", "terminal", "shell", "command", "server", "worker",
          "reap"}
ASSUME ReapAssumption ==
  /\ Self \in Pids /\ Pids \subseteq Nat \ {0} /\ IsFiniteSet(Pids)
  /\ Gone \notin [parent : Nat, born : Nat, kind : Kinds] \cup [pid : Nat, born : Nat]
  /\ MaxExits \in Nat /\ MaxStarts \in Nat
  /\ \A tree \in Trees :
       /\ tree \in [Pids -> [parent : Pids \cup {0}, born : {0}, kind : Kinds] \cup {Gone}]
       /\ tree[Self] # Gone /\ tree[Self].kind = "reap"

VARIABLES procs,        \* the processes there are, by pid
          exits, starts,
          stage,        \* the list that is worked on: plain orphans, then held ones
          at,           \* where reap is
          includeHeld,  \* --include-held
          planTable,    \* the table the plan was made from
          orphans, held,
          snapshot,     \* the table the candidates of this stage are verified against
          todo,         \* candidates of this stage that are left
          target,       \* the one whose termination is to be confirmed
          terminated, skipped,
          struck        \* history: the processes that a termination was sent to

reapVars == <<procs, exits, starts, stage, at, includeHeld, planTable, orphans, held, snapshot,
              todo, target, terminated, skipped, struck>>
tools == <<procs, exits, starts>>
plan == <<includeHeld, planTable, orphans, held>>
result == <<terminated, skipped>>

-----------------------------------------------------------------------------
(* What a command line tells.                                              *)

(* is_session_leftover: bash -c, or drunken-jira-mcp. *)
IsSessionLeftover(kind) == kind \in {"command", "server"}
(* is_inside_guild_tool: a shim, or the tool environment's own python. *)
IsInsideGuildTool(kind) == kind \in {"server", "worker", "reap"}
(* _is_shell_or_interpreter: never a session of its own. *)
NothingIsShell(kind) == FALSE      \* slip: the rule of review round 3
IsShellOrInterpreter(kind) == kind \in {"shell", "command", "server", "worker", "reap"}

(* A table and what is found in it. *)
Live(table) == {p \in Pids : table[p] # Gone}
ParentAlive(table, p) == table[p].parent \in Live(table)
Children(table, p) == {q \in Live(table) : table[q].parent = p}

(* _ancestor_chain: nearest first, up to a parent that is not there or was  *)
(* met before.                                                              *)
AncestorChain(table, pid) ==
  LET up[n \in 0 .. Cardinality(Pids)] ==
        IF n = 0 THEN <<pid>>
        ELSE LET chain == up[n - 1]
                 last == chain[Len(chain)]
             IN  IF /\ last \in Live(table) /\ ParentAlive(table, last)
                    /\ table[last].parent \notin Range(chain)
                 THEN Append(chain, table[last].parent) ELSE chain
  IN  up[Cardinality(Pids)]

(* _session_root: the nearest ancestor, no shell, with a sibling of the     *)
(* same executable or directly below the Explorer; else the nearest that is *)
(* no shell from two steps up; else the last.                               *)
OneOfSeveral(table, p) ==
  \/ \E q \in Children(table, table[p].parent) \ {p} : table[q].kind = table[p].kind
  \/ table[table[p].parent].kind = "explorer"
SessionRoot(table, chain) ==
  LET signed == {i \in 2..Len(chain) : /\ ~IsShellOrInterpreter(table[chain[i]].kind)
                                       /\ ParentAlive(table, chain[i])
                                       /\ OneOfSeveral(table, chain[i])}
      plain == {i \in 3..Len(chain) : ~IsShellOrInterpreter(table[chain[i]].kind)}
  IN  chain[IF signed # {} THEN Min(signed) ELSE IF plain # {} THEN Min(plain) ELSE Len(chain)]

(* protected_pids: the chain, and what lies under the root.  A child that   *)
(* is protected already, as the chain is, is not looked under.              *)
ProtectedPids(table) ==
  LET chain == AncestorChain(table, Self)
      root == SessionRoot(table, chain)
      under[n \in 0 .. Cardinality(Pids)] ==
        IF n = 0 THEN Children(table, root) \ Range(chain)
        ELSE LET found == under[n - 1]
             IN  found \cup UNION {Children(table, p) \ Range(chain) : p \in found}
  IN  Range(chain) \cup under[Cardinality(Pids)]

-----------------------------------------------------------------------------
Candidate(p) == [pid |-> p, born |-> procs[p].born]

ReapInit ==
  /\ procs \in Trees /\ exits = 0 /\ starts = 0
  /\ stage = "orphans" /\ at = "start" /\ includeHeld \in BOOLEAN
  /\ planTable = procs /\ snapshot = procs
  /\ orphans = {} /\ held = {} /\ todo = {} /\ target = Gone
  /\ terminated = {} /\ skipped = {} /\ struck = {}

(* _reap_plan: find_orphans, and the lock holders whose parent is dead, as  *)
(* orphans; the other lock holders are held.                                *)
MakePlan ==
  /\ at = "start" /\ at' = "look"
  /\ LET open == Live(procs) \ ProtectedPids(procs)
         dead == {p \in open : ~ParentAlive(procs, p)}
     IN  /\ orphans' = {Candidate(p) : p \in {q \in dead : \/ IsSessionLeftover(procs[q].kind)
                                                           \/ IsInsideGuildTool(procs[q].kind)}}
         /\ held' = {Candidate(p) : p \in {q \in open \ dead : IsInsideGuildTool(procs[q].kind)}}
  /\ planTable' = procs
  /\ UNCHANGED <<tools, stage, includeHeld, snapshot, todo, target, result, struck>>

(* apply_reap and apply_lock_holders: nothing is read for an empty list. *)
Planned == IF stage = "orphans" THEN orphans ELSE held
Look ==
  /\ at = "look" /\ Planned # {}
  /\ at' = "verify" /\ snapshot' = procs /\ todo' = Planned
  /\ UNCHANGED <<tools, plan, stage, target, result, struck>>

NextStage ==
  /\ \/ at = "look" /\ Planned = {}
     \/ at = "verify" /\ todo = {}
  /\ IF stage = "orphans" THEN stage' = "held" /\ at' = "look"
     ELSE at' = "done" /\ UNCHANGED stage
  /\ UNCHANGED <<tools, plan, snapshot, todo, target, result, struck>>

(* The process table cannot be read: the command ends. *)
CannotLook ==
  /\ \/ at = "start"
     \/ at = "look" /\ Planned # {}
  /\ at' = "failed"
  /\ UNCHANGED <<tools, plan, stage, snapshot, todo, target, result, struck>>

(* The same process as was planned, still an orphan, and not protected. *)
VerifiedByPid(c) ==                \* slip: the start time is not compared
  /\ c.pid \notin ProtectedPids(snapshot)
  /\ c.pid \in Live(snapshot)
  /\ ParentAlive(snapshot, c.pid) => stage = "held" /\ includeHeld
Verified(c) ==
  /\ c.pid \notin ProtectedPids(snapshot)
  /\ c.pid \in Live(snapshot) /\ snapshot[c.pid].born = c.born
  /\ ParentAlive(snapshot, c.pid) => stage = "held" /\ includeHeld

Skip(c) ==
  /\ at = "verify" /\ ~Verified(c)
  /\ skipped' = skipped \cup {c} /\ todo' = todo \ {c}
  /\ UNCHANGED <<tools, plan, stage, at, snapshot, target, terminated, struck>>

(* terminate_process for a pid that nobody has any more: ProcessLookupError *)
(* counts as done, a taskkill that fails does not.                          *)
AlreadyGone(c) ==
  /\ at = "verify" /\ Verified(c) /\ procs[c.pid] = Gone
  /\ \/ terminated' = terminated \cup {c} /\ UNCHANGED skipped
     \/ skipped' = skipped \cup {c} /\ UNCHANGED terminated
  /\ todo' = todo \ {c}
  /\ UNCHANGED <<tools, plan, stage, at, snapshot, target, struck>>

(* Access denied, or any other failure.  It stops this candidate only. *)
RefusedAborts(c) ==                \* slip: it stops the rest as well
  /\ at = "verify" /\ Verified(c) /\ procs[c.pid] # Gone
  /\ skipped' = skipped \cup {c} /\ todo' = {}
  /\ UNCHANGED <<tools, plan, stage, at, snapshot, target, terminated, struck>>
Refused(c) ==
  /\ at = "verify" /\ Verified(c) /\ procs[c.pid] # Gone
  /\ skipped' = skipped \cup {c} /\ todo' = todo \ {c}
  /\ UNCHANGED <<tools, plan, stage, at, snapshot, target, terminated, struck>>

(* Sent to whoever has the pid now: it exits at once, or does not yet. *)
Terminate(c) ==
  /\ at = "verify" /\ Verified(c) /\ procs[c.pid] # Gone
  /\ \/ procs' = [procs EXCEPT ![c.pid] = Gone]
     \/ UNCHANGED procs
  /\ struck' = struck \cup {Candidate(c.pid)}
  /\ target' = c /\ at' = "confirm" /\ todo' = todo \ {c}
  /\ UNCHANGED <<exits, starts, plan, stage, snapshot, result>>

(* _attempt_terminate: gone or another process now, or else "still running" *)
(* or the table cannot be read.                                             *)
ConfirmedAlways(c) == TRUE         \* slip: an accepted signal is taken for a death
Confirmed(c) == ~ (c.pid \in Live(procs) /\ procs[c.pid].born = c.born)
Confirm ==
  /\ at = "confirm"
  /\ \/ Confirmed(target) /\ terminated' = terminated \cup {target} /\ UNCHANGED skipped
     \/ skipped' = skipped \cup {target} /\ UNCHANGED terminated
  /\ at' = "verify" /\ target' = Gone
  /\ UNCHANGED <<tools, plan, stage, snapshot, todo, struck>>

-----------------------------------------------------------------------------
Exits(p) ==
  /\ p # Self /\ procs[p] # Gone
  /\ exits < MaxExits /\ exits' = exits + 1
  /\ procs' = [procs EXCEPT ![p] = Gone]
  /\ UNCHANGED <<starts, stage, at, plan, snapshot, todo, target, result, struck>>

(* A pid that is free is handed out, never twice within the resolution of   *)
(* a start time.                                                            *)
Spawns(kind) ==
  CASE kind = "app" -> {"session"}
    [] kind = "session" -> {"shell", "command", "server"}
    [] kind = "server" -> {"worker"}
    [] OTHER -> {}
Starts(p, q) ==
  /\ procs[p] # Gone /\ procs[q] = Gone
  /\ starts < MaxStarts /\ starts' = starts + 1
  /\ \E kind \in Spawns(procs[p].kind) :
       procs' = [procs EXCEPT ![q] = [parent |-> p, born |-> starts', kind |-> kind]]
  /\ UNCHANGED <<exits, stage, at, plan, snapshot, todo, target, result, struck>>

Reaps ==
  \/ MakePlan \/ Look \/ NextStage \/ CannotLook \/ Confirm
  \/ \E c \in todo : Skip(c) \/ AlreadyGone(c) \/ Refused(c) \/ Terminate(c)

ReapNext ==
  \/ Reaps
  \/ at \in {"look", "verify", "confirm"} /\ \E p \in Pids : Exits(p) \/ \E q \in Pids : Starts(p, q)

ReapSpec == ReapInit /\ [][ReapNext]_reapVars

-----------------------------------------------------------------------------
Table == [Pids -> [parent : Pids \cup {0}, born : 0..MaxStarts, kind : Kinds] \cup {Gone}]
Candidates == [pid : Pids, born : 0..MaxStarts]
(* Types.  Reap itself runs until it is done: nothing else can end it here, *)
(* and it never ends itself.                                                *)
ReapTypeOK ==
  /\ procs \in Table /\ planTable \in Table /\ snapshot \in Table
  /\ exits \in 0..MaxExits /\ starts \in 0..MaxStarts
  /\ stage \in {"orphans", "held"}
  /\ at \in {"start", "look", "verify", "confirm", "done", "failed"}
  /\ includeHeld \in BOOLEAN
  /\ orphans \subseteq Candidates /\ held \subseteq Candidates /\ todo \subseteq Planned
  /\ (at = "confirm") = (target # Gone) /\ target \in Candidates \cup {Gone}
  /\ terminated \subseteq Candidates /\ skipped \subseteq Candidates /\ struck \subseteq Candidates
  /\ procs[Self] # Gone

NewlyStruck == struck' \ struck

(* "Exactly the ids a prior call named": a process that had its pid when    *)
(* the table was last read is struck only if the plan named it and no other *)
(* of that number; and one whose parent is the one it had at the plan, only *)
(* if it is a lock holder and --include-held was given.                     *)
OnlyPlanned ==
  [][\A v \in NewlyStruck :
       /\ snapshot[v.pid] = procs[v.pid] => v \in orphans \cup held
       /\ LET me == procs[v.pid]
          IN  /\ planTable[v.pid] = me /\ me.parent \in Live(procs)
              /\ planTable[me.parent] = procs[me.parent]
              => includeHeld /\ IsInsideGuildTool(me.kind)]_reapVars

(* "Never stopped": reap's own chain is not struck, and nothing that hangs  *)
(* directly on the program which reap was started from, the nearest that is *)
(* no shell, whatever processes exit or start - if, when reap last looks,   *)
(* its chain to that program is whole and the program is one of several or  *)
(* right below the Explorer.  HangsOn is the first of reap's chain that a   *)
(* process is below.                                                        *)
NoPid == 0
FirstOf(chain, wanted) ==
  LET those == {i \in DOMAIN chain : chain[i] \in wanted}
  IN  IF those = {} THEN NoPid ELSE chain[Min(those)]
Programs == {"explorer", "app", "session", "terminal"}
OwnSession(table) ==
  FirstOf(AncestorChain(table, Self), {p \in Live(table) : table[p].kind \in Programs})
HangsOn(table, p) == FirstOf(AncestorChain(table, p), Range(AncestorChain(table, Self)))
SessionSpared ==
  [][\A v \in NewlyStruck : snapshot[v.pid] = procs[v.pid] =>
       LET own == OwnSession(snapshot)
       IN  /\ HangsOn(snapshot, v.pid) # v.pid
           /\ HangsOn(snapshot, v.pid) = own /\ own # NoPid =>
                ~ (ParentAlive(snapshot, own) /\ OneOfSeveral(snapshot, own))]_reapVars

(* "Confirmed before being counted" and "never stops the rest of the plan": *)
(* what is reported as terminated is gone, though its pid may be another's, *)
(* and at the end every candidate has been reported once and nothing else.  *)
ReportIsTrue ==
  /\ \A c \in terminated : procs[c.pid] = Gone \/ procs[c.pid].born # c.born
  /\ at = "done" => /\ terminated \cup skipped = orphans \cup held
                    /\ terminated \cap skipped = {}
=============================================================================
