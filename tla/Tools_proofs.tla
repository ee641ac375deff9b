----------------------------- MODULE Tools_proofs -----------------------------
(***************************************************************************)
(* What holds of the commands and servers that MCTools puts side by side,  *)
(* of each for itself and for every value of its constants.                *)
(***************************************************************************)
EXTENDS MCTools, JiraFlow_proofs, SequenceTheorems, WellFoundedInduction

(* reap: what holds for any process table, and any number of processes that  *)
(* exit and start while it works.                                            *)
(* A table and a candidate made up to now: nothing in it starts later. *)
TableBy(n) == [Pids -> [parent : Pids \cup {0}, born : 0..n, kind : Kinds] \cup {Gone}]
NamedBy(n) == [pid : Pids, born : 0..n]
ReapTyped ==
  /\ starts \in Nat /\ procs \in TableBy(starts)
  /\ planTable \in TableBy(starts) /\ snapshot \in TableBy(starts)
  /\ orphans \subseteq NamedBy(starts) /\ held \subseteq NamedBy(starts)
  /\ stage \in {"orphans", "held"} /\ todo \subseteq Planned
  /\ at \in {"start", "look", "verify", "confirm", "done", "failed"}
  /\ terminated \subseteq NamedBy(starts) /\ skipped \subseteq NamedBy(starts)

(* A pid that is not the plan's process any more never is again: if it is    *)
(* the plan's, it was so when reap last looked.                             *)
NeverBack ==
  /\ at = "start" => planTable = procs /\ snapshot = procs
  /\ \A p \in Pids : procs[p] # Gone /\ procs[p] = planTable[p] => snapshot[p] = procs[p]

(* What the plan's two lists say of the table it was made from. *)
InPlan(c) == planTable[c.pid] # Gone /\ planTable[c.pid].born = c.born
AsPlanned ==
  /\ \A c \in orphans : InPlan(c) /\ ~ParentAlive(planTable, c.pid)
  /\ \A c \in held : /\ InPlan(c) /\ ParentAlive(planTable, c.pid)
                     /\ IsInsideGuildTool(planTable[c.pid].kind)

(* Every candidate is reported once or still to come. *)
Later == IF stage = "orphans" THEN held ELSE {}
ToCome ==
  CASE at = "look" -> Planned \cup Later
    [] at = "verify" -> todo \cup Later
    [] at = "confirm" -> todo \cup {target} \cup Later
    [] OTHER -> {}
Reported == terminated \cup skipped
Accounted ==
  /\ terminated \cap skipped = {}
  /\ at = "start" => Reported = {} /\ orphans = {} /\ held = {} /\ stage = "orphans"
  /\ at \notin {"start", "failed"} =>
       Reported \cup ToCome = orphans \cup held /\ Reported \cap ToCome = {}
  /\ at = "confirm" => target \in Planned \ todo

(* What is counted as terminated is. *)
Dead(c) == procs[c.pid] = Gone \/ procs[c.pid].born # c.born
CountedDead == \A c \in terminated : Dead(c)

ReapInv == ReapTyped /\ NeverBack /\ AsPlanned /\ Accounted /\ CountedDead

-----------------------------------------------------------------------------
(* The value for no process is neither a process nor a candidate. *)
LEMMA GoneIsNone ==
  \A n \in Nat : Gone \notin [parent : Pids \cup {0}, born : 0..n, kind : Kinds]
                        \cup NamedBy(n)
<1> SUFFICES ASSUME NEW n \in Nat
             PROVE  Gone \notin [parent : Pids \cup {0}, born : 0..n, kind : Kinds] \cup NamedBy(n)
  OBVIOUS
<1>1. /\ \A p \in Pids \cup {0} : p \in Nat
      /\ \A b \in 0..n : b \in Nat
  BY ReapAssumption
<1>2. \A r \in [parent : Pids \cup {0}, born : 0..n, kind : Kinds] :
         r \in [parent : Nat, born : Nat, kind : Kinds]
  BY <1>1
<1>3. \A r \in NamedBy(n) : r \in [pid : Nat, born : Nat]
  BY <1>1 DEF NamedBy
<1> QED
  BY <1>2, <1>3, ReapAssumption

(* The one way the table changes: some process is gone, or a new one has    *)
(* the pid, younger than all that has been seen.                            *)
TableChanged(p) ==
  /\ \/ starts' = starts /\ procs' = [procs EXCEPT ![p] = Gone]
     \/ /\ starts' = starts + 1
        /\ \E new \in [parent : Pids \cup {0}, born : {starts + 1}, kind : Kinds] :
             procs' = [procs EXCEPT ![p] = new]
Same == UNCHANGED <<procs, starts>>

(* A process that starts or exits makes the table at most younger: who is *)
(* still the one of the plan was there then.                              *)
LEMMA Younger ==
  ASSUME ReapInv, NEW p \in Pids, TableChanged(p)
  PROVE  /\ starts' \in Nat /\ procs' \in TableBy(starts')
         /\ TableBy(starts) \subseteq TableBy(starts') /\ NamedBy(starts) \subseteq NamedBy(starts')
         /\ \A q \in Pids : procs'[q] # Gone /\ procs'[q] = planTable[q] =>
                              procs'[q] = procs[q] /\ procs[q] # Gone
         /\ \A c \in NamedBy(starts) : Dead(c) => Dead(c)'
<1>1. starts' \in Nat /\ starts <= starts'
  BY DEF ReapInv, ReapTyped, TableChanged
<1>2. TableBy(starts) \subseteq TableBy(starts') /\ NamedBy(starts) \subseteq NamedBy(starts')
  BY <1>1 DEF ReapInv, ReapTyped, TableBy, NamedBy
<1>3. CASE procs' = [procs EXCEPT ![p] = Gone]
  BY <1>1, <1>2, <1>3 DEF ReapInv, ReapTyped, TableBy, NamedBy, Dead
<1>4. ASSUME NEW new \in [parent : Pids \cup {0}, born : {starts + 1}, kind : Kinds],
             starts' = starts + 1, procs' = [procs EXCEPT ![p] = new]
      PROVE  /\ procs' \in TableBy(starts')
             /\ \A q \in Pids : procs'[q] # Gone /\ procs'[q] = planTable[q] =>
                                  procs'[q] = procs[q] /\ procs[q] # Gone
             /\ \A c \in NamedBy(starts) : Dead(c) => Dead(c)'
  <2>1. procs' \in TableBy(starts')
    BY <1>1, <1>2, <1>4 DEF ReapInv, ReapTyped, TableBy
  <2>2. planTable[p] # new
    BY <1>4, GoneIsNone DEF ReapInv, ReapTyped, TableBy
  <2>3. \A q \in Pids \ {p} : procs'[q] = procs[q]
    BY <1>4 DEF ReapInv, ReapTyped, TableBy
  <2>4. procs'[p] = new /\ new.born = starts + 1
    BY <1>4 DEF ReapInv, ReapTyped, TableBy
  <2>5. \A c \in NamedBy(starts) : c.pid \in Pids /\ c.born # starts + 1
    BY DEF ReapInv, ReapTyped, NamedBy
  <2> QED
    BY <2>1, <2>2, <2>3, <2>4, <2>5 DEF Dead
<1> QED
  BY <1>1, <1>2, <1>3, <1>4 DEF TableChanged

-----------------------------------------------------------------------------
(* The invariant of reap holds at its start. *)
LEMMA ReapInitHolds == ReapInit => ReapInv
<1> SUFFICES ASSUME ReapInit PROVE ReapInv
  OBVIOUS
<1>1. procs \in TableBy(starts)
  <2>1. procs \in [Pids -> [parent : Pids \cup {0}, born : {0}, kind : Kinds] \cup {Gone}]
    BY ReapAssumption DEF ReapInit
  <2> QED
    BY <2>1 DEF ReapInit, TableBy
<1>2. ReapTyped
  BY <1>1 DEF ReapInit, ReapTyped, Planned
<1>3. NeverBack /\ AsPlanned /\ Accounted /\ CountedDead
  BY DEF ReapInit, NeverBack, AsPlanned, Accounted, CountedDead, Reported
<1> QED
  BY <1>2, <1>3 DEF ReapInv

(* A step of reap that leaves the process table alone, and what the plan    *)
(* and the last look say of it.                                             *)
LEMMA TableKept ==
  ASSUME ReapInv, Same, UNCHANGED <<planTable, snapshot, orphans, held>>, at # "start", at' # "start"
  PROVE  NeverBack' /\ AsPlanned' /\ (terminated' = terminated => CountedDead')
<1>1. NeverBack'
  BY DEF ReapInv, Same, NeverBack
<1>2. AsPlanned'
  BY DEF ReapInv, AsPlanned, InPlan, ParentAlive, Live
<1>3. terminated' = terminated => CountedDead'
  BY DEF ReapInv, Same, CountedDead, Dead
<1> QED
  BY <1>1, <1>2, <1>3

(* And one that changes it. *)
LEMMA TableChanges ==
  ASSUME ReapInv, NEW p \in Pids, TableChanged(p), terminated' = terminated, skipped' = skipped,
         UNCHANGED <<planTable, snapshot, orphans, held, stage>>, at # "start", at' # "start"
  PROVE  /\ starts' \in Nat /\ procs' \in TableBy(starts') /\ planTable' \in TableBy(starts')
         /\ snapshot' \in TableBy(starts')
         /\ orphans' \subseteq NamedBy(starts') /\ held' \subseteq NamedBy(starts')
         /\ terminated' \subseteq NamedBy(starts') /\ skipped' \subseteq NamedBy(starts')
         /\ NeverBack' /\ AsPlanned' /\ CountedDead'
<1>1. /\ starts' \in Nat /\ procs' \in TableBy(starts') /\ planTable' \in TableBy(starts')
      /\ snapshot' \in TableBy(starts')
      /\ orphans' \subseteq NamedBy(starts') /\ held' \subseteq NamedBy(starts')
      /\ terminated' \subseteq NamedBy(starts') /\ skipped' \subseteq NamedBy(starts')
  BY Younger DEF ReapInv, ReapTyped
<1>2. NeverBack'
  BY Younger DEF ReapInv, NeverBack
<1>3. AsPlanned'
  BY DEF ReapInv, AsPlanned, InPlan, ParentAlive, Live
<1>4. CountedDead'
  BY Younger DEF ReapInv, ReapTyped, CountedDead
<1> QED
  BY <1>1, <1>2, <1>3, <1>4

(* No candidate is in both lists. *)
LEMMA Apart == ASSUME ReapInv PROVE orphans \cap held = {}
  BY DEF ReapInv, AsPlanned

-----------------------------------------------------------------------------
(* Making the plan keeps the invariant. *)
LEMMA PlanStep == ASSUME ReapInv, MakePlan PROVE ReapInv'
<1> DEFINE open == Live(procs) \ ProtectedPids(procs)
<1>1. /\ \A c \in orphans' : \E p \in Pids : /\ c = Candidate(p) /\ procs[p] # Gone
                                             /\ ~ParentAlive(procs, p)
      /\ \A c \in held' : \E p \in Pids : /\ c = Candidate(p) /\ procs[p] # Gone
                                          /\ ParentAlive(procs, p)
                                          /\ IsInsideGuildTool(procs[p].kind)
  BY DEF MakePlan, Live
<1>2. \A p \in Pids : procs[p] # Gone => /\ Candidate(p) \in NamedBy(starts)
                                         /\ Candidate(p).pid = p
                                         /\ Candidate(p).born = procs[p].born
  BY DEF ReapInv, ReapTyped, TableBy, NamedBy, Candidate
<1>3. orphans' \subseteq NamedBy(starts) /\ held' \subseteq NamedBy(starts)
  BY <1>1, <1>2
<1>4. AsPlanned'
  BY <1>1, <1>2 DEF AsPlanned, InPlan, ParentAlive, Live, MakePlan
<1>5. ReapTyped'
  <2>1. todo = {}
    BY DEF ReapInv, ReapTyped, Planned, Accounted, MakePlan
  <2> QED
    BY <1>3, <2>1 DEF ReapInv, ReapTyped, Planned, MakePlan, tools, result
<1>6. NeverBack' /\ CountedDead'
  BY DEF ReapInv, NeverBack, CountedDead, Dead, MakePlan, tools, result
<1>7. Accounted'
  BY <1>4 DEF ReapInv, Accounted, Reported, ToCome, Planned, Later, MakePlan, result, AsPlanned
<1> QED
  BY <1>4, <1>5, <1>6, <1>7 DEF ReapInv

(* Reading the table again keeps the invariant. *)
LEMMA LookStep == ASSUME ReapInv, Look PROVE ReapInv'
<1>1. ReapTyped'
  BY DEF ReapInv, ReapTyped, Planned, Look, tools, plan, result
<1>2. NeverBack' /\ AsPlanned' /\ CountedDead'
  BY DEF ReapInv, NeverBack, AsPlanned, InPlan, ParentAlive, Live, CountedDead, Dead, Look, tools,
         plan, result
<1>3. Accounted'
  BY DEF ReapInv, Accounted, Reported, ToCome, Planned, Later, Look, plan, result
<1> QED
  BY <1>1, <1>2, <1>3 DEF ReapInv

(* Going on to the held ones, or ending, keeps the invariant. *)
LEMMA NextStageStep == ASSUME ReapInv, NextStage PROVE ReapInv'
<1>0. at # "start" /\ at' # "start" /\ todo' = todo /\ UNCHANGED <<tools, plan, result, snapshot>>
  BY DEF NextStage
<1>1. ReapTyped'
  <2>1. todo' = {}
    BY <1>0 DEF ReapInv, ReapTyped, NextStage
  <2> QED
    BY <1>0, <2>1 DEF ReapInv, ReapTyped, NextStage, tools, plan, result
<1>2. NeverBack' /\ AsPlanned' /\ CountedDead'
  BY <1>0, TableKept DEF Same, tools, plan, result
<1>3. Accounted'
  BY <1>0 DEF ReapInv, ReapTyped, Accounted, Reported, ToCome, Planned, Later, NextStage, plan, result
<1> QED
  BY <1>1, <1>2, <1>3 DEF ReapInv

-----------------------------------------------------------------------------
(* One candidate is taken up: nothing but the table, todo and the report.   *)
LEMMA SkipStep == ASSUME ReapInv, NEW c \in todo, Skip(c) PROVE ReapInv'
<1>1. ReapTyped'
  BY DEF ReapInv, ReapTyped, Planned, Skip, tools, plan
<1>2. NeverBack' /\ AsPlanned' /\ CountedDead'
  BY TableKept DEF Same, tools, plan, Skip
<1>3. Accounted'
  <2>1. todo \subseteq Planned /\ orphans \cap held = {} /\ c \notin Later
    BY Apart DEF ReapInv, ReapTyped, Planned, Later
  <2> QED
    BY <2>1 DEF ReapInv, ReapTyped, Accounted, Reported, ToCome, Planned, Later, Skip, plan
<1> QED
  BY <1>1, <1>2, <1>3 DEF ReapInv

(* A refused termination keeps the invariant. *)
LEMMA RefusedStep == ASSUME ReapInv, NEW c \in todo, Refused(c) PROVE ReapInv'
<1>1. ReapTyped'
  BY DEF ReapInv, ReapTyped, Planned, Refused, tools, plan
<1>2. NeverBack' /\ AsPlanned' /\ CountedDead'
  BY TableKept DEF Same, tools, plan, Refused
<1>3. Accounted'
  <2>1. todo \subseteq Planned /\ orphans \cap held = {} /\ c \notin Later
    BY Apart DEF ReapInv, ReapTyped, Planned, Later
  <2> QED
    BY <2>1 DEF ReapInv, ReapTyped, Accounted, Reported, ToCome, Planned, Later, Refused, plan
<1> QED
  BY <1>1, <1>2, <1>3 DEF ReapInv

(* A candidate that is gone already keeps the invariant. *)
LEMMA AlreadyGoneStep == ASSUME ReapInv, NEW c \in todo, AlreadyGone(c) PROVE ReapInv'
<1>1. ReapTyped'
  BY DEF ReapInv, ReapTyped, Planned, AlreadyGone, tools, plan
<1>2. NeverBack' /\ AsPlanned'
  BY TableKept DEF Same, tools, plan, AlreadyGone
<1>3. CountedDead'
  BY DEF ReapInv, CountedDead, Dead, AlreadyGone, tools
<1>4. Accounted'
  <2>1. todo \subseteq Planned /\ orphans \cap held = {} /\ c \notin Later
    BY Apart DEF ReapInv, ReapTyped, Planned, Later
  <2> QED
    BY <2>1 DEF ReapInv, ReapTyped, Accounted, Reported, ToCome, Planned, Later, AlreadyGone, plan
<1> QED
  BY <1>1, <1>2, <1>3, <1>4 DEF ReapInv

(* A termination keeps the invariant. *)
LEMMA TerminateStep == ASSUME ReapInv, NEW c \in todo, Terminate(c) PROVE ReapInv'
<1>1. /\ at = "verify" /\ at' = "confirm" /\ todo' = todo \ {c} /\ target' = c
      /\ UNCHANGED <<plan, stage, snapshot, result>>
  BY DEF Terminate
<1>2. c.pid \in Pids
  BY DEF ReapInv, ReapTyped, Planned, NamedBy
<1>3. Same \/ TableChanged(c.pid)
  BY DEF Terminate, Same, TableChanged
<1>4. /\ ReapTyped' /\ NeverBack' /\ AsPlanned' /\ CountedDead'
  <2>1. CASE Same
    BY <1>1, <2>1, TableKept DEF Same, ReapInv, ReapTyped, Planned, plan, result
  <2>2. CASE TableChanged(c.pid)
    BY <1>1, <1>2, <2>2, TableChanges DEF ReapInv, ReapTyped, Planned, plan, result
  <2> QED
    BY <1>3, <2>1, <2>2
<1>5. Accounted'
  <2>1. todo \subseteq Planned /\ orphans \cap held = {} /\ c \notin Later
    BY Apart DEF ReapInv, ReapTyped, Planned, Later
  <2> QED
    BY <1>1, <2>1 DEF ReapInv, ReapTyped, Accounted, Reported, ToCome, Planned, Later, plan, result
<1> QED
  BY <1>4, <1>5 DEF ReapInv

(* Confirming a termination keeps the invariant. *)
LEMMA ConfirmStep == ASSUME ReapInv, Confirm PROVE ReapInv'
<1>0. /\ at = "confirm" /\ at' = "verify" /\ UNCHANGED <<tools, plan, stage, snapshot, todo>>
      /\ target \in Planned /\ target \notin todo
  BY DEF Confirm, ReapInv, Accounted
<1>1. ReapTyped'
  BY <1>0 DEF ReapInv, ReapTyped, Planned, Confirm, tools, plan
<1>2. NeverBack' /\ AsPlanned'
  BY <1>0, TableKept DEF Same, tools, plan
<1>3. CountedDead'
  <2>1. Confirmed(target) => Dead(target)
    <3>1. target.pid \in Pids
      BY <1>0 DEF ReapInv, ReapTyped, Planned, NamedBy
    <3> QED
      BY <3>1 DEF Confirmed, Dead, Live
  <2> QED
    BY <2>1 DEF ReapInv, CountedDead, Dead, Confirm, tools
<1>4. Accounted'
  <2>1. todo \subseteq Planned /\ orphans \cap held = {} /\ target \notin Later
    BY <1>0, Apart DEF ReapInv, ReapTyped, Planned, Later
  <2> QED
    BY <1>0, <2>1 DEF ReapInv, ReapTyped, Accounted, Reported, ToCome, Planned, Later, Confirm, plan
<1> QED
  BY <1>1, <1>2, <1>3, <1>4 DEF ReapInv

(* A table that cannot be read keeps the invariant. *)
LEMMA CannotLookStep == ASSUME ReapInv, CannotLook PROVE ReapInv'
<1>1. ReapTyped'
  BY DEF ReapInv, ReapTyped, Planned, CannotLook, tools, plan, result
<1>2. NeverBack' /\ AsPlanned' /\ CountedDead'
  BY DEF ReapInv, NeverBack, AsPlanned, InPlan, ParentAlive, Live, CountedDead, Dead, CannotLook,
         tools, plan, result
<1>3. Accounted'
  BY DEF ReapInv, Accounted, Reported, ToCome, CannotLook, plan, result
<1> QED
  BY <1>1, <1>2, <1>3 DEF ReapInv

(* The processes around it. *)
LEMMA OutsideStep ==
  ASSUME ReapInv, at \in {"look", "verify", "confirm"}, NEW p \in Pids,
         Exits(p) \/ \E q \in Pids : Starts(p, q)
  PROVE  ReapInv'
<1>1. UNCHANGED <<stage, at, plan, snapshot, todo, target, result>>
  BY DEF Exits, Starts
<1>2. PICK q \in Pids : TableChanged(q)
  <2>1. CASE Exits(p)
    BY <2>1 DEF Exits, TableChanged
  <2>2. ASSUME NEW q \in Pids, Starts(p, q)
        PROVE  TableChanged(q)
    <3>1. PICK kind \in Spawns(procs[p].kind) :
             procs' = [procs EXCEPT ![q] = [parent |-> p, born |-> starts', kind |-> kind]]
      BY <2>2 DEF Starts
    <3>2. kind \in Kinds
      BY <3>1 DEF Spawns, Kinds
    <3> QED
      BY <2>2, <3>1, <3>2 DEF Starts, TableChanged
  <2> QED
    BY <2>1, <2>2
<1>3. ReapTyped' /\ NeverBack' /\ AsPlanned' /\ CountedDead'
  BY <1>1, <1>2, TableChanges DEF ReapInv, ReapTyped, Planned, plan, result
<1>4. Accounted'
  BY <1>1 DEF ReapInv, Accounted, Reported, ToCome, Planned, Later, plan, result
<1> QED
  BY <1>3, <1>4 DEF ReapInv

-----------------------------------------------------------------------------
(* So does a step that changes nothing of reap's. *)
LEMMA StutterStep == ASSUME ReapInv, UNCHANGED reapVars PROVE ReapInv'
<1>1. ReapTyped' /\ NeverBack' /\ AsPlanned' /\ CountedDead'
  BY DEF ReapInv, ReapTyped, Planned, NeverBack, AsPlanned, InPlan, ParentAlive, Live, CountedDead, Dead,
         reapVars
<1>2. Accounted'
  BY DEF ReapInv, Accounted, Reported, ToCome, Planned, Later, reapVars
<1> QED
  BY <1>1, <1>2 DEF ReapInv

(* Every step keeps the invariant. *)
LEMMA ReapInvStep == ReapInv /\ [ReapNext]_reapVars => ReapInv'
<1> SUFFICES ASSUME ReapInv, [ReapNext]_reapVars PROVE ReapInv'
  OBVIOUS
<1>1. CASE MakePlan \/ Look \/ NextStage \/ CannotLook \/ Confirm
  BY <1>1, PlanStep, LookStep, NextStageStep, CannotLookStep, ConfirmStep
<1>2. ASSUME NEW c \in todo, Skip(c) \/ AlreadyGone(c) \/ Refused(c) \/ Terminate(c)
      PROVE  ReapInv'
  BY <1>2, SkipStep, AlreadyGoneStep, RefusedStep, TerminateStep
<1>3. ASSUME at \in {"look", "verify", "confirm"}, NEW p \in Pids,
             Exits(p) \/ \E q \in Pids : Starts(p, q)
      PROVE  ReapInv'
  BY <1>3, OutsideStep
<1>4. CASE UNCHANGED reapVars
  BY <1>4, StutterStep
<1> QED
  BY <1>1, <1>2, <1>3, <1>4 DEF ReapNext, Reaps

(* The invariant of reap holds in every behaviour. *)
LEMMA ReapInvAlways == ReapSpec => []ReapInv
  BY ReapInitHolds, ReapInvStep, PTL DEF ReapSpec

(* What reap says it terminated is no longer there, and at the end every    *)
(* candidate of the plan has been reported, once, and nothing else has.     *)
THEOREM ReportTrue == ReapSpec => []ReportIsTrue
<1>1. ReapInv => ReportIsTrue
  BY DEF ReapInv, CountedDead, Dead, Accounted, Reported, ToCome, ReportIsTrue
<1> QED
  BY <1>1, ReapInvAlways, PTL

(* A process is struck only as one the plan named, unless its pid changed   *)
(* hands after the last look; and while the parent it had at the plan is    *)
(* alive, only as a lock holder that --include-held allows.                 *)
StruckAsPlanned ==
  \A v \in NewlyStruck :
    /\ snapshot[v.pid] = procs[v.pid] => v \in orphans \cup held
    /\ LET me == procs[v.pid]
       IN  /\ planTable[v.pid] = me /\ me.parent \in Live(procs)
           /\ planTable[me.parent] = procs[me.parent]
           => includeHeld /\ IsInsideGuildTool(me.kind)

(* One termination strikes only as planned. *)
LEMMA StrikesAsPlanned == ASSUME ReapInv, NEW c \in todo, Terminate(c) PROVE StruckAsPlanned
<1>1. NewlyStruck \subseteq {Candidate(c.pid)}
  BY DEF Terminate, NewlyStruck
<1>2. /\ c \in Planned /\ c \in NamedBy(starts) /\ c.pid \in Pids /\ procs[c.pid] # Gone
      /\ Verified(c)
  BY DEF ReapInv, ReapTyped, Planned, NamedBy, Terminate
<1>3. /\ Candidate(c.pid).pid = c.pid /\ Candidate(c.pid).born = procs[c.pid].born
      /\ c = [pid |-> c.pid, born |-> c.born]
  BY <1>2 DEF Candidate, NamedBy
<1>4. snapshot[c.pid] = procs[c.pid] => Candidate(c.pid) \in orphans \cup held
  BY <1>2, <1>3 DEF Verified, Candidate, Planned
<1> DEFINE me == procs[c.pid]
<1>5. ASSUME planTable[c.pid] = me, me.parent \in Live(procs),
             planTable[me.parent] = procs[me.parent]
      PROVE  includeHeld /\ IsInsideGuildTool(me.kind)
  <2>1. snapshot[c.pid] = me
    BY <1>2, <1>5 DEF ReapInv, NeverBack
  <2>2. me.parent \in Pids /\ procs[me.parent] # Gone
    BY <1>5 DEF Live
  <2>3. snapshot[me.parent] = procs[me.parent]
    BY <1>5, <2>2 DEF ReapInv, NeverBack
  <2>4. ParentAlive(snapshot, c.pid)
    BY <2>1, <2>2, <2>3 DEF ParentAlive, Live
  <2>5. stage = "held" /\ includeHeld /\ c \in held
    BY <1>2, <2>4 DEF Verified, Planned
  <2> QED
    BY <1>5, <2>5 DEF ReapInv, AsPlanned
<1> QED
  BY <1>1, <1>3, <1>4, <1>5 DEF StruckAsPlanned

(* A process that had its pid when the table was last read is struck only *)
(* if the plan named it, and one with a living parent only as a lock      *)
(* holder.                                                                *)
THEOREM PlannedOnly == ReapSpec => OnlyPlanned
<1>1. ReapInv /\ [ReapNext]_reapVars => [StruckAsPlanned]_reapVars
  <2> SUFFICES ASSUME ReapInv, ReapNext PROVE StruckAsPlanned
    OBVIOUS
  <2>1. ASSUME NEW c \in todo, Terminate(c)
        PROVE  StruckAsPlanned
    BY <2>1, StrikesAsPlanned
  <2>2. CASE struck' = struck
    BY <2>2 DEF StruckAsPlanned, NewlyStruck
  <2> QED
    BY <2>1, <2>2 DEF ReapNext, Reaps, MakePlan, Look, NextStage, CannotLook, Confirm, Skip,
                     AlreadyGone, Refused, Exits, Starts
<1> QED
  BY <1>1, ReapInvAlways, PTL DEF ReapSpec, OnlyPlanned, StruckAsPlanned

-----------------------------------------------------------------------------
(* Chains of ancestors are defined by recursion: that such a function exists *)
(* and what it is comes from least elements.                                 *)
(* A set of naturals has a least element.                                    *)
LEMMA LeastNat ==
  ASSUME NEW T, T \subseteq Nat, T # {}
  PROVE  \E m \in T : \A n \in T : m <= n
<1>1. \E m \in T : \A n \in T : <<n, m>> \notin OpToRel(<, Nat)
  BY NatLessThanWellFounded, WFMin
<1>2. \A m, n \in Nat : n < m => <<n, m>> \in OpToRel(<, Nat)
  BY DEF OpToRel
<1>3. PICK m \in T : \A n \in T : ~(n < m)
  BY <1>1, <1>2
<1>4. QED
  BY <1>3

(* f is the function on 0..m that a first value and a step define, the step  *)
(* given as a function of the index and the value before it.                 *)
Recursion(f, m, first, step) ==
  f = [n \in 0 .. m |-> IF n = 0 THEN first ELSE step[n][f[n-1]]]

(* There is one.                                                             *)
LEMMA RecursionExists ==
  ASSUME NEW first, NEW step, NEW m \in Nat
  PROVE  \E f : Recursion(f, m, first, step)
<1> DEFINE Lacking == {n \in Nat : ~ \E f : Recursion(f, n, first, step)}
<1> SUFFICES Lacking = {}
  OBVIOUS
<1>1. SUFFICES ASSUME NEW n \in Lacking, \A k \in Lacking : n <= k PROVE FALSE
  <2>1. Lacking \subseteq Nat
    OBVIOUS
  <2>2. QED
    BY <2>1, LeastNat
<1>2. CASE n = 0
  <2> DEFINE f == [k \in 0 .. 0 |-> first]
  <2>1. Recursion(f, 0, first, step)
    BY DEF Recursion
  <2>2. QED
    BY <1>1, <1>2, <2>1
<1>3. CASE n # 0
  <2>1. n - 1 \in Nat /\ n - 1 \notin Lacking
    BY <1>1, <1>3
  <2>2. PICK g : Recursion(g, n - 1, first, step)
    BY <2>1
  <2> DEFINE last == step[n][g[n-1]]
             f == [k \in 0 .. n |-> IF k = n THEN last ELSE g[k]]
             rhs == [k \in 0 .. n |-> IF k = 0 THEN first ELSE step[k][f[k-1]]]
  <2>3. ASSUME NEW k \in 0 .. n
        PROVE  f[k] = rhs[k]
    <3>1. CASE k = n
      BY <1>3, <3>1, <2>1
    <3>2. CASE k # n
      <4>1. k \in 0 .. n - 1 /\ f[k] = g[k] /\ (k # 0 => f[k-1] = g[k-1])
        BY <3>2, <2>1
      <4>2. g[k] = IF k = 0 THEN first ELSE step[k][g[k-1]]
        BY <2>2, <4>1 DEF Recursion
      <4>3. QED
        BY <4>1, <4>2
    <3>3. QED
      BY <3>1, <3>2
  <2>4. f = rhs
    <3> HIDE DEF last
    <3>1. QED
      BY <2>3
  <2>5. QED
    BY <1>1, <2>4 DEF Recursion
<1>4. QED
  BY <1>2, <1>3


(* One whose step leads from V into V stays in V.                            *)
LEMMA RecursionIn ==
  ASSUME NEW m \in Nat, NEW V, NEW first \in V, NEW step \in [1..m -> [V -> V]]
  PROVE  \E f \in [0..m -> V] : /\ Recursion(f, m, first, step)
                                /\ f[0] = first
                                /\ \A n \in 1..m : f[n] = step[n][f[n-1]]
<1>1. PICK f : Recursion(f, m, first, step)
  BY RecursionExists
<1> DEFINE Bad == {n \in Nat : n <= m /\ f[n] \notin V}
<1>2. f[0] = first /\ 0 \in 0..m
  BY <1>1 DEF Recursion
<1>3. ASSUME NEW n \in 1..m PROVE f[n] = step[n][f[n-1]]
  BY <1>1, <1>3 DEF Recursion
<1>4. Bad = {}
  <2>1. SUFFICES ASSUME NEW n \in Bad, \A k \in Bad : n <= k PROVE FALSE
    <3>1. Bad \subseteq Nat
      OBVIOUS
    <3> QED
      BY <3>1, LeastNat
  <2>2. n \in 1..m /\ n - 1 \in Nat /\ n - 1 <= m
    BY <1>2
  <2>3. f[n-1] \in V
    BY <2>1, <2>2
  <2>4. step[n] \in [V -> V]
    BY <2>2
  <2> QED
    BY <1>3, <2>1, <2>2, <2>3, <2>4
<1>5. \A n \in 0..m : f[n] \in V
  BY <1>4
<1>6. f \in [0..m -> V]
  BY <1>1, <1>5 DEF Recursion
<1> QED
  BY <1>1, <1>2, <1>3, <1>6

-----------------------------------------------------------------------------
Tables == [Pids -> [parent : Pids \cup {0}, born : Nat, kind : Kinds] \cup {Gone}]
Height == Cardinality(Pids)

(* One more step up, if there is one.                                        *)
Longer(table, chain) ==
  LET last == chain[Len(chain)]
  IN  IF /\ last \in Live(table) /\ ParentAlive(table, last)
         /\ table[last].parent \notin Range(chain)
      THEN Append(chain, table[last].parent) ELSE chain

(* A way up from pid to parents that live.                                   *)
Path(table, pid, chain) ==
  /\ chain \in Seq(Pids) /\ Len(chain) > 0 /\ chain[1] = pid
  /\ \A i \in 1 .. Len(chain) - 1 : /\ chain[i] \in Live(table) /\ ParentAlive(table, chain[i])
                                    /\ chain[i+1] = table[chain[i]].parent

(* The bound on the length of a chain is a number. *)
LEMMA HeightIsNat == Height \in Nat
  BY ReapAssumption, FS_CardinalityType DEF Height

(* A chain with the parent of its last is a chain of pids. *)
LEMMA LongerInSeq ==
  ASSUME NEW table, NEW chain \in Seq(Pids)
  PROVE  Longer(table, chain) \in Seq(Pids)
<1> DEFINE last == chain[Len(chain)]
<1>1. ASSUME ParentAlive(table, last) PROVE table[last].parent \in Pids
  BY <1>1 DEF ParentAlive, Live
<1>2. ASSUME ParentAlive(table, last) PROVE Append(chain, table[last].parent) \in Seq(Pids)
  BY <1>1, <1>2, AppendProperties
<1> QED
  BY <1>2 DEF Longer

(* A way up stays one when it goes on to the parent. *)
LEMMA LongerIsPath ==
  ASSUME NEW table, NEW pid, NEW chain, Path(table, pid, chain)
  PROVE  Path(table, pid, Longer(table, chain)) /\ Len(Longer(table, chain)) <= Len(chain) + 1
<1> DEFINE last == chain[Len(chain)]
           up == table[last].parent
<1>1. chain \in Seq(Pids) /\ Len(chain) \in Nat \ {0}
  BY LenProperties DEF Path
<1>2. CASE last \in Live(table) /\ ParentAlive(table, last) /\ up \notin Range(chain)
  <2>1. Longer(table, chain) = Append(chain, up)
    BY <1>2 DEF Longer
  <2>2. up \in Pids
    BY <1>2 DEF ParentAlive, Live
  <2>3. /\ Append(chain, up) \in Seq(Pids) /\ Len(Append(chain, up)) = Len(chain) + 1
        /\ \A i \in 1..Len(chain) : Append(chain, up)[i] = chain[i]
        /\ Append(chain, up)[Len(chain) + 1] = up
    BY <1>1, <2>2, AppendProperties
  <2> DEFINE longer == Append(chain, up)
  <2>4. ASSUME NEW i \in 1 .. Len(chain)
        PROVE  /\ longer[i] \in Live(table) /\ ParentAlive(table, longer[i])
               /\ longer[i+1] = table[longer[i]].parent
    <3>1. longer[i] = chain[i]
      BY <2>3
    <3>2. CASE i = Len(chain)
      BY <1>2, <2>3, <3>1, <3>2
    <3>3. CASE i # Len(chain)
      <4>1. i \in 1 .. Len(chain) - 1 /\ i + 1 \in 1 .. Len(chain)
        BY <1>1, <3>3
      <4> QED
        BY <2>3, <3>1, <4>1 DEF Path
    <3> QED
      BY <3>2, <3>3
  <2>5. longer \in Seq(Pids) /\ Len(longer) = Len(chain) + 1 /\ longer[1] = pid
    BY <1>1, <2>3 DEF Path
  <2> HIDE DEF longer
  <2>6. Path(table, pid, longer)
    BY <1>1, <2>4, <2>5 DEF Path
  <2> QED
    BY <1>1, <2>1, <2>5, <2>6 DEF longer
<1>3. CASE ~ (last \in Live(table) /\ ParentAlive(table, last) /\ up \notin Range(chain))
  BY <1>1, <1>3 DEF Longer
<1> QED
  BY <1>2, <1>3

(* The chain of ancestors is a way up, and not longer than there are pids.   *)
LEMMA ChainIsPath ==
  ASSUME NEW table, NEW pid \in Pids
  PROVE  /\ Path(table, pid, AncestorChain(table, pid))
         /\ Len(AncestorChain(table, pid)) <= Height + 1
<1> DEFINE N == Height
           step == [n \in 1..N |-> [c \in Seq(Pids) |-> Longer(table, c)]]
           Walk(f) == f = [n \in 0..N |-> IF n = 0 THEN <<pid>> ELSE Longer(table, f[n-1])]
<1>1. N \in Nat
  BY HeightIsNat
<1> HIDE DEF N
<1>2. PICK f \in [0..N -> Seq(Pids)] : Recursion(f, N, <<pid>>, step)
  <2>1. <<pid>> \in Seq(Pids)
    OBVIOUS
  <2>2. step \in [1..N -> [Seq(Pids) -> Seq(Pids)]]
    BY LongerInSeq
  <2> HIDE DEF step
  <2> QED
    BY <1>1, <2>1, <2>2, RecursionIn
<1>3. Walk(f)
  <2>1. ASSUME NEW n \in 0..N, n # 0 PROVE step[n][f[n-1]] = Longer(table, f[n-1])
    <3>1. n \in 1..N /\ n - 1 \in 0..N
      BY <1>1, <2>1
    <3> QED
      BY <3>1
  <2> HIDE DEF step
  <2> QED
    BY <1>2, <2>1 DEF Recursion
<1> DEFINE up == CHOOSE g : Walk(g)
<1>4. Walk(up)
  BY <1>3
<1>5. AncestorChain(table, pid) = up[N]
  BY DEF AncestorChain, N, Height, Longer
<1> HIDE DEF up
<1> DEFINE Bad == {n \in Nat : n <= N /\ ~ (Path(table, pid, up[n]) /\ Len(up[n]) <= n + 1)}
<1>6. Bad = {}
  <2>1. SUFFICES ASSUME NEW n \in Bad, \A k \in Bad : n <= k PROVE FALSE
    <3>1. Bad \subseteq Nat
      OBVIOUS
    <3> QED
      BY <3>1, LeastNat
  <2>2. CASE n = 0
    <3>1. up[0] = <<pid>>
      BY <1>1, <1>4
    <3>2. Path(table, pid, <<pid>>) /\ Len(<<pid>>) = 1
      BY DEF Path
    <3>3. Path(table, pid, up[n]) /\ Len(up[n]) <= n + 1
      BY <2>2, <3>1, <3>2
    <3> QED
      BY <2>1, <3>3
  <2>3. CASE n # 0
    <3>1. n \in 0..N /\ n - 1 \in Nat /\ n - 1 <= N /\ ~ (n <= n - 1)
      BY <1>1, <2>3
    <3>2. n - 1 \notin Bad
      BY <2>1, <3>1
    <3>3. Path(table, pid, up[n-1]) /\ Len(up[n-1]) <= n - 1 + 1
      BY <3>1, <3>2
    <3>4. up[n] = Longer(table, up[n-1])
      BY <1>4, <2>3, <3>1
    <3>5. Path(table, pid, up[n]) /\ Len(up[n]) <= Len(up[n-1]) + 1
      BY <3>3, <3>4, LongerIsPath
    <3>6. Len(up[n-1]) \in Nat /\ Len(up[n]) \in Nat
      BY <3>3, <3>5, LenProperties DEF Path
    <3>7. ASSUME NEW a \in Nat, NEW b \in Nat, a <= n - 1 + 1, b <= a + 1 PROVE b <= n + 1
      BY <2>1, <3>7
    <3>8. Len(up[n]) <= n + 1
      BY <3>3, <3>5, <3>6, <3>7
    <3> QED
      BY <2>1, <3>5, <3>8
  <2> QED
    BY <2>2, <2>3
<1> QED
  BY <1>1, <1>5, <1>6, SMTT(30) DEF N

-----------------------------------------------------------------------------
(* The least of a set of naturals.                                           *)
LEMMA MinIs ==
  ASSUME NEW S, S \subseteq Nat, NEW i \in S, \A j \in S : i <= j
  PROVE  Min(S) = i
<1>1. Min(S) \in S /\ \A j \in S : Min(S) <= j
  BY DEF Min
<1>2. Min(S) \in Nat /\ i \in Nat /\ Min(S) <= i /\ i <= Min(S)
  BY <1>1
<1> QED
  BY <1>2

(* What the first of a chain in a set is.                                    *)
LEMMA FirstOfIs ==
  ASSUME NEW V, NEW chain \in Seq(V), NEW wanted, FirstOf(chain, wanted) # NoPid
  PROVE  \E i \in 1 .. Len(chain) : /\ FirstOf(chain, wanted) = chain[i] /\ chain[i] \in wanted
                                    /\ \A j \in 1 .. i - 1 : chain[j] \notin wanted
<1> DEFINE those == {i \in DOMAIN chain : chain[i] \in wanted}
<1>1. those # {} /\ FirstOf(chain, wanted) = chain[Min(those)]
  BY DEF FirstOf
<1>2. DOMAIN chain = 1 .. Len(chain) /\ those \subseteq Nat
  BY LenProperties
<1>3. PICK i \in those : \A j \in those : i <= j
  BY <1>1, <1>2, LeastNat
<1> HIDE DEF those
<1>4. Min(those) = i
  BY <1>2, <1>3, MinIs
<1>5. \A j \in 1 .. i - 1 : j \in DOMAIN chain /\ ~ (i <= j)
  BY <1>2, <1>3 DEF those
<1> QED
  BY <1>1, <1>2, <1>3, <1>4, <1>5 DEF those

-----------------------------------------------------------------------------
(* What is protected of a table: reap's chain, and what is below its root.   *)
OwnChain(table) == AncestorChain(table, Self)
Root(table) == SessionRoot(table, OwnChain(table))

(* The processes under the root, level by level.                             *)
Deeper(table, level) ==
  level \cup UNION {Children(table, p) \ Range(OwnChain(table)) : p \in level}

(* The protected pids: reap's chain, and what the levels below the root     *)
(* have come to after Height of them.                                        *)
LEMMA ProtectedIs ==
  ASSUME NEW table
  PROVE  \E under :
           /\ ProtectedPids(table) = Range(OwnChain(table)) \cup under[Height]
           /\ under[0] = Children(table, Root(table)) \ Range(OwnChain(table))
           /\ \A n \in 1 .. Height : under[n] = Deeper(table, under[n-1])
<1> DEFINE N == Height
           first == Children(table, Root(table)) \ Range(OwnChain(table))
           step == [n \in 1..N |-> [s \in SUBSET Pids |-> Deeper(table, s)]]
           Walk(f) == f = [n \in 0..N |-> IF n = 0 THEN first ELSE Deeper(table, f[n-1])]
<1>1. N \in Nat
  BY HeightIsNat
<1> HIDE DEF N
<1>2. PICK f \in [0..N -> SUBSET Pids] : Recursion(f, N, first, step)
  <2>1. first \in SUBSET Pids
    BY DEF Children, Live
  <2>2. step \in [1..N -> [SUBSET Pids -> SUBSET Pids]]
    <3>1. \A s \in SUBSET Pids : Deeper(table, s) \in SUBSET Pids
      BY DEF Deeper, Children, Live
    <3> QED
      BY <3>1
  <2> HIDE DEF step, first
  <2> QED
    BY <1>1, <2>1, <2>2, RecursionIn
<1>3. Walk(f)
  <2>1. ASSUME NEW n \in 0..N, n # 0 PROVE step[n][f[n-1]] = Deeper(table, f[n-1])
    <3>1. n \in 1..N /\ n - 1 \in 0..N
      BY <1>1, <2>1
    <3>2. f[n-1] \in SUBSET Pids
      BY <1>2, <3>1
    <3> QED
      BY <3>1, <3>2
  <2> HIDE DEF step, first
  <2> QED
    BY <1>2, <2>1 DEF Recursion
<1> DEFINE under == CHOOSE g : Walk(g)
<1>4. Walk(under)
  BY <1>3
<1>5. ProtectedPids(table) = Range(OwnChain(table)) \cup under[N]
  BY DEF ProtectedPids, N, Height, Deeper, OwnChain, Root
<1> HIDE DEF under, first
<1>6. under[0] = first /\ \A n \in 1..N : under[n] = Deeper(table, under[n-1])
  BY <1>1, <1>4
<1> QED
  BY <1>5, <1>6 DEF N, first

(* A process whose way up meets the root before anything else of reap's own  *)
(* chain is protected.                                                       *)
LEMMA BelowRootIsProtected ==
  ASSUME NEW table, NEW p \in Pids, NEW k \in 2 .. Len(AncestorChain(table, p)),
         AncestorChain(table, p)[k] = Root(table),
         \A j \in 1 .. k - 1 : AncestorChain(table, p)[j] \notin Range(OwnChain(table))
  PROVE  p \in ProtectedPids(table)
<1> DEFINE way == AncestorChain(table, p)
           N == Height
<1>1. PICK under : /\ ProtectedPids(table) = Range(OwnChain(table)) \cup under[N]
                   /\ under[0] = Children(table, Root(table)) \ Range(OwnChain(table))
                   /\ \A n \in 1 .. N : under[n] = Deeper(table, under[n-1])
  BY ProtectedIs
<1>2. N \in Nat /\ Len(way) \in Nat /\ Len(way) <= N + 1 /\ Path(table, p, way)
  BY HeightIsNat, ChainIsPath, LenProperties DEF Path
<1>3. k \in Nat /\ 2 <= k /\ k <= N + 1
  BY <1>2
<1> HIDE DEF way, N
(* The n-th before the root is n levels below it.                            *)
<1> DEFINE Bad == {n \in Nat : n <= k - 2 /\ way[k - 1 - n] \notin under[n]}
<1>4. \A j \in 1 .. k - 1 : /\ way[j] \in Live(table) /\ way[j+1] = table[way[j]].parent
                            /\ way[j] \notin Range(OwnChain(table))
  BY <1>2 DEF Path, way
<1>5. Bad = {}
  <2>1. SUFFICES ASSUME NEW n \in Bad, \A m \in Bad : n <= m PROVE FALSE
    <3>1. Bad \subseteq Nat
      OBVIOUS
    <3> QED
      BY <3>1, LeastNat
  <2>2. CASE n = 0
    <3>1. k - 1 \in 1 .. k - 1 /\ k - 1 + 1 = k /\ k - 1 - n = k - 1
      BY <1>3, <2>2
    <3>2. way[k - 1] \in Live(table) /\ way[k] = table[way[k - 1]].parent
          /\ way[k - 1] \notin Range(OwnChain(table))
      BY <1>4, <3>1
    <3>3. way[k - 1] \in Children(table, Root(table))
      BY <3>2 DEF Children, way
    <3> QED
      BY <1>1, <2>1, <2>2, <3>1, <3>2, <3>3
  <2>3. CASE n # 0
    <3>1. /\ n - 1 \in Nat /\ n - 1 <= k - 2 /\ ~ (n <= n - 1) /\ n \in 1..N
          /\ k - 1 - n \in 1 .. k - 1 /\ k - 1 - n + 1 = k - 1 - (n - 1)
      BY <1>2, <1>3, <2>1, <2>3
    <3>2. way[k - 1 - (n - 1)] \in under[n-1]
      BY <2>1, <3>1
    <3>3. /\ way[k - 1 - n] \in Children(table, way[k - 1 - (n - 1)])
          /\ way[k - 1 - n] \notin Range(OwnChain(table))
      BY <1>4, <3>1 DEF Children
    <3>4. way[k - 1 - n] \in Deeper(table, under[n-1])
      BY <3>2, <3>3 DEF Deeper
    <3> QED
      BY <1>1, <2>1, <3>1, <3>4
  <2> QED
    BY <2>2, <2>3
<1>6. p \in under[k - 2]
  <2>1. k - 2 \in Nat /\ k - 2 <= k - 2 /\ k - 1 - (k - 2) = 1
    BY <1>3
  <2>2. way[1] \in under[k - 2]
    BY <1>5, <2>1
  <2> QED
    BY <1>2, <2>2 DEF Path
(* And no level takes anything away.                                         *)
<1> DEFINE Lost == {n \in Nat : k - 2 <= n /\ n <= N /\ p \notin under[n]}
<1>7. Lost = {}
  <2>1. SUFFICES ASSUME NEW n \in Lost, \A m \in Lost : n <= m PROVE FALSE
    <3>1. Lost \subseteq Nat
      OBVIOUS
    <3> QED
      BY <3>1, LeastNat
  <2>2. n # k - 2
    BY <1>6, <2>1
  <2>3. n \in 1..N /\ n - 1 \in Nat /\ k - 2 <= n - 1 /\ n - 1 <= N /\ ~ (n <= n - 1)
    BY <1>2, <1>3, <2>1, <2>2
  <2>4. p \in under[n-1]
    BY <2>1, <2>3
  <2> QED
    BY <1>1, <2>1, <2>3, <2>4 DEF Deeper
<1>8. p \in under[N]
  <2>1. N <= N /\ k - 2 <= N
    BY <1>2, <1>3
  <2> QED
    BY <1>2, <1>7, <2>1
<1> QED
  BY <1>1, <1>8

(* If the nearest of reap's chain that is no shell is one of several or      *)
(* right below the Explorer, it is the root.                                 *)
LEMMA RootIsOwnSession ==
  ASSUME NEW table, table \in Tables, table[Self] # Gone => table[Self].kind = "reap",
         OwnSession(table) # NoPid,
         ParentAlive(table, OwnSession(table)), OneOfSeveral(table, OwnSession(table))
  PROVE  Root(table) = OwnSession(table)
<1> DEFINE chain == OwnChain(table)
           programs == {p \in Live(table) : table[p].kind \in Programs}
           signed == {i \in 2 .. Len(chain) : /\ ~IsShellOrInterpreter(table[chain[i]].kind)
                                              /\ ParentAlive(table, chain[i])
                                              /\ OneOfSeveral(table, chain[i])}
<1>1. Path(table, Self, chain) /\ chain \in Seq(Pids) /\ Len(chain) \in Nat
  BY ReapAssumption, ChainIsPath, LenProperties DEF Path, OwnChain
<1>2. OwnSession(table) = FirstOf(chain, programs)
  BY DEF OwnSession, OwnChain
<1> HIDE DEF chain, programs
<1>3. PICK k \in 1 .. Len(chain) : /\ OwnSession(table) = chain[k] /\ chain[k] \in programs
                                   /\ \A j \in 1 .. k - 1 : chain[j] \notin programs
  BY <1>1, <1>2, FirstOfIs
<1>4. k # 1
  BY <1>1, <1>3 DEF Path, programs, Programs, Live
<1>5. k \in signed
  BY <1>1, <1>3, <1>4 DEF programs, Programs, IsShellOrInterpreter
<1>6. \A j \in signed : k <= j
  <2>1. SUFFICES ASSUME NEW j \in signed, ~ (k <= j) PROVE FALSE
    OBVIOUS
  <2>2. j \in 1 .. k - 1 /\ j \in 1 .. Len(chain) - 1
    BY <1>1, <1>3, <2>1
  <2>3. chain[j] \in Live(table) /\ chain[j] \notin programs
    BY <1>1, <1>3, <2>2 DEF Path
  <2>4. table[chain[j]].kind \in Kinds \ Programs
    BY <2>3 DEF programs, Live, Tables
  <2>5. IsShellOrInterpreter(table[chain[j]].kind)
    BY <2>4 DEF Kinds, Programs, IsShellOrInterpreter
  <2> QED
    BY <2>1, <2>5
<1>7. Root(table) = chain[Min(signed)]
  BY <1>5 DEF Root, SessionRoot, chain
<1>8. Min(signed) = k
  <2>1. signed \subseteq Nat
    OBVIOUS
  <2> HIDE DEF signed
  <2> QED
    BY <1>5, <1>6, <2>1, MinIs
<1> QED
  BY <1>3, <1>7, <1>8

(* Reap itself is in its chain.                                              *)
LEMMA SelfInChain == ASSUME NEW table PROVE Self \in Range(OwnChain(table))
<1>1. Path(table, Self, OwnChain(table)) /\ OwnChain(table) \in Seq(Pids)
  BY ReapAssumption, ChainIsPath DEF Path, OwnChain
<1>2. 1 \in DOMAIN OwnChain(table) /\ OwnChain(table)[1] = Self
  BY <1>1, LenProperties DEF Path
<1> QED
  BY <1>2 DEF Range

(* Reap's own chain is protected. *)
LEMMA ChainIsProtected ==
  ASSUME NEW table
  PROVE  Range(OwnChain(table)) \subseteq ProtectedPids(table)
  BY DEF ProtectedPids, OwnChain

(* What is not protected is neither of reap's chain nor right below the      *)
(* program which it was started from.                                        *)
LEMMA SparedBy ==
  ASSUME NEW table, table \in Tables, table[Self] # Gone => table[Self].kind = "reap",
         NEW p \in Pids, p \notin ProtectedPids(table)
  PROVE  LET own == OwnSession(table)
         IN  /\ HangsOn(table, p) # p
             /\ HangsOn(table, p) = own /\ own # NoPid =>
                  ~ (ParentAlive(table, own) /\ OneOfSeveral(table, own))
<1> DEFINE way == AncestorChain(table, p)
           hangs == HangsOn(table, p)
<1>1. Path(table, p, way) /\ way \in Seq(Pids) /\ Len(way) \in Nat
  BY ChainIsPath, LenProperties DEF Path
<1>2. p \notin Range(OwnChain(table)) /\ p # NoPid
  BY ChainIsProtected, ReapAssumption DEF NoPid
<1>3. hangs = FirstOf(way, Range(OwnChain(table)))
  BY DEF HangsOn, OwnChain
<1>4. ASSUME hangs # NoPid
      PROVE  \E k \in 1 .. Len(way) : /\ hangs = way[k] /\ way[k] \in Range(OwnChain(table))
                                      /\ \A j \in 1 .. k - 1 : way[j] \notin Range(OwnChain(table))
  <2> HIDE DEF hangs, way
  <2> QED
    BY <1>1, <1>3, <1>4, FirstOfIs
<1>5. hangs # p
  BY <1>2, <1>4 DEF NoPid
<1>6. ASSUME hangs = OwnSession(table), OwnSession(table) # NoPid,
             ParentAlive(table, OwnSession(table)), OneOfSeveral(table, OwnSession(table))
      PROVE  FALSE
  <2>1. Root(table) = OwnSession(table)
    BY <1>6, RootIsOwnSession
  <2>2. PICK k \in 1 .. Len(way) : /\ hangs = way[k] /\ way[k] \in Range(OwnChain(table))
                                   /\ \A j \in 1 .. k - 1 : way[j] \notin Range(OwnChain(table))
    BY <1>4, <1>6
  <2>3. k # 1
    BY <1>1, <1>2, <2>2 DEF Path
  <2>4. k \in 2 .. Len(way)
    BY <1>1, <2>2, <2>3
  <2>5. p \in ProtectedPids(table)
    BY <1>6, <2>1, <2>2, <2>4, BelowRootIsProtected
  <2> QED
    BY <2>5
<1> QED
  BY <1>5, <1>6

-----------------------------------------------------------------------------
(* Reap runs as long as it takes, and the counts keep to their bounds.       *)
SelfRuns ==
  /\ procs[Self] # Gone /\ procs[Self].kind = "reap"
  /\ snapshot[Self] # Gone /\ snapshot[Self].kind = "reap"
ReapCounts ==
  /\ exits \in 0..MaxExits /\ starts \in 0..MaxStarts /\ includeHeld \in BOOLEAN
  /\ (at = "confirm") = (target # Gone)
  /\ target \in NamedBy(starts) \cup {Gone} /\ struck \subseteq NamedBy(starts)
ReapRuns == ReapInv /\ SelfRuns /\ ReapCounts

(* Both hold at the start. *)
LEMMA RunsInit == ReapInit => SelfRuns /\ ReapCounts
<1> SUFFICES ASSUME ReapInit PROVE SelfRuns /\ ReapCounts
  OBVIOUS
<1>1. procs[Self].kind = "reap" /\ procs[Self] # Gone /\ snapshot = procs
  <2>1. procs \in Trees
    BY DEF ReapInit
  <2> QED
    BY <2>1, ReapAssumption DEF ReapInit
<1> QED
  BY <1>1, ReapAssumption DEF ReapInit, SelfRuns, ReapCounts

(* No termination is sent to reap. *)
LEMMA SelfRunsStep == ReapInv /\ SelfRuns /\ [ReapNext]_reapVars => SelfRuns'
<1> SUFFICES ASSUME ReapInv, SelfRuns, [ReapNext]_reapVars PROVE SelfRuns'
  OBVIOUS
<1>1. procs \in TableBy(starts)
  BY DEF ReapInv, ReapTyped
<1>2. CASE procs' = procs /\ snapshot' = snapshot
  BY <1>2 DEF SelfRuns
<1>3. CASE Look
  BY <1>3 DEF Look, SelfRuns, tools
<1>4. ASSUME NEW c \in todo, Terminate(c) PROVE SelfRuns'
  <2>1. c.pid # Self
    BY <1>4, SelfInChain, ChainIsProtected DEF Terminate, Verified
  <2>2. procs'[Self] = procs[Self]
    BY <1>1, <1>4, <2>1, ReapAssumption DEF Terminate, TableBy
  <2>3. snapshot' = snapshot
    BY <1>4 DEF Terminate
  <2> QED
    BY <2>2, <2>3 DEF SelfRuns
<1>5. ASSUME NEW p \in Pids, Exits(p) PROVE SelfRuns'
  BY <1>1, <1>5 DEF Exits, SelfRuns, TableBy
<1>6. ASSUME NEW p \in Pids, NEW q \in Pids, Starts(p, q) PROVE SelfRuns'
  <2>1. q # Self
    BY <1>6 DEF Starts, SelfRuns
  <2> QED
    BY <1>1, <1>6, <2>1 DEF Starts, SelfRuns, TableBy
<1> QED
  BY <1>2, <1>3, <1>4, <1>5, <1>6 DEF ReapNext, Reaps, MakePlan, NextStage, CannotLook, Confirm, Skip,
     AlreadyGone, Refused, tools, reapVars

(* Nothing is counted beyond its bound, and a termination is to be confirmed *)
(* exactly while it says so.                                                 *)
LEMMA ReapCountsStep == ReapInv /\ ReapCounts /\ [ReapNext]_reapVars => ReapCounts'
<1> SUFFICES ASSUME ReapInv, ReapCounts, [ReapNext]_reapVars PROVE ReapCounts'
  OBVIOUS
<1>1. /\ starts \in Nat /\ procs \in TableBy(starts) /\ todo \subseteq NamedBy(starts)
      /\ Gone \notin NamedBy(starts)
  BY GoneIsNone DEF ReapInv, ReapTyped, Planned
<1>2. CASE /\ UNCHANGED <<exits, starts, includeHeld, target, struck>>
           /\ at # "confirm" /\ at' # "confirm"
  BY <1>2 DEF ReapCounts
<1>3. CASE UNCHANGED <<exits, starts, includeHeld, target, struck, at>>
  BY <1>3 DEF ReapCounts
<1>4. ASSUME NEW c \in todo, Terminate(c) PROVE ReapCounts'
  <2>1. Candidate(c.pid) \in NamedBy(starts)
    BY <1>1, <1>4 DEF Candidate, Terminate, TableBy, NamedBy
  <2> QED
    BY <1>1, <1>4, <2>1 DEF Terminate, ReapCounts, plan
<1>5. CASE Confirm
  BY <1>5 DEF Confirm, ReapCounts, tools, plan
<1>6. ASSUME NEW p \in Pids, Exits(p) PROVE ReapCounts'
  BY <1>6, ReapAssumption DEF Exits, ReapCounts, plan
<1>7. ASSUME NEW p \in Pids, NEW q \in Pids, Starts(p, q) PROVE ReapCounts'
  <2>1. starts' = starts + 1 /\ starts' \in 0..MaxStarts /\ NamedBy(starts) \subseteq NamedBy(starts')
    BY <1>1, <1>7, ReapAssumption DEF Starts, NamedBy
  <2> QED
    BY <1>7, <2>1 DEF Starts, ReapCounts, plan
<1> QED
  BY <1>2, <1>3, <1>4, <1>5, <1>6, <1>7 DEF ReapNext, Reaps, MakePlan, Look, NextStage, CannotLook,
     Skip, AlreadyGone, Refused, tools, plan, reapVars

(* The invariant with both holds in every behaviour. *)
LEMMA ReapRunsAlways == ReapSpec => []ReapRuns
<1>1. ReapInit => ReapRuns
  BY ReapInitHolds, RunsInit DEF ReapRuns
<1>2. ReapRuns /\ [ReapNext]_reapVars => ReapRuns'
  BY ReapInvStep, SelfRunsStep, ReapCountsStep DEF ReapRuns
<1> QED
  BY <1>1, <1>2, PTL DEF ReapSpec

(* The types of reap. *)
LEMMA ReapTypes == ReapSpec => []ReapTypeOK
<1>1. ReapRuns => ReapTypeOK
  <2> SUFFICES ASSUME ReapRuns PROVE ReapTypeOK
    OBVIOUS
  <2>1. TableBy(starts) \subseteq Table /\ NamedBy(starts) \subseteq Candidates
    BY ReapAssumption DEF ReapRuns, ReapCounts, TableBy, NamedBy, Table, Candidates
  <2>2. /\ procs \in Table /\ planTable \in Table /\ snapshot \in Table
        /\ orphans \subseteq Candidates /\ held \subseteq Candidates
        /\ terminated \subseteq Candidates /\ skipped \subseteq Candidates
    BY <2>1 DEF ReapRuns, ReapInv, ReapTyped
  <2>3. struck \subseteq Candidates /\ target \in Candidates \cup {Gone}
    BY <2>1 DEF ReapRuns, ReapCounts
  <2> QED
    BY <2>2, <2>3 DEF ReapRuns, ReapInv, ReapTyped, ReapCounts, SelfRuns, ReapTypeOK
<1> QED
  BY <1>1, ReapRunsAlways, PTL

(* SessionSpared as a step: neither reap's own chain is struck nor, of what  *)
(* the last look showed, anything right below the program that it was        *)
(* started from, if that is one of several or right below the Explorer.      *)
SparesSession ==
  \A v \in NewlyStruck : snapshot[v.pid] = procs[v.pid] =>
    LET own == OwnSession(snapshot)
    IN  /\ HangsOn(snapshot, v.pid) # v.pid
        /\ HangsOn(snapshot, v.pid) = own /\ own # NoPid =>
             ~ (ParentAlive(snapshot, own) /\ OneOfSeveral(snapshot, own))

(* For any process table SessionSpared holds: neither reap's chain nor what  *)
(* hangs on the program it was started from is struck.                       *)
THEOREM OwnSessionSpared == ReapSpec => SessionSpared
<1>1. ReapRuns /\ [ReapNext]_reapVars => [SparesSession]_reapVars
  <2> SUFFICES ASSUME ReapRuns, ReapNext PROVE SparesSession
    OBVIOUS
  <2>1. ASSUME NEW c \in todo, Terminate(c)
        PROVE  SparesSession
    <3>1. snapshot \in Tables /\ snapshot[Self].kind = "reap"
      <4>1. TableBy(starts) \subseteq Tables
        BY DEF TableBy, Tables
      <4> QED
        BY <4>1 DEF ReapRuns, SelfRuns, ReapInv, ReapTyped
    <3>2. c.pid \in Pids /\ c.pid \notin ProtectedPids(snapshot)
      BY <2>1 DEF Terminate, Verified, Live
    <3>3. \A v \in NewlyStruck : v.pid = c.pid
      BY <2>1 DEF Terminate, NewlyStruck, Candidate
    <3>4. LET own == OwnSession(snapshot)
          IN  /\ HangsOn(snapshot, c.pid) # c.pid
              /\ HangsOn(snapshot, c.pid) = own /\ own # NoPid =>
                   ~ (ParentAlive(snapshot, own) /\ OneOfSeveral(snapshot, own))
      BY <3>1, <3>2, SparedBy
    <3> QED
      BY <3>3, <3>4 DEF SparesSession
  <2>2. CASE struck' = struck
    BY <2>2 DEF SparesSession, NewlyStruck
  <2> QED
    BY <2>1, <2>2 DEF ReapNext, Reaps, MakePlan, Look, NextStage, CannotLook, Confirm, Skip,
                     AlreadyGone, Refused, Exits, Starts
<1> QED
  BY <1>1, ReapRunsAlways, PTL DEF ReapSpec, SessionSpared, SparesSession

-----------------------------------------------------------------------------
(* The installer of skills and agents.                                       *)
(* What a run is at, and that nothing is listed for removal that somebody    *)
(* ships.                                                                   *)
InOrder ==
  /\ phase \in {"list", "prune"} => command = "skills" /\ files = {} /\ index = "packaged"
  /\ orphaned # {} => phase = "prune" /\ prune
  /\ orphaned \subseteq Retired \ (Core \cup Extras \cup External)

(* What is still to be written, by which command, and for an extra over     *)
(* nothing that was there.                                                  *)
ToWrite(x) ==
  \/ command = "skills" /\ x \in Core \X Files
  \/ command = "agents" /\ x \in Roles \X {"agent"}
  \/ command = "extras" /\ x \in Extras \X Files /\
       (x[1] \in touched \/ text[x[1]][x[2]] = NoFile)
  \/ command = "extras" /\ x \in ExtraRoles \X {"agent"} /\
       (x[1] \in touched \/ agent[x[1]] = NoFile)
Queued == \A x \in files : ToWrite(x)

(* A packaged file that is not as packaged is still to be written. *)
SkillsCovered ==
  command = "skills" =>
    \A n \in Core \ (touched \cup leftAlone), f \in Files :
       text[n][f] = "packaged" \/ <<n, f>> \in files

(* What has become a link since the file was checked is one a person planted. *)
LinkPlanted == phase = "swap" /\ IsLink(chosen) => chosen[1] \in planted

(* An agent is written beside its skill. *)
Needed ==
  command = "agents" =>
    \A r \in Roles : Needs[r] \in touched \/ text[Needs[r]][SkillMd] # NoFile

SkillInv ==
  /\ SkillTypeOK /\ InOrder /\ Queued /\ SkillsCovered /\ LinkPlanted /\ Needed
  /\ ShippedWhenDone /\ AgentsHaveSkills

-----------------------------------------------------------------------------
(* What the three commands plan, file by file. *)
LEMMA PlanOfSkills ==
  ASSUME NEW x, x \in OfSkills
  PROVE  \E n \in Core, f \in Files : x = <<n, f>>
  BY DEF OfSkills, PlanSkill
(* What is planned of agents is one file of each. *)
LEMMA PlanOfAgents ==
  ASSUME NEW roles, NEW x, x \in OfAgents(roles)
  PROVE  \E r \in roles : x = <<r, "agent">>
  BY DEF OfAgents
(* What is planned of skills: every packaged file that is not there as *)
(* packaged.                                                           *)
LEMMA PlannedOfSkills ==
  ASSUME NEW n \in Core, NEW f \in Files, folder[n] # "link", text[n][f] # "packaged"
  PROVE  <<n, f>> \in OfSkills
  BY DEF OfSkills, PlanSkill

(* A file to write is a skill's or an agent's, never both. *)
LEMMA TargetCases ==
  ASSUME NEW x \in Targets
  PROVE  \/ x[2] = "agent" /\ x[1] \in Roles \cup ExtraRoles /\ x = <<x[1], "agent">>
         \/ x[2] # "agent" /\ x[1] \in Names /\ x[2] \in Files /\ x = <<x[1], x[2]>>
<1>1. CASE x \in Names \X Files
  BY <1>1, SkillsAssumption
<1>2. CASE x \in (Roles \cup ExtraRoles) \X {"agent"}
  BY <1>2
<1> QED
  BY <1>1, <1>2 DEF Targets

(* What starting a command plans, whichever it is. *)
LEMMA StartTyped ==
  ASSUME SkillTypeOK, NEW what \in {"skills", "agents", "extras"}, NEW flag \in BOOLEAN,
         NEW planned \in SUBSET Targets, Start(what, planned, flag)
  PROVE  SkillTypeOK'
  BY DEF Start, SkillTypeOK, onDisk, counted

(* No step leaves a variable out of its type. *)
LEMMA SkillTypeStep == SkillTypeOK /\ [SkillNext]_skillVars => SkillTypeOK'
<1> SUFFICES ASSUME SkillTypeOK, [SkillNext]_skillVars PROVE SkillTypeOK'
  OBVIOUS
<1>0. /\ Core \subseteq Names /\ Extras \subseteq Names /\ NoFile \notin Targets
      /\ MaxEdits \in Nat /\ MaxFailures \in Nat
  BY SkillsAssumption
<1>1. ASSUME NEW flag \in BOOLEAN, InstallSkills(flag) PROVE SkillTypeOK'
  <2>1. \A x \in OfSkills : x \in Targets
    BY <1>0, PlanOfSkills DEF Targets
  <2> QED
    BY <1>1, <2>1, StartTyped DEF InstallSkills
<1>2. CASE InstallAgents
  <2>1. OfAgents({r \in Roles : agent[r] \notin {"packaged", "link"}}) \subseteq Targets
    BY PlanOfAgents DEF Targets
  <2> QED
    BY <1>2, <2>1, StartTyped DEF InstallAgents
<1>3. ASSUME NEW only, InstallExtras(only) PROVE SkillTypeOK'
  <2>1. \A x \in OfExtras(only) : x \in Targets
    BY <1>0 DEF OfExtras, PlanExtra, Targets
  <2>2. OfAgents({r \in only \cap ExtraRoles : agent[r] = NoFile}) \subseteq Targets
    BY PlanOfAgents DEF Targets
  <2> QED
    BY <1>3, <2>1, <2>2, StartTyped DEF InstallExtras
<1>4. ASSUME Ends, UNCHANGED onDisk, UNCHANGED seen, UNCHANGED edits,
             failures' \in 0..MaxFailures
      PROVE  SkillTypeOK'
  BY <1>0, <1>4 DEF Ends, onDisk, seen, SkillTypeOK
<1>5. ASSUME NEW x \in files, CheckFile(x) PROVE SkillTypeOK'
  <2>1. folder' \in [Names -> {"absent", "dir", "link"}]
    BY <1>5 DEF CheckFile, SkillTypeOK
  <2>2. \A n \in Names : folder'[n] = "absent" => folder[n] = "absent"
    BY <1>5 DEF CheckFile, SkillTypeOK
  <2> QED
    BY <1>5, <2>1, <2>2 DEF CheckFile, SkillTypeOK, counted
<1>6. ASSUME NEW x \in files, RefuseLink(x) PROVE SkillTypeOK'
  BY <1>4, <1>6 DEF RefuseLink, counted, SkillTypeOK
<1>7. CASE SwapIn
  <2>1. chosen \in Targets
    BY <1>7 DEF SwapIn, SkillTypeOK
  <2>2. text' \in [Names -> [Files -> Texts \cup {NoFile}]]
    BY <1>7, <2>1, TargetCases DEF SwapIn, SkillTypeOK, Texts
  <2>3. agent' \in [Roles \cup ExtraRoles -> Texts \cup {"link", NoFile}]
    BY <1>7, <2>1, TargetCases DEF SwapIn, SkillTypeOK, Texts
  <2>4. installed' \subseteq Roles
    BY <1>7 DEF SwapIn, SkillTypeOK
  <2>5. \A n \in Names : folder[n] = "absent" => text'[n] = text[n]
    BY <1>7, <2>1, TargetCases DEF SwapIn, SkillTypeOK
  <2> QED
    BY <1>0, <1>7, <2>2, <2>3, <2>4, <2>5 DEF SwapIn, SkillTypeOK, counted
<1>8. CASE SwapFails \/ Finish \/ FinishSkills
  BY <1>4, <1>8 DEF SwapFails, Finish, FinishSkills, counted, SkillTypeOK
<1>9. CASE SyncIndex
  BY <1>9 DEF SyncIndex, SkillTypeOK, counted, seen
<1>10. CASE ListOrphans
  BY <1>10 DEF ListOrphans, SkillTypeOK, onDisk, counted, Orphans, InstalledNames
<1>11. ASSUME NEW n \in orphaned, NEW f \in Files, RemoveFile(n, f) PROVE SkillTypeOK'
  <2>1. text' \in [Names -> [Files -> Texts \cup {NoFile}]]
    BY <1>11 DEF RemoveFile, SkillTypeOK
  <2>2. \A m \in Names, g \in Files : text[m][g] = NoFile => text'[m][g] = NoFile
    BY <1>11 DEF RemoveFile, SkillTypeOK
  <2> QED
    BY <1>11, <2>1, <2>2 DEF RemoveFile, SkillTypeOK, running, counted, seen
<1>12. ASSUME NEW n \in orphaned, RemoveFolder(n) PROVE SkillTypeOK'
  BY <1>12 DEF RemoveFolder, SkillTypeOK, counted, seen
<1>13. CASE Fails
  BY <1>0, <1>4, <1>13 DEF Fails, SkillTypeOK
<1>14. ASSUME NEW x, Touches(x)
       PROVE  edits' \in 0..MaxEdits /\ complete' \in BOOLEAN /\ installed' \subseteq Roles
  BY <1>0, <1>14 DEF Touches, SkillTypeOK
<1>15. ASSUME NEW n \in Names, RemoveSkill(n) PROVE SkillTypeOK'
  BY <1>14, <1>15 DEF RemoveSkill, Touches, SkillTypeOK, running
<1>16. ASSUME NEW n \in Names, PlantLink(n) PROVE SkillTypeOK'
  BY <1>14, <1>16 DEF PlantLink, Touches, SkillTypeOK, running, Texts
<1>17. ASSUME NEW n \in Names, NEW f \in Files, EditFile(n, f) PROVE SkillTypeOK'
  <2>1. PICK t \in {"own", NoFile} : text' = [text EXCEPT ![n][f] = t]
    BY <1>17 DEF EditFile
  <2>2. text' \in [Names -> [Files -> Texts \cup {NoFile}]]
    BY <2>1 DEF SkillTypeOK, Texts
  <2>3. \A m \in Names : folder[m] = "absent" => text'[m] = text[m]
    BY <1>17, <2>1 DEF EditFile, SkillTypeOK
  <2>4. /\ folder' = folder /\ agent' = agent /\ index' = index /\ UNCHANGED running
        /\ edits' \in 0..MaxEdits /\ failures' = failures
        /\ complete' \in BOOLEAN /\ installed' \subseteq Roles
    BY <1>14, <1>17 DEF EditFile, Touches
  <2>5. \A m \in Names : folder'[m] = "absent" => \A g \in Files : text'[m][g] = NoFile
    BY <2>3, <2>4 DEF SkillTypeOK
  <2> QED
    BY <2>2, <2>4, <2>5 DEF SkillTypeOK, running
<1>18. ASSUME NEW r \in Roles \cup ExtraRoles, EditAgent(r) PROVE SkillTypeOK'
  <2>1. agent' \in [Roles \cup ExtraRoles -> Texts \cup {"link", NoFile}]
    BY <1>18 DEF EditAgent, SkillTypeOK, Texts
  <2> QED
    BY <1>14, <1>18, <2>1 DEF EditAgent, Touches, SkillTypeOK, running
<1>19. CASE UNCHANGED skillVars
  BY <1>19 DEF skillVars, onDisk, running, counted, seen, SkillTypeOK
<1> QED
  BY <1>1, <1>2, <1>3, <1>5, <1>6, <1>7, <1>8, <1>9, <1>10, <1>11, <1>12, <1>13, <1>15,
     <1>16, <1>17, <1>18, <1>19 DEF SkillNext, Installs, Edited

-----------------------------------------------------------------------------
(* Starting a command establishes what the invariant says of its plan. *)
LEMMA StartStep ==
  ASSUME SkillInv, SkillTypeOK', NEW what, NEW flag, NEW planned, Start(what, planned, flag),
         \A x \in planned : ToWrite(x)', SkillsCovered', Needed'
  PROVE  SkillInv'
<1>1. InOrder' /\ Queued' /\ LinkPlanted'
  BY DEF Start, InOrder, Queued, LinkPlanted
<1>2. ShippedWhenDone' /\ AgentsHaveSkills'
  BY DEF Start, SkillInv, onDisk, ShippedWhenDone, AgentsHaveSkills
<1> QED
  BY <1>1, <1>2 DEF SkillInv

(* A run that ends leaves the disk as it is. *)
LEMMA EndStep ==
  ASSUME SkillInv, SkillTypeOK', Ends, UNCHANGED onDisk, UNCHANGED seen
  PROVE  SkillInv'
<1>1. InOrder' /\ Queued' /\ SkillsCovered' /\ LinkPlanted' /\ Needed'
  BY DEF Ends, InOrder, Queued, SkillsCovered, LinkPlanted, Needed
<1>2. ShippedWhenDone' /\ AgentsHaveSkills'
  BY DEF SkillInv, onDisk, seen, ShippedWhenDone, AgentsHaveSkills
<1> QED
  BY <1>1, <1>2 DEF SkillInv

(* A file a run swaps in is a packaged one, in the place it was planned for. *)
LEMMA SwapStep ==
  ASSUME SkillInv, SwapIn
  PROVE  /\ chosen \in Targets /\ chosen \in files /\ ToWrite(chosen)
         /\ \A n \in Names, f \in Files :
              text'[n][f] = IF chosen = <<n, f>> THEN "packaged" ELSE text[n][f]
         /\ \A r \in Roles \cup ExtraRoles :
              agent'[r] = IF chosen = <<r, "agent">> THEN "packaged" ELSE agent[r]
<1>1. chosen \in Targets /\ chosen \in files
  BY SkillsAssumption DEF SkillInv, SkillTypeOK, SwapIn
<1>2. CASE chosen[2] = "agent"
  BY <1>1, <1>2, TargetCases, SkillsAssumption DEF SkillInv, SkillTypeOK, SwapIn, Queued
<1>3. CASE chosen[2] # "agent"
  BY <1>1, <1>3, TargetCases DEF SkillInv, SkillTypeOK, SwapIn, Queued
<1> QED
  BY <1>2, <1>3

(* What a person touches is out of what the invariant answers for. *)
LEMMA TouchStep ==
  ASSUME SkillInv, SkillTypeOK', NEW x, Touches(x),
         \A n \in Names \ {x} : text'[n] = text[n],
         \A r \in (Roles \cup ExtraRoles) \ {x} : agent'[r] = agent[r],
         planted \subseteq planted',
         chosen \in Targets /\ IsLink(chosen)' => IsLink(chosen) \/ chosen[1] \in planted'
  PROVE  SkillInv'
<1>0. /\ Core \subseteq Names /\ Extras \subseteq Names
      /\ \A r \in Roles : Needs[r] \in Names /\ Needs[r] \in Core
  BY SkillsAssumption
<1>1. InOrder'
  BY DEF SkillInv, Touches, running, InOrder
<1>2. Queued'
  BY <1>0 DEF SkillInv, Touches, running, Queued, ToWrite
<1>3. SkillsCovered'
  BY <1>0 DEF SkillInv, Touches, running, SkillsCovered
<1>4. LinkPlanted'
  BY DEF SkillInv, Touches, running, SkillTypeOK, LinkPlanted, IsLink
<1>5. Needed'
  BY <1>0 DEF SkillInv, Touches, running, Needed
<1>6. ShippedWhenDone'
  BY <1>0 DEF SkillInv, Touches, ShippedWhenDone
<1>7. AgentsHaveSkills'
  BY <1>0 DEF SkillInv, Touches, AgentsHaveSkills, SkillTypeOK
<1> QED
  BY <1>1, <1>2, <1>3, <1>4, <1>5, <1>6, <1>7 DEF SkillInv

(* The invariant. *)
LEMMA SkillInvStep == SkillInv /\ [SkillNext]_skillVars => SkillInv'
<1> SUFFICES ASSUME SkillInv, [SkillNext]_skillVars PROVE SkillInv'
  OBVIOUS
<1>0. /\ SkillTypeOK /\ SkillTypeOK'
      /\ Core \subseteq Names /\ Extras \subseteq Names /\ SkillMd \in Files
      /\ \A r \in Roles : Needs[r] \in Names /\ Needs[r] \in Core
  BY SkillTypeStep, SkillsAssumption DEF SkillInv
<1>1. ASSUME NEW flag \in BOOLEAN, InstallSkills(flag) PROVE SkillInv'
  <2>1. \A x \in OfSkills : ToWrite(x)'
    BY <1>1, PlanOfSkills DEF InstallSkills, Start, ToWrite
  <2>2. SkillsCovered'
    BY <1>0, <1>1, PlannedOfSkills DEF InstallSkills, Start, SkillsCovered, onDisk
  <2>3. Needed'
    BY <1>1 DEF InstallSkills, Start, Needed
  <2> QED
    BY <1>0, <1>1, <2>1, <2>2, <2>3, StartStep DEF InstallSkills
<1>2. CASE InstallAgents
  <2>1. \A x \in OfAgents({r \in Roles : agent[r] \notin {"packaged", "link"}}) : ToWrite(x)'
    BY <1>2 DEF OfAgents, InstallAgents, Start, ToWrite
  <2>2. SkillsCovered'
    BY <1>2 DEF InstallAgents, Start, SkillsCovered
  <2>3. Needed'
    BY <1>2 DEF InstallAgents, Start, Gated, Needed, onDisk
  <2> QED
    BY <1>0, <1>2, <2>1, <2>2, <2>3, StartStep DEF InstallAgents
<1>3. ASSUME NEW only, InstallExtras(only) PROVE SkillInv'
  <2>1. \A x \in OfExtras(only) : ToWrite(x)'
    BY <1>3 DEF OfExtras, PlanExtra, InstallExtras, Start, ToWrite, onDisk
  <2>2. \A x \in OfAgents({r \in only \cap ExtraRoles : agent[r] = NoFile}) : ToWrite(x)'
    BY <1>3 DEF OfAgents, InstallExtras, Start, ToWrite, onDisk
  <2>3. SkillsCovered' /\ Needed'
    BY <1>3 DEF InstallExtras, Start, SkillsCovered, Needed
  <2>4. \A x \in OfExtras(only) \cup
                OfAgents({r \in only \cap ExtraRoles : agent[r] = NoFile}) : ToWrite(x)'
    BY <2>1, <2>2
  <2> QED
    BY <1>0, <1>3, <2>3, <2>4, StartStep DEF InstallExtras
<1>4. ASSUME NEW x \in files, CheckFile(x) PROVE SkillInv'
  <2>1. LinkPlanted'
    BY <1>0, <1>4 DEF CheckFile, LinkPlanted, IsLink, SkillTypeOK
  <2>2. InOrder' /\ Queued' /\ SkillsCovered' /\ Needed'
    BY <1>4 DEF SkillInv, CheckFile, InOrder, Queued, ToWrite, SkillsCovered, Needed
  <2> QED
    BY <1>0, <1>4, <2>1, <2>2 DEF SkillInv, CheckFile, ShippedWhenDone, AgentsHaveSkills
<1>5. CASE (\E x \in files : RefuseLink(x)) \/ SwapFails \/ Finish \/ FinishSkills \/ Fails
  BY <1>0, <1>5, EndStep DEF RefuseLink, SwapFails, Finish, FinishSkills, Fails
<1>6. CASE SwapIn
  <2>1. /\ chosen \in Targets /\ chosen \in files /\ ToWrite(chosen)
        /\ \A n \in Names, f \in Files :
             text'[n][f] = IF chosen = <<n, f>> THEN "packaged" ELSE text[n][f]
        /\ \A r \in Roles \cup ExtraRoles :
             agent'[r] = IF chosen = <<r, "agent">> THEN "packaged" ELSE agent[r]
    BY <1>6, SwapStep
  <2>2. files' = files \ {chosen} /\ phase' = "write" /\ phase = "swap"
    BY <1>6 DEF SwapIn
  <2>3. UNCHANGED <<folder, index, command, prune, leftAlone, orphaned, touched, complete>>
    BY <1>6 DEF SwapIn
  <2>4. InOrder'
    BY <2>1, <2>2, <2>3 DEF SkillInv, InOrder, ToWrite
  <2>5. Queued'
    BY <1>0, <2>1, <2>2, <2>3 DEF SkillInv, Queued, ToWrite
  <2>6. SkillsCovered'
    BY <1>0, <2>1, <2>2, <2>3 DEF SkillInv, SkillsCovered
  <2>7. Needed'
    BY <1>0, <2>1, <2>3, SkillsAssumption DEF SkillInv, Needed, Texts
  <2>8. ShippedWhenDone'
    BY <1>0, <2>1, <2>3 DEF SkillInv, ShippedWhenDone
  <2>9. AgentsHaveSkills'
    <3>1. ASSUME NEW r \in installed' \ installed
          PROVE  chosen = <<r, "agent">> /\ r \in Roles /\ Needs[r] \notin touched
      BY <1>6, <2>1, TargetCases, <3>1 DEF SwapIn
    <3>2. ASSUME NEW r \in installed' \ installed PROVE command = "agents"
      BY <2>1, <3>1, SkillsAssumption DEF ToWrite
    <3>3. ASSUME NEW r \in installed'
          PROVE  r \in Roles /\ text[Needs[r]][SkillMd] # NoFile /\ agent'[r] = "packaged"
      BY <1>0, <2>1, <3>1, <3>2 DEF SkillInv, Needed, AgentsHaveSkills, SkillTypeOK
    <3> QED
      BY <1>0, <2>1, <3>3, SkillsAssumption DEF AgentsHaveSkills, Texts
  <2> QED
    BY <1>0, <2>2, <2>4, <2>5, <2>6, <2>7, <2>8, <2>9 DEF SkillInv, LinkPlanted
<1>7. CASE SyncIndex
  BY <1>0, <1>7 DEF SyncIndex, seen, counted, SkillInv, InOrder, Queued, ToWrite, SkillsCovered,
    LinkPlanted, Needed, ShippedWhenDone, AgentsHaveSkills
<1>8. CASE ListOrphans
  <2>1. ShippedWhenDone'
    BY <1>0, <1>8 DEF ListOrphans, onDisk, SkillInv, InOrder, SkillsCovered, ShippedWhenDone
  <2>2. InOrder' /\ Queued' /\ SkillsCovered' /\ LinkPlanted' /\ Needed'
    BY <1>8 DEF ListOrphans, onDisk, SkillInv, InOrder, Queued, SkillsCovered, LinkPlanted, Needed, Orphans
  <2> QED
    BY <1>0, <1>8, <2>1, <2>2 DEF ListOrphans, onDisk, SkillInv, AgentsHaveSkills
<1>9. ASSUME NEW n \in orphaned, NEW f \in Files, RemoveFile(n, f) PROVE SkillInv'
  <2>1. \A m \in Core \cup Extras : text'[m] = text[m]
    BY <1>0, <1>9 DEF RemoveFile, SkillInv, InOrder, SkillTypeOK
  <2>2. UNCHANGED <<folder, agent, index, running, counted, seen>>
    BY <1>9 DEF RemoveFile
  <2> QED
    BY <1>0, <2>1, <2>2 DEF running, seen, counted, SkillInv, InOrder, Queued, ToWrite, SkillsCovered,
      LinkPlanted, IsLink, Needed, ShippedWhenDone, AgentsHaveSkills, SkillTypeOK
<1>10. ASSUME NEW n \in orphaned, RemoveFolder(n) PROVE SkillInv'
  BY <1>0, <1>10 DEF RemoveFolder, seen, counted, SkillInv, InOrder, Queued, ToWrite, SkillsCovered,
    LinkPlanted, Needed, ShippedWhenDone, AgentsHaveSkills
<1>11. ASSUME NEW n \in Names, RemoveSkill(n) \/ PlantLink(n) PROVE SkillInv'
  <2>1. /\ Touches(n) /\ UNCHANGED <<agent, chosen>>
        /\ \A m \in Names \ {n} : text'[m] = text[m] /\ folder'[m] = folder[m]
        /\ planted \subseteq planted' /\ (folder'[n] = "link" => n \in planted')
    BY <1>0, <1>11 DEF RemoveSkill, PlantLink, Touches, running, SkillTypeOK
  <2>2. chosen \in Targets /\ IsLink(chosen)' => IsLink(chosen) \/ chosen[1] \in planted'
    BY <2>1, TargetCases DEF IsLink
  <2> QED
    BY <1>0, <2>1, <2>2, TouchStep
<1>12. ASSUME NEW n \in Names, NEW f \in Files, EditFile(n, f) PROVE SkillInv'
  <2>1. /\ Touches(n) /\ UNCHANGED <<folder, agent, chosen, planted>>
        /\ \A m \in Names \ {n} : text'[m] = text[m]
    BY <1>0, <1>12 DEF EditFile, Touches, running, SkillTypeOK
  <2> QED
    BY <1>0, <2>1, TouchStep DEF IsLink
<1>13. ASSUME NEW r \in Roles \cup ExtraRoles, EditAgent(r) PROVE SkillInv'
  BY <1>0, <1>13, TouchStep DEF EditAgent, IsLink, Touches, running, SkillTypeOK
<1>14. CASE UNCHANGED skillVars
  BY <1>0, <1>14 DEF skillVars, onDisk, running, counted, seen, SkillInv, InOrder, Queued, ToWrite,
    SkillsCovered, LinkPlanted, IsLink, Needed, ShippedWhenDone, AgentsHaveSkills
<1> QED
  BY <1>1, <1>2, <1>3, <1>4, <1>5, <1>6, <1>7, <1>8, <1>9, <1>10, <1>11, <1>12, <1>13, <1>14
  DEF SkillNext, Installs, Edited

(* Every variable of the installer keeps its type, and an absent folder has  *)
(* no files.                                                                *)
THEOREM SkillTypeCorrect == SkillSpec => []SkillTypeOK
<1>1. SkillInit => SkillTypeOK
  <2> SUFFICES ASSUME SkillInit PROVE SkillTypeOK
    OBVIOUS
  <2>1. edits \in 0..MaxEdits /\ failures \in 0..MaxFailures /\ chosen \notin Targets
    BY SkillsAssumption DEF SkillInit
  <2>2. text \in [Names -> [Files -> Texts \cup {NoFile}]]
    BY DEF SkillInit, Texts
  <2>3. agent \in [Roles \cup ExtraRoles -> Texts \cup {"link", NoFile}]
    BY DEF SkillInit, Texts
  <2> QED
    BY <2>1, <2>2, <2>3 DEF SkillInit, SkillTypeOK
<1> QED
  BY <1>1, SkillTypeStep, PTL DEF SkillSpec

(* The invariant of the installer holds in every behaviour. *)
LEMMA SkillInvAlways == SkillSpec => []SkillInv
<1>1. SkillInit /\ SkillTypeOK => SkillInv
  BY DEF SkillInit, SkillInv, InOrder, Queued, SkillsCovered, LinkPlanted, Needed, ShippedWhenDone,
    AgentsHaveSkills
<1> QED
  BY <1>1, SkillTypeCorrect, SkillInvStep, PTL DEF SkillSpec

(* Once a run over the skills gets through, what is packaged is installed   *)
(* until a person changes it, whatever runs, dies or fails later.           *)
THEOREM Shipped == SkillSpec => []ShippedWhenDone
<1>1. SkillInv => ShippedWhenDone
  BY DEF SkillInv
<1> QED
  BY <1>1, SkillInvAlways, PTL

(* No run leaves an agent it has written without the skill it needs.        *)
THEOREM SkillsBeside == SkillSpec => []AgentsHaveSkills
<1>1. SkillInv => AgentsHaveSkills
  BY DEF SkillInv
<1> QED
  BY <1>1, SkillInvAlways, PTL

-----------------------------------------------------------------------------
(* What one step of a run does to the files of a skill, and to an agent.    *)
SkillKept(n, f) ==
  text'[n][f] # text[n][f] =>
    IF text'[n][f] = "packaged" THEN MayWrite(n, f) ELSE MayRemove(n)
AgentKept(r) ==
  agent'[r] # agent[r] =>
    /\ agent'[r] = "packaged"
    /\ agent[r] = "link" => r \in planted
    /\ r \in ExtraRoles => agent[r] = NoFile \/ r \in touched
OwnFiles ==
  /\ \A n \in Names, f \in Files : SkillKept(n, f)
  /\ \A n \in Names : folder[n] = "link" => folder'[n] = "link"
  /\ \A r \in Roles \cup ExtraRoles : AgentKept(r)

(* A run changes no file but its own, none behind a link that was there when *)
(* it looked, and removes nothing but what is retired.                      *)
LEMMA OwnStep == ASSUME SkillInv, [SkillNext]_skillVars, edits' = edits PROVE OwnFiles
<1>0. SkillTypeOK /\ edits \in Nat
  BY SkillsAssumption DEF SkillInv, SkillTypeOK
<1>1. CASE UNCHANGED <<text, folder, agent>>
  BY <1>1 DEF OwnFiles, SkillKept, AgentKept
<1>2. ASSUME NEW x \in files, CheckFile(x) PROVE OwnFiles
  BY <1>0, <1>2 DEF CheckFile, IsLink, SkillTypeOK, OwnFiles, SkillKept, AgentKept
<1>3. CASE SwapIn
  <2>1. /\ chosen \in Targets /\ chosen \in files /\ ToWrite(chosen)
        /\ \A n \in Names, f \in Files :
             text'[n][f] = IF chosen = <<n, f>> THEN "packaged" ELSE text[n][f]
        /\ \A r \in Roles \cup ExtraRoles :
             agent'[r] = IF chosen = <<r, "agent">> THEN "packaged" ELSE agent[r]
    BY <1>3, SwapStep
  <2>2. IsLink(chosen) => chosen[1] \in planted
    BY <1>3 DEF SwapIn, SkillInv, LinkPlanted
  <2>3. ASSUME NEW n \in Names, NEW f \in Files PROVE SkillKept(n, f)
    BY <2>1, <2>2, <2>3, SkillsAssumption DEF SkillKept, MayWrite, ToWrite, IsLink
  <2>4. ASSUME NEW r \in Roles \cup ExtraRoles PROVE AgentKept(r)
    BY <2>1, <2>2, <2>4, SkillsAssumption DEF AgentKept, ToWrite, IsLink
  <2> QED
    BY <1>3, <2>3, <2>4 DEF SwapIn, OwnFiles
<1>4. ASSUME NEW n \in orphaned, NEW f \in Files, RemoveFile(n, f) PROVE OwnFiles
  <2>1. ASSUME NEW m \in Names, NEW g \in Files, text'[m][g] # text[m][g]
        PROVE  m = n /\ text'[m][g] = NoFile
    BY <1>0, <1>4, <2>1 DEF RemoveFile, SkillTypeOK
  <2>2. MayRemove(n) /\ NoFile # "packaged"
    BY <1>4, SkillsAssumption DEF RemoveFile, SkillInv, InOrder, MayRemove, Texts
  <2> QED
    BY <1>4, <2>1, <2>2 DEF RemoveFile, OwnFiles, SkillKept, AgentKept
<1>5. ASSUME NEW n \in orphaned, RemoveFolder(n) PROVE OwnFiles
  BY <1>0, <1>5 DEF RemoveFolder, SkillTypeOK, OwnFiles, SkillKept, AgentKept
<1>6. ~Edited
  BY <1>0 DEF Edited, RemoveSkill, PlantLink, EditFile, EditAgent, Touches
<1> QED
  BY <1>1, <1>2, <1>3, <1>4, <1>5, <1>6 DEF SkillNext, Installs, InstallSkills, InstallAgents,
    InstallExtras, Start, RefuseLink, SwapFails, SyncIndex, Finish, ListOrphans, FinishSkills,
    Fails, skillVars, onDisk

(* No run writes through a link that was there when it looked, or changes *)
(* a folder that is not its own.                                          *)
THEOREM OwnFilesOnly == SkillSpec => OnlyOwnFiles
<1>1. SkillInv /\ [SkillNext]_skillVars => [edits' = edits => OwnFiles]_skillVars
  BY OwnStep
<1> QED
  BY <1>1, SkillInvAlways, PTL DEF SkillSpec, OnlyOwnFiles, OwnFiles, SkillKept, AgentKept

-----------------------------------------------------------------------------
(* The doctor tells no healthy story about a world that is not healthy,      *)
(* however many things have gone wrong at once.                              *)
(* The facts of the world keep their values, and a report is of the world   *)
(* as it is: whatever changes the world discards it.                        *)
World(w) ==
  /\ w = [fact \in DOMAIN Values |-> w[fact]]
  /\ \A fact \in DOMAIN Values : w[fact] \in Values[fact]
WorldTyped == World(world)
ReportIsOfNow ==
  /\ installing => report = {}
  /\ report = {} \/ \E named, offline \in BOOLEAN : report = RunDoctor(world, named, offline)
DoctorInv == WorldTyped /\ ReportIsOfNow

(* The facts that commands and people change, by name. *)
LEMMA FactsByName ==
  DOMAIN Values =
       {"source", "own", "declared", "tagged", "mcp", "home", "authDb", "registry", "path", "jira",
        "notify", "git", "tracked", "leak", "worktrees", "config", "commitHook", "pushHook",
        "pushRuns", "legacy", "env", "pin", "skills", "stray", "processes", "agentsMd", "reached",
        "settings", "session", "prompt", "host"}
  BY DEF Values

(* The values of every fact of the world. *)
LEMMA ValuesByName ==
  /\ Values.source = BOOLEAN /\ Values.pushRuns = BOOLEAN /\ Values.legacy = BOOLEAN
  /\ Values.declared = 0..2 /\ Values.tagged = 0..2 /\ Values.mcp = 0..2
  /\ Values.home = {"absent", "private", "open", "granted"}
  /\ Values.authDb = {"absent", "private", "open", "granted"}
  /\ Values.registry = {"absent", "malformed", "empty", "v1", "v2"}
  /\ Values.path = {"none", "missing", "plain", "wrapper", "repo"}
  /\ Values.jira = {"none", "unresolved", "bad token", "no such key", "good"}
  /\ Values.notify = {"none", "channel", "webhook"}
  /\ Values.tracked = {"nothing", "something"}
  /\ Values.leak = {"none", "layer", "dependency"}
  /\ Values.worktrees = {"unreadable", "missing", "different", "same"}
  /\ Values.config = {"none", "unguarded", "odd", "guarded", "guards push"}
  /\ Values.commitHook = {"absent", "inert", "runs"}
  /\ Values.pushHook = {"absent", "packaged", "stale", "foreign", "shim"}
  /\ Values.env = {"absent", "old name", "behind", "stale", "current"}
  /\ Values.skills = {"absent", "missing", "drifted", "same"}
  /\ Values.stray = {"none", "external", "moved", "retired", "retired link", "unknown"}
  /\ Values.processes = {"unreadable", "none", "orphan", "held", "stubborn"}
  /\ Values.agentsMd = {"absent", "undecodable", "no block", "dead route", "routes"}
  /\ Values.reached = {"undecodable", "by itself", "named"}
  /\ Values.settings = {"unreadable", "absent", "object"}
  /\ Values.session = {"none", "elsewhere", "broken", "works"}
  /\ Values.prompt = {"none", "elsewhere", "broken", "works"}
  /\ Values.host = {"absent", "garbled", "empty", "unresolved", "rival", "stale project", "fine"}
  BY DEF Values

(* The healthy world has the types, and no report is older than it. *)
LEMMA DoctorInitHolds == DoctorInit => DoctorInv
<1> SUFFICES ASSUME NEW source \in BOOLEAN, NEW own \in BOOLEAN, world = Healthy(source, own),
                    report = {}
             PROVE  DoctorInv
  BY DEF DoctorInit
<1>1. DOMAIN Healthy(source, own) = DOMAIN Values
  BY DEF Healthy, Values
<1>2. \A fact \in DOMAIN Values : Healthy(source, own)[fact] \in Values[fact]
  <2> DEFINE h == Healthy(source, own)
  <2>1. /\ h.source \in Values.source /\ h.own \in Values.own /\ h.declared \in Values.declared
        /\ h.tagged \in Values.tagged /\ h.mcp \in Values.mcp /\ h.home \in Values.home
        /\ h.authDb \in Values.authDb /\ h.registry \in Values.registry /\ h.path \in Values.path
        /\ h.jira \in Values.jira /\ h.notify \in Values.notify /\ h.git \in Values.git
        /\ h.tracked \in Values.tracked /\ h.leak \in Values.leak /\ h.worktrees \in Values.worktrees
        /\ h.config \in Values.config /\ h.commitHook \in Values.commitHook /\ h.pushHook \in Values.pushHook
        /\ h.pushRuns \in Values.pushRuns /\ h.legacy \in Values.legacy /\ h.env \in Values.env
        /\ h.pin \in Values.pin /\ h.skills \in Values.skills /\ h.stray \in Values.stray
        /\ h.processes \in Values.processes /\ h.agentsMd \in Values.agentsMd /\ h.reached \in Values.reached
        /\ h.settings \in Values.settings /\ h.session \in Values.session /\ h.prompt \in Values.prompt
        /\ h.host \in Values.host
    BY DEF Healthy, Values
  <2> QED
    BY <2>1, FactsByName
<1>3. Healthy(source, own) = [fact \in DOMAIN Healthy(source, own) |-> Healthy(source, own)[fact]]
  BY DEF Healthy
<1> QED
  BY <1>1, <1>2, <1>3 DEF DoctorInv, WorldTyped, World, ReportIsOfNow

-----------------------------------------------------------------------------
(* A world with one fact changed. *)
LEMMA OneFact ==
  ASSUME NEW w, World(w), NEW fact \in DOMAIN Values, NEW value \in Values[fact]
  PROVE  World([w EXCEPT ![fact] = value])
  BY DEF World

(* drunken-init leaves a typed world, and changes two facts of it. *)
LEMMA InitialisedTyped ==
  ASSUME NEW w, World(w)
  PROVE  World(Initialised(w))
<1> DEFINE read == IF w.registry \in {"absent", "empty"} THEN "empty" ELSE "v2"
           w1 == [w EXCEPT !.home = "private"]
           w2 == [w1 EXCEPT !.registry = read]
<1>1. World(w1)
  BY OneFact, FactsByName, ValuesByName
<1>2. read \in Values.registry
  BY ValuesByName
<1>3. World(w2)
  BY <1>1, <1>2, OneFact, FactsByName
<1>4. Initialised(w) = w2
  BY DEF Initialised
<1> QED
  BY <1>3, <1>4

(* Fact by fact: what drunken-init writes, and what it leaves. *)
LEMMA InitialisedFacts ==
  ASSUME NEW w, World(w)
  PROVE  /\ Initialised(w).home = "private"
         /\ Initialised(w).registry = (IF w.registry \in {"absent", "empty"} THEN "empty" ELSE "v2")
         /\ \A fact \in DOMAIN Values \ {"home", "registry"} : Initialised(w)[fact] = w[fact]
         /\ DOMAIN Initialised(w) = DOMAIN Values
<1> DEFINE read == IF w.registry \in {"absent", "empty"} THEN "empty" ELSE "v2"
           w1 == [w EXCEPT !.home = "private"]
           w2 == [w1 EXCEPT !.registry = read]
<1>1. DOMAIN w = DOMAIN Values
  BY DEF World
<1>2. w2.home = "private" /\ w2.registry = read
  BY <1>1, FactsByName
<1>3. \A fact \in DOMAIN Values \ {"home", "registry"} : w2[fact] = w[fact]
  BY <1>1
<1>4. Initialised(w) = w2
  BY DEF Initialised
<1> QED
  BY <1>1, <1>2, <1>3, <1>4

(* The commands about git hooks keep the world typed. *)
LEMMA HookCommandsTyped ==
  ASSUME WorldTyped, RefuseHook \/ LeaveHook \/ WriteHook \/ MakeExecutable \/ Dies \/ PreCommitInstall
  PROVE  WorldTyped'
<1>1. /\ world.pushRuns \in BOOLEAN /\ world.legacy \in BOOLEAN
      /\ world.pushHook \in Values.pushHook
  BY FactsByName, ValuesByName, ZenonT(40) DEF WorldTyped, World
<1>0. CASE RefuseHook \/ LeaveHook
  BY <1>0, InitialisedTyped DEF RefuseHook, LeaveHook, WorldTyped
<1>2. CASE WriteHook
  <2> DEFINE runs == world.pushRuns /\ world.pushHook # "absent"
             w0 == Initialised(world)
             w1 == [w0 EXCEPT !.pushHook = "packaged"]
             w2 == [w1 EXCEPT !.pushRuns = runs]
  <2>0. World(w0) /\ w0.pushRuns = world.pushRuns
    BY InitialisedTyped, InitialisedFacts, FactsByName DEF WorldTyped
  <2>1. World(w1)
    BY <2>0, OneFact, FactsByName, ValuesByName
  <2>2. World(w2)
    BY <2>1, OneFact, FactsByName, ValuesByName
  <2>3. w1.pushRuns = world.pushRuns
    BY <2>0, FactsByName DEF World
  <2>4. world' = w2
    BY <1>2, <2>3 DEF WriteHook
  <2> QED
    BY <2>2, <2>4 DEF WorldTyped
<1>3. CASE MakeExecutable
  BY <1>3, OneFact, FactsByName, ValuesByName DEF MakeExecutable, WorldTyped
<1>4. CASE Dies
  <2>1. PICK hook \in {"foreign", "packaged"} : world' = [world EXCEPT !.pushHook = hook]
    BY <1>4 DEF Dies
  <2>2. hook \in Values.pushHook
    BY ValuesByName
  <2> QED
    BY <2>1, <2>2, OneFact, FactsByName DEF WorldTyped
<1>5. CASE PreCommitInstall
  <2> DEFINE legacy == \/ world.legacy
                       \/ world.config = "guards push" /\ world.pushHook \notin {"absent", "shim"}
             hook == IF world.config = "guards push" THEN "shim" ELSE world.pushHook
             runs == world.pushRuns \/ world.config = "guards push"
             w1 == [world EXCEPT !.commitHook = "runs"]
             w2 == [w1 EXCEPT !.legacy = legacy]
             w3 == [w2 EXCEPT !.pushHook = hook]
             w4 == [w3 EXCEPT !.pushRuns = runs]
  <2>1. World(w1)
    BY OneFact, FactsByName, ValuesByName DEF WorldTyped
  <2>2. World(w2)
    BY <2>1, OneFact, FactsByName, ValuesByName
  <2>3. World(w3)
    BY <2>2, <1>1, OneFact, FactsByName, ValuesByName
  <2>4. World(w4)
    BY <2>3, OneFact, FactsByName, ValuesByName
  <2>5. world' = w4
    BY <1>5 DEF PreCommitInstall
  <2> QED
    BY <2>4, <2>5 DEF WorldTyped
<1> QED
  BY <1>0, <1>2, <1>3, <1>4, <1>5

(* So do the commands that register a project. *)
LEMMA RegisterTyped ==
  ASSUME WorldTyped, Register \/ GitRoot
  PROVE  WorldTyped'
<1> DEFINE w0 == Initialised(world)
<1>0. World(w0) /\ w0.path = world.path /\ world.path \in Values.path /\ world.jira \in Values.jira
  <2>1. World(w0)
    BY InitialisedTyped DEF WorldTyped
  <2>2. w0.path = world.path
    BY InitialisedFacts, FactsByName DEF WorldTyped
  <2>3. world.path \in Values.path /\ world.jira \in Values.jira
    BY FactsByName DEF WorldTyped, World
  <2> QED
    BY <2>1, <2>2, <2>3
<1>1. CASE Register
  <2>1. PICK path \in {"plain", "wrapper", "repo"}, block \in {"none", world.jira},
             notify \in {"none", "webhook"} :
          LET entry == [w0 EXCEPT !.registry = "v2", !.path = path]
          IN  world' = IF HasProject(world) THEN entry
                       ELSE [entry EXCEPT !.jira = block, !.notify = notify]
    BY <1>1 DEF Register
  <2> DEFINE w1 == [w0 EXCEPT !.registry = "v2"]
             w2 == [w1 EXCEPT !.path = path]
             w3 == [w2 EXCEPT !.jira = block]
             w4 == [w3 EXCEPT !.notify = notify]
  <2>2. path \in Values.path /\ block \in Values.jira /\ notify \in Values.notify
    BY <1>0, ValuesByName
  <2>3. World(w1)
    BY <1>0, OneFact, FactsByName, ValuesByName
  <2>4. World(w2)
    BY <2>2, <2>3, OneFact, FactsByName
  <2>5. World(w3)
    BY <2>2, <2>4, OneFact, FactsByName
  <2>6. World(w4)
    BY <2>2, <2>5, OneFact, FactsByName
  <2>7. world' = w2 \/ world' = w4
    BY <2>1
  <2> QED
    BY <2>4, <2>6, <2>7 DEF WorldTyped
<1>2. CASE GitRoot
  <2> DEFINE root == IF world.path = "wrapper" THEN "repo" ELSE world.path
  <2>1. world' = [w0 EXCEPT !.path = root]
    BY <1>0, <1>2 DEF GitRoot
  <2>2. root \in Values.path
    BY <1>0, ValuesByName
  <2>3. World([w0 EXCEPT !.path = root])
    BY <1>0, <2>2, OneFact, FactsByName
  <2> QED
    BY <2>1, <2>3 DEF WorldTyped
<1> QED
  BY <1>1, <1>2

(* So do hook --apply, the installer and the sync. *)
LEMMA OtherCommandsTyped ==
  ASSUME WorldTyped, HookApply \/ InstallSkillsAgain \/ SyncWorktrees
  PROVE  WorldTyped'
<1>1. CASE HookApply
  <2>1. PICK session \in EntryAfter(world.session), prompt \in EntryAfter(world.prompt) :
          world' = [world EXCEPT !.settings = "object", !.session = session, !.prompt = prompt]
    BY <1>1 DEF HookApply
  <2> DEFINE w1 == [world EXCEPT !.settings = "object"]
             w2 == [w1 EXCEPT !.session = session]
             w3 == [w2 EXCEPT !.prompt = prompt]
  <2>2. World(w1)
    BY OneFact, FactsByName, ValuesByName DEF WorldTyped
  <2>3. session \in Values.session /\ prompt \in Values.prompt
    BY FactsByName, ValuesByName DEF EntryAfter, WorldTyped, World
  <2>4. World(w2)
    BY <2>2, <2>3, OneFact, FactsByName
  <2>5. World(w3)
    BY <2>3, <2>4, OneFact, FactsByName
  <2>6. world' = w3
    BY <2>1
  <2> QED
    BY <2>5, <2>6 DEF WorldTyped
<1>2. CASE InstallSkillsAgain
  <2>1. PICK stray \in StrayAfter(world.stray) :
          world' = [world EXCEPT !.skills = "same", !.stray = stray]
    BY <1>2 DEF InstallSkillsAgain
  <2> DEFINE w1 == [world EXCEPT !.skills = "same"]
             w2 == [w1 EXCEPT !.stray = stray]
  <2>2. World(w1)
    BY OneFact, FactsByName, ValuesByName DEF WorldTyped
  <2>0. world.stray \in Values.stray
    BY FactsByName DEF WorldTyped, World
  <2>3. stray \in Values.stray
    <3>1. stray \in {"external", "none", "retired link"} \/ stray = world.stray
      BY DEF StrayAfter
    <3> QED
      BY <2>0, <3>1, ValuesByName
  <2>4. World(w2)
    BY <2>2, <2>3, OneFact, FactsByName
  <2>5. world' = w2
    BY <2>1
  <2> QED
    BY <2>4, <2>5 DEF WorldTyped
<1>3. CASE SyncWorktrees
  <2> DEFINE layer == IF world.worktrees = "missing" THEN "same" ELSE world.worktrees
  <2>1. layer \in Values.worktrees
    BY FactsByName, ValuesByName DEF WorldTyped, World
  <2>2. world' = [world EXCEPT !.worktrees = layer]
    BY <1>3 DEF SyncWorktrees
  <2> QED
    BY <2>1, <2>2, OneFact, FactsByName DEF WorldTyped
<1> QED
  BY <1>1, <1>2, <1>3

SecureHome == Secure("home", "secure home")
SecureAuthDb == Secure("authDb", "secure auth_db")
(* And those that change one fact. *)
LEMMA SingleCommandsTyped ==
  ASSUME WorldTyped, Migrate \/ ReapLeftovers \/ SecureHome \/ SecureAuthDb
  PROVE  WorldTyped'
<1>1. ASSUME NEW fact \in DOMAIN Values, NEW value \in Values[fact],
             world' = [world EXCEPT ![fact] = value]
      PROVE  WorldTyped'
  BY <1>1, OneFact DEF WorldTyped
<1>2. CASE Migrate
  <2>1. world' = [world EXCEPT !.tracked = "nothing"]
    BY <1>2 DEF Migrate
  <2> QED
    BY <1>1, <2>1, FactsByName, ValuesByName
<1>3. CASE ReapLeftovers
  <2>1. PICK p \in ReapLeaves(world.processes) : world' = [world EXCEPT !.processes = p]
    BY <1>3 DEF ReapLeftovers
  <2>2. p \in Values.processes
    <3>1. p \in {"none", "held", "stubborn"}
      BY DEF ReapLeaves
    <3> QED
      BY <3>1, ValuesByName
  <2> QED
    BY <1>1, <2>1, <2>2, FactsByName
<1>4. CASE SecureHome
  <2>1. world' = [world EXCEPT !.home = Secured(world.home)]
    BY <1>4 DEF SecureHome, Secure
  <2>2. Secured(world.home) \in Values.home
    BY FactsByName, ValuesByName DEF WorldTyped, World, Secured
  <2> QED
    BY <1>1, <2>1, <2>2, FactsByName
<1>5. CASE SecureAuthDb
  <2>1. world' = [world EXCEPT !.authDb = Secured(world.authDb)]
    BY <1>5 DEF SecureAuthDb, Secure
  <2>2. Secured(world.authDb) \in Values.authDb
    BY FactsByName, ValuesByName DEF WorldTyped, World, Secured
  <2> QED
    BY <1>1, <2>1, <2>2, FactsByName
<1> QED
  BY <1>2, <1>3, <1>4, <1>5

(* A person mends one thing. *)
LEMMA MendTyped == ASSUME WorldTyped, NEW r \in DOMAIN Mended, Mend(r) PROVE WorldTyped'
<1>1. world' = Mended[r]
  BY DEF Mend
<1>2. world.tagged \in Values.declared
  BY FactsByName, ValuesByName, ZenonT(40) DEF WorldTyped, World
<1>3. ASSUME NEW fact \in DOMAIN Values, NEW value \in Values[fact],
             Mended[r] = [world EXCEPT ![fact] = value]
      PROVE  WorldTyped'
  <2>1. World([world EXCEPT ![fact] = value])
    BY OneFact DEF WorldTyped
  <2>2. World(world')
    BY <1>1, <1>3, <2>1
  <2> QED
    BY <2>2 DEF WorldTyped
<1>4. CASE r = "bump"
  <2>1. Mended[r] = [world EXCEPT !.declared = world.tagged]
    BY <1>4 DEF Mended
  <2> QED
    BY <1>2, <1>3, <2>1, FactsByName, ValuesByName
<1>5. CASE r = "install mcp<2"
  <2>1. Mended[r] = [world EXCEPT !.mcp = 1]
    BY <1>5 DEF Mended
  <2>2. Values.mcp = 0..2
    BY ValuesByName
  <2>3. 1 \in Values.mcp
    BY <2>2
  <2> QED
    BY <1>2, <1>3, <2>1, <2>3, FactsByName
<1>6. CASE r \in {"edit registry", "upgrade registry"}
  <2>1. Mended[r] = [world EXCEPT !.registry = "v2"]
    BY <1>6 DEF Mended
  <2> QED
    BY <1>2, <1>3, <2>1, FactsByName, ValuesByName
<1>7. CASE r = "set webhook"
  <2>1. Mended[r] = [world EXCEPT !.notify = "webhook"]
    BY <1>7 DEF Mended
  <2> QED
    BY <1>2, <1>3, <2>1, FactsByName, ValuesByName
<1>8. CASE r = "replace value"
  <2>1. Mended[r] = [world EXCEPT !.leak = "none"]
    BY <1>8 DEF Mended
  <2> QED
    BY <1>2, <1>3, <2>1, FactsByName, ValuesByName
<1>9. CASE r = "rewrite config"
  <2>1. Mended[r] = [world EXCEPT !.config = "guarded"]
    BY <1>9 DEF Mended
  <2> QED
    BY <1>2, <1>3, <2>1, FactsByName, ValuesByName
<1>10. CASE r = "reinstall"
  <2>1. Mended[r] = [world EXCEPT !.env = "current"]
    BY <1>10 DEF Mended
  <2> QED
    BY <1>2, <1>3, <2>1, FactsByName, ValuesByName
<1>11. CASE r = "fix route"
  <2>1. Mended[r] = [world EXCEPT !.agentsMd = "routes"]
    BY <1>11 DEF Mended
  <2> QED
    BY <1>2, <1>3, <2>1, FactsByName, ValuesByName
<1>12. CASE r = "name skill"
  <2>1. Mended[r] = [world EXCEPT !.reached = "named"]
    BY <1>12 DEF Mended
  <2> QED
    BY <1>2, <1>3, <2>1, FactsByName, ValuesByName
<1>13. CASE r = "edit host config"
  <2>1. Mended[r] = [world EXCEPT !.host = "fine"]
    BY <1>13 DEF Mended
  <2> QED
    BY <1>2, <1>3, <2>1, FactsByName, ValuesByName
<1> QED
  BY <1>4, <1>5, <1>6, <1>7, <1>8, <1>9, <1>10, <1>11, <1>12, <1>13 DEF Mended

(* What goes wrong keeps to the values of the facts. *)
LEMMA WrongTyped ==
  ASSUME WorldTyped, CutShort \/ OneHookApplied \/ \E fact \in DOMAIN Values : GoesWrong(fact)
  PROVE  WorldTyped'
<1>1. CASE CutShort
  <2> DEFINE w1 == [world EXCEPT !.home = "private"]
             w2 == [w1 EXCEPT !.registry = "malformed"]
  <2>1. World(w1)
    BY OneFact, FactsByName, ValuesByName DEF WorldTyped
  <2>2. World(w2)
    BY <2>1, OneFact, FactsByName, ValuesByName
  <2>3. world' = w2
    BY <1>1 DEF CutShort
  <2> QED
    BY <2>2, <2>3 DEF WorldTyped
<1>2. CASE OneHookApplied
  <2> DEFINE prompt == IF world.settings = "absent" THEN "none" ELSE world.prompt
  <2>1. PICK session \in EntryAfter(world.session) :
          world' = [world EXCEPT !.settings = "object", !.session = session, !.prompt = prompt]
    BY <1>2 DEF OneHookApplied
  <2> DEFINE w1 == [world EXCEPT !.settings = "object"]
             w2 == [w1 EXCEPT !.session = session]
             w3 == [w2 EXCEPT !.prompt = prompt]
  <2>2. World(w1)
    BY OneFact, FactsByName, ValuesByName DEF WorldTyped
  <2>3. session \in Values.session /\ prompt \in Values.prompt
    BY FactsByName, ValuesByName DEF EntryAfter, WorldTyped, World
  <2>4. World(w2)
    BY <2>2, <2>3, OneFact, FactsByName
  <2>5. World(w3)
    BY <2>3, <2>4, OneFact, FactsByName
  <2>6. world' = w3
    BY <2>1
  <2> QED
    BY <2>5, <2>6 DEF WorldTyped
<1>3. ASSUME NEW fact \in DOMAIN Values, GoesWrong(fact)
      PROVE  WorldTyped'
  <2>1. PICK value \in Values[fact] : world' = [world EXCEPT ![fact] = value]
    BY <1>3 DEF GoesWrong
  <2> QED
    BY <2>1, OneFact DEF WorldTyped
<1> QED
  BY <1>1, <1>2, <1>3

(* Every step keeps the world typed and the report one of now. *)
LEMMA DoctorInvStep == DoctorInv /\ [DoctorNext]_doctorVars => DoctorInv'
<1> SUFFICES ASSUME DoctorInv, [DoctorNext]_doctorVars PROVE DoctorInv'
  OBVIOUS
<1>1. CASE Diagnose
  BY <1>1 DEF DoctorInv, WorldTyped, ReportIsOfNow, Diagnose
<1>2. CASE Remedies
  <2>1. WorldTyped'
    <3>1. CASE NotDone
      BY <3>1 DEF NotDone, DoctorInv, WorldTyped
    <3>2. ASSUME NEW r \in DOMAIN Mended, Mend(r)
          PROVE  WorldTyped'
      BY <3>2, MendTyped DEF DoctorInv
    <3> QED
      BY <1>2, <3>1, <3>2, HookCommandsTyped, RegisterTyped, OtherCommandsTyped, SingleCommandsTyped
      DEF DoctorInv, Remedies, SecureHome, SecureAuthDb
  <2>2. report' = {}
    <3>1. CASE Dies \/ MakeExecutable
      BY <3>1 DEF Dies, MakeExecutable, DoctorInv, ReportIsOfNow
    <3>2. CASE ~(Dies \/ MakeExecutable)
      BY <1>2, <3>2 DEF Remedies, NotDone, Register, GitRoot, Migrate, RefuseHook, LeaveHook,
         WriteHook, PreCommitInstall, HookApply, InstallSkillsAgain, SyncWorktrees, ReapLeftovers,
         Secure, Mend, Done
    <3> QED
      BY <3>1, <3>2
  <2> QED
    BY <2>1, <2>2 DEF DoctorInv, ReportIsOfNow
<1>3. CASE CutShort \/ OneHookApplied \/ \E fact \in DOMAIN Values : GoesWrong(fact)
  <2>1. WorldTyped'
    BY <1>3, WrongTyped DEF DoctorInv
  <2>2. report' = {}
    BY <1>3 DEF CutShort, OneHookApplied, GoesWrong, Wrong
  <2> QED
    BY <2>1, <2>2 DEF DoctorInv, ReportIsOfNow
<1>4. CASE UNCHANGED doctorVars
  BY <1>4 DEF doctorVars, DoctorInv, WorldTyped, ReportIsOfNow
<1> QED
  BY <1>1, <1>2, <1>3, <1>4 DEF DoctorNext

(* The doctor's first invariant holds in every behaviour. *)
LEMMA DoctorInvAlways == DoctorSpec => []DoctorInv
  BY DoctorInitHolds, DoctorInvStep, PTL DEF DoctorSpec

(* Every fact of the world keeps to its values, and a report is never older *)
(* than the world it is about.                                              *)
THEOREM ReportOfNow == DoctorSpec => [](WorldTyped /\ ReportIsOfNow)
  BY DoctorInvAlways, PTL DEF DoctorInv

-----------------------------------------------------------------------------
(* Which checks speak under which names, and when they say "ok". *)
LEMMA Named ==
  /\ \A f, c, s : f \in Says(c, s) => f.check = c
  /\ \A f, c, s, r : f \in Asks(c, s, r) => f.check = c
  /\ \A c, s, r : Finding(c, s, r).check = c
  BY DEF Says, Asks, Finding

Ok(check) == Finding(check, "ok", None)
(* When an alternative of a check is its ok. *)
LEMMA OkRules ==
  /\ \A c, s : Ok(c) \in Says(c, s) => s = "ok"
  /\ \A c, s, r : Ok(c) \in Asks(c, s, r) => s = "ok" /\ r = None
  /\ \A c : Ok(c).check = c
  BY DEF Ok, Says, Asks, Finding

(* The names of the checks about the machine. *)
LEMMA MachineNames ==
  ASSUME NEW w
  PROVE  /\ \A f \in CheckEnvironment(w) : f.check \in {"version.declared", "version.mcp"}
         /\ \A f \in CheckPaths(w) :
              f.check \in {"paths.home", "paths.home.permissions", "paths.auth_db.permissions"}
         /\ \A f \in CheckRegistry(w) : f.check \in {"registry.file", "registry.schema"}
         /\ \A f \in CheckOrphans(w) : f.check = "processes.orphans"
         /\ \A check, entry : \A f \in CheckHook(w, check, entry) : f.check = check
         /\ \A f \in CheckHostConfigs(w) : f.check = "host_mcp"
<1>1. \A f \in CheckEnvironment(w) : f.check \in {"version.declared", "version.mcp"}
  BY Named DEF CheckEnvironment
<1>2. \A f \in CheckPaths(w) :
         f.check \in {"paths.home", "paths.home.permissions", "paths.auth_db.permissions"}
  BY Named DEF CheckPaths
<1>3. \A f \in CheckRegistry(w) : f.check \in {"registry.file", "registry.schema"}
  BY Named DEF CheckRegistry
<1>4. \A f \in CheckOrphans(w) : f.check = "processes.orphans"
  BY Named DEF CheckOrphans
<1>5. \A check, entry : \A f \in CheckHook(w, check, entry) : f.check = check
  BY Named DEF CheckHook
<1>6. \A f \in CheckHostConfigs(w) : f.check = "host_mcp"
  BY Named DEF CheckHostConfigs
<1> QED
  BY <1>1, <1>2, <1>3, <1>4, <1>5, <1>6

(* The names of the checks about the installed guild. *)
LEMMA GuildNames ==
  ASSUME NEW w, World(w)
  PROVE  /\ \A f \in CheckDeployment(w) : f.check \in {"deployment.tool_env", "deployment.mcp_pin"}
         /\ \A f \in CheckAiLayer(w) : f.check = "ai_layer"
         /\ \A f \in CheckRoutes(w) :
              f.check \in {"routes.guild_block", "routes.targets", "routes.reachable"}
<1>1. \A f \in CheckDeployment(w) : f.check \in {"deployment.tool_env", "deployment.mcp_pin"}
  BY Named DEF CheckDeployment
<1>2. w.skills \in {"absent", "missing", "drifted", "same"}
  BY FactsByName, ValuesByName DEF World
<1>3. \A f \in CheckAiLayer(w) : f.check = "ai_layer"
  BY <1>2, Named DEF CheckAiLayer, Drifted
<1>4. \A f \in CheckRoutes(w) :
        f.check \in {"routes.guild_block", "routes.targets", "routes.reachable"}
  BY Named, ZenonT(40) DEF CheckRoutes
<1> QED
  BY <1>1, <1>3, <1>4

(* The names of the checks about the project. *)
LEMMA ProjectNames ==
  ASSUME NEW w, NEW offline, NEW some
  PROVE  /\ \A f \in CheckProject(w, offline) :
              f.check \in {"project", "project.path", "project.git", "project.jira",
                           "project.notify", "project.credential"}
         /\ \A f \in CheckLayering(w, some) : f.check = "layering.tracked"
         /\ \A f \in CheckWorktreeLayers(w) : f.check = "worktrees.ai_layer"
         /\ \A f \in CheckContentScan(w) : f.check = "content_scan"
<1>1. /\ \A f \in CheckProjectPaths(w) : f.check \in {"project.path", "project.git"}
      /\ \A f \in CheckJira(w, offline) : f.check = "project.jira"
      /\ \A f \in CheckNotifications(w) : f.check = "project.notify"
  BY Named DEF CheckProjectPaths, CheckJira, CheckNotifications
<1>2. \A f \in CheckProject(w, offline) :
        f.check \in {"project", "project.path", "project.git", "project.jira",
                     "project.notify", "project.credential"}
  BY <1>1, Named DEF CheckProject
<1>3. \A f \in CheckLayering(w, some) : f.check = "layering.tracked"
  <2>1. \A f \in CheckProjectLayering(w) : f.check = "layering.tracked"
    BY Named DEF CheckProjectLayering, OfCheckout
  <2> QED
    BY <2>1, Named DEF CheckLayering
<1>4. \A f \in CheckWorktreeLayers(w) : f.check = "worktrees.ai_layer"
  BY Named DEF CheckWorktreeLayers, OfCheckout
<1>5. \A f \in CheckContentScan(w) : f.check = "content_scan"
  BY Named DEF CheckContentScan, OfCheckout
<1> QED
  BY <1>2, <1>3, <1>4, <1>5

(* The names of the checks about hooks. *)
LEMMA HookNames ==
  ASSUME NEW w, NEW some
  PROVE  /\ \A f \in CheckGuard(w) : f.check = "guard.git_hooks"
         /\ \A f \in CheckGitHooks(w, some) :
              f.check \in {"guard.git_hooks", "guard.git_hooks.own", "guard.git_hooks.project"}
<1> DEFINE asked == (IF MissingHookTypes(w) # {} THEN {"pre-commit install"} ELSE {}) \cup
                    (IF NativePrePush(w) THEN {} ELSE {"install-git-hooks"})
           failed == {Finding("guard.git_hooks", "fail", r) : r \in asked}
<1>1. \A f \in failed : f.check = "guard.git_hooks"
  <2> SUFFICES ASSUME NEW r PROVE Finding("guard.git_hooks", "fail", r).check = "guard.git_hooks"
    OBVIOUS
  <2> QED
    BY Named
<1>2. ASSUME NEW f \in CheckGuard(w)
      PROVE  \/ f \in failed
             \/ \E s : f \in Says("guard.git_hooks", s)
             \/ f \in Asks("guard.git_hooks", "fail", "rewrite config")
  BY DEF CheckGuard
<1>3. \A f \in CheckGuard(w) : f.check = "guard.git_hooks"
  BY <1>1, <1>2, Named
<1>4. \A f \in CheckGitHooks(w, some) :
        f.check \in {"guard.git_hooks", "guard.git_hooks.own", "guard.git_hooks.project"}
  <2>1. \A f \in CheckOwnHooks(w) : f.check \in {"guard.git_hooks", "guard.git_hooks.own"}
    BY <1>3, Named DEF CheckOwnHooks
  <2>2. \A f \in CheckProjectHooks(w) : f.check \in {"guard.git_hooks", "guard.git_hooks.project"}
    BY <1>3, Named DEF CheckProjectHooks, OfCheckout
  <2> QED
    BY <2>1, <2>2 DEF CheckGitHooks
<1> QED
  BY <1>3, <1>4

(* So an "ok" comes from the check it names. *)
LEMMA OkComesFrom ==
  ASSUME NEW w, World(w), NEW named, NEW offline
  PROVE  /\ Ok("version.declared") \in RunDoctor(w, named, offline) =>
              Ok("version.declared") \in CheckEnvironment(w)
         /\ Ok("project.jira") \in RunDoctor(w, named, offline) =>
              Ok("project.jira") \in CheckProject(w, offline)
         /\ Ok("layering.tracked") \in RunDoctor(w, named, offline) =>
              Ok("layering.tracked") \in CheckLayering(w, HasProject(w) \/ named)
         /\ Ok("worktrees.ai_layer") \in RunDoctor(w, named, offline) =>
              Ok("worktrees.ai_layer") \in CheckWorktreeLayers(w)
         /\ Ok("content_scan") \in RunDoctor(w, named, offline) =>
              Ok("content_scan") \in CheckContentScan(w)
         /\ Ok("guard.git_hooks") \in RunDoctor(w, named, offline) =>
              Ok("guard.git_hooks") \in CheckGitHooks(w, HasProject(w) \/ named)
         /\ Ok("deployment.tool_env") \in RunDoctor(w, named, offline) =>
              Ok("deployment.tool_env") \in CheckDeployment(w)
         /\ Ok("ai_layer") \in RunDoctor(w, named, offline) => Ok("ai_layer") \in CheckAiLayer(w)
         /\ Ok("routes.session_hook") \in RunDoctor(w, named, offline) =>
              Ok("routes.session_hook") \in CheckHook(w, "routes.session_hook", w.session)
         /\ Ok("routes.prompt_hook") \in RunDoctor(w, named, offline) =>
              Ok("routes.prompt_hook") \in CheckHook(w, "routes.prompt_hook", w.prompt)
<1> DEFINE some == HasProject(w) \/ named
<1>1. ASSUME NEW f \in RunDoctor(w, named, offline)
      PROVE  \/ f \in CheckEnvironment(w) \/ f \in CheckPaths(w) \/ f \in CheckRegistry(w)
             \/ f \in CheckProject(w, offline) \/ f \in CheckWorktreeLayers(w)
             \/ f \in CheckContentScan(w)
             \/ f \in CheckLayering(w, some) \/ f \in CheckGitHooks(w, some)
             \/ f \in CheckDeployment(w) \/ f \in CheckAiLayer(w) \/ f \in CheckOrphans(w)
             \/ f \in CheckRoutes(w) \/ f \in CheckHook(w, "routes.session_hook", w.session)
             \/ f \in CheckHook(w, "routes.prompt_hook", w.prompt) \/ f \in CheckHostConfigs(w)
  <2>1. f \in (IF some THEN CheckProjects(w, offline) ELSE {}) =>
          \/ f \in CheckProject(w, offline) \/ f \in CheckWorktreeLayers(w)
          \/ f \in CheckContentScan(w)
    BY DEF CheckProjects
  <2> QED
    BY <2>1 DEF RunDoctor
<1> HIDE DEF some
<1>0. /\ \A f \in CheckLayering(w, some) : f.check = "layering.tracked"
      /\ \A f \in CheckGitHooks(w, some) :
           f.check \in {"guard.git_hooks", "guard.git_hooks.own", "guard.git_hooks.project"}
  BY ProjectNames, HookNames
<1>8. /\ \A f \in CheckProject(w, offline) : f.check \notin
           {"layering.tracked", "worktrees.ai_layer", "content_scan", "guard.git_hooks"}
      /\ \A f \in CheckWorktreeLayers(w) : f.check = "worktrees.ai_layer"
      /\ \A f \in CheckContentScan(w) : f.check = "content_scan"
  BY ProjectNames
<1>2. Ok("project.jira") \in RunDoctor(w, named, offline) =>
        Ok("project.jira") \in CheckProject(w, offline)
  BY <1>1, MachineNames, GuildNames, ProjectNames, HookNames, OkRules
<1>3. \A check \in {"version.declared", "deployment.tool_env", "ai_layer",
                    "routes.session_hook", "routes.prompt_hook"} :
        Ok(check) \in RunDoctor(w, named, offline) =>
          Ok(check) \in
            CASE check = "version.declared" -> CheckEnvironment(w)
              [] check = "deployment.tool_env" -> CheckDeployment(w)
              [] check = "ai_layer" -> CheckAiLayer(w)
              [] check = "routes.session_hook" -> CheckHook(w, "routes.session_hook", w.session)
              [] check = "routes.prompt_hook" -> CheckHook(w, "routes.prompt_hook", w.prompt)
  BY <1>1, MachineNames, GuildNames, ProjectNames, HookNames, OkRules
<1>4. Ok("layering.tracked") \in RunDoctor(w, named, offline) =>
        Ok("layering.tracked") \in CheckLayering(w, some)
  BY <1>0, <1>1, <1>8, MachineNames, GuildNames, OkRules
<1>5. Ok("worktrees.ai_layer") \in RunDoctor(w, named, offline) =>
        Ok("worktrees.ai_layer") \in CheckWorktreeLayers(w)
  BY <1>0, <1>1, <1>8, MachineNames, GuildNames, OkRules
<1>6. Ok("content_scan") \in RunDoctor(w, named, offline) =>
        Ok("content_scan") \in CheckContentScan(w)
  BY <1>0, <1>1, <1>8, MachineNames, GuildNames, OkRules
<1>7. Ok("guard.git_hooks") \in RunDoctor(w, named, offline) =>
        Ok("guard.git_hooks") \in CheckGitHooks(w, some)
  BY <1>0, <1>1, <1>8, MachineNames, GuildNames, OkRules
<1> QED
  BY <1>2, <1>3, <1>4, <1>5, <1>6, <1>7 DEF some

-----------------------------------------------------------------------------
(* What each check looked at before it said "ok". *)
LEMMA OkOfMachine ==
  ASSUME NEW w, World(w)
  PROVE  /\ Ok("version.declared") \in CheckEnvironment(w) => w.declared >= w.tagged
         /\ Ok("deployment.tool_env") \in CheckDeployment(w) =>
              w.env = "current" \/ (w.env = "stale" /\ ~w.source)
         /\ Ok("ai_layer") \in CheckAiLayer(w) => w.skills = "same" /\ ~Stray(w)
         /\ \A check, entry : Ok(check) \in CheckHook(w, check, entry) =>
              w.settings = "object" /\ entry = "works"
<1>1. ASSUME Ok("version.declared") \in CheckEnvironment(w)
      PROVE  w.declared >= w.tagged
  <2> DEFINE declared == IF w.source THEN w.declared ELSE 0
  <2>1. VersionVerdict(declared, w.tagged) = "ok"
    <3>1. Ok("version.declared") \notin Says("version.mcp", "ok") /\
          Ok("version.declared") \notin Asks("version.mcp", "fail", "install mcp<2")
      BY Named, OkRules
    <3>2. Ok("version.declared") \notin Asks("version.declared", "fail", "bump")
      BY OkRules
    <3> QED
      BY <1>1, <3>1, <3>2, OkRules DEF CheckEnvironment
  <2>2. w.source \in BOOLEAN /\ w.declared \in 0..2 /\ w.tagged \in 0..2
    BY FactsByName, ValuesByName, ZenonT(40) DEF World
  <2>3. declared # 0 /\ ~(declared < w.tagged)
    BY <2>1 DEF VersionVerdict
  <2> QED
    BY <2>2, <2>3
<1>2. ASSUME Ok("deployment.tool_env") \in CheckDeployment(w)
      PROVE  w.env = "current" \/ (w.env = "stale" /\ ~w.source)
  <2>1. w.env \in {"absent", "old name", "behind", "stale", "current"}
    BY FactsByName, ValuesByName DEF World
  <2>2. Ok("deployment.tool_env") \notin Says("deployment.mcp_pin", PinStatus(w))
    BY Named, OkRules
  <2>3. \A s \in {"skip", "warn"} : Ok("deployment.tool_env") \notin Asks("deployment.tool_env", s, "reinstall")
    BY OkRules
  <2>4. ~NoEnvironment(w) /\ ~(LacksModules(w) \/ DiffersFromSource(w))
    BY <1>2, <2>2, <2>3 DEF CheckDeployment
  <2> QED
    BY <2>1, <2>4 DEF NoEnvironment, LacksModules, DiffersFromSource
<1>3. ASSUME Ok("ai_layer") \in CheckAiLayer(w)
      PROVE  w.skills = "same" /\ ~Stray(w)
  <2>1. w.skills \in {"absent", "missing", "drifted", "same"}
    BY FactsByName, ValuesByName DEF World
  <2>2. Ok("ai_layer") \notin Says("ai_layer", "skip") /\
        Ok("ai_layer") \notin Asks("ai_layer", "warn", "install skills")
    BY OkRules DEF None
  <2> QED
    BY <1>3, <2>1, <2>2 DEF CheckAiLayer, Drifted
<1>4. ASSUME NEW check, NEW entry, Ok(check) \in CheckHook(w, check, entry)
      PROVE  w.settings = "object" /\ entry = "works"
  <2>1. Ok(check) \notin Says(check, "skip") /\ Ok(check) \notin Asks(check, "warn", "hook --apply")
    BY OkRules DEF None
  <2> QED
    BY <1>4, <2>1 DEF CheckHook
<1> QED
  BY <1>1, <1>2, <1>3, <1>4

(* The checks of the project say ok only of what is so. *)
LEMMA OkOfProject ==
  ASSUME NEW w, World(w), NEW offline, NEW some
  PROVE  /\ Ok("project.jira") \in CheckProject(w, offline) => w.jira = "good"
         /\ Ok("layering.tracked") \in CheckLayering(w, some) =>
              w.tracked = "nothing" /\ w.git = "answers"
         /\ Ok("worktrees.ai_layer") \in CheckWorktreeLayers(w) =>
              w.worktrees = "same" /\ w.git = "answers"
         /\ Ok("content_scan") \in CheckContentScan(w) => w.leak # "layer"
<1>0. \A check, exempt, verdict :
        Ok(check) \in OfCheckout(w, check, exempt, verdict) => Ok(check) \in verdict
  BY OkRules DEF OfCheckout
<1>1. ASSUME Ok("project.jira") \in CheckProject(w, offline)
      PROVE  w.jira = "good"
  <2>1. Ok("project.jira") \notin Says("project", "fail") /\
        Ok("project.jira") \notin Says("project.credential", "ok") /\
        Ok("project.jira") \notin CheckProjectPaths(w) /\
        Ok("project.jira") \notin CheckNotifications(w)
    <3>1. /\ \A f \in CheckProjectPaths(w) : f.check \in {"project.path", "project.git"}
          /\ \A f \in CheckNotifications(w) : f.check = "project.notify"
      BY Named DEF CheckProjectPaths, CheckNotifications
    <3> QED
      BY <3>1, Named, OkRules
  <2>2. Ok("project.jira") \in CheckJira(w, offline)
    BY <1>1, <2>1 DEF CheckProject
  <2> QED
    BY <2>2, OkRules DEF CheckJira
<1>2. ASSUME Ok("layering.tracked") \in CheckLayering(w, some)
      PROVE  w.tracked = "nothing" /\ w.git = "answers"
  <2>1. Ok("layering.tracked") \notin Says("layering.tracked", "skip") /\
        Ok("layering.tracked") \notin Asks("layering.tracked", "fail", "migrate")
    BY OkRules
  <2>2. w.path = "repo" /\ TrackedPaths(w) # NoAnswer /\ TrackedPaths(w) # "something"
    BY <1>0, <1>2, <2>1 DEF CheckLayering, CheckProjectLayering
  <2>3. w.tracked \in {"nothing", "something"}
    BY FactsByName, ValuesByName DEF World
  <2> QED
    BY <2>2, <2>3 DEF TrackedPaths, TrackedOr, NoAnswer
<1>3. ASSUME Ok("worktrees.ai_layer") \in CheckWorktreeLayers(w)
      PROVE  w.worktrees = "same" /\ w.git = "answers"
  <2>1. Ok("worktrees.ai_layer") \notin Says("worktrees.ai_layer", "skip") /\
        Ok("worktrees.ai_layer") \notin Says("worktrees.ai_layer", "fail") /\
        Ok("worktrees.ai_layer") \notin Asks("worktrees.ai_layer", "warn", "sync")
    BY OkRules
  <2>2. w.worktrees \in {"unreadable", "missing", "different", "same"}
    BY FactsByName, ValuesByName DEF World
  <2> QED
    BY <1>0, <1>3, <2>1, <2>2 DEF CheckWorktreeLayers
<1>4. ASSUME Ok("content_scan") \in CheckContentScan(w)
      PROVE  w.leak # "layer"
  <2>1. Ok("content_scan") \notin Says("content_scan", "skip") /\
        Ok("content_scan") \notin Asks("content_scan", "fail", "replace value")
    BY OkRules DEF None
  <2>2. w.path = "missing" \/ w.path # "missing"
    OBVIOUS
  <2> QED
    BY <1>0, <1>4, <2>1, <2>2 DEF CheckContentScan
<1> QED
  BY <1>1, <1>2, <1>3, <1>4

(* The check of the git hooks says ok only if both are run. *)
LEMMA OkOfGuard ==
  ASSUME NEW w, World(w), NEW some, Ok("guard.git_hooks") \in CheckGitHooks(w, some)
  PROVE  /\ w.config \in {"guarded", "guards push"} /\ w.commitHook = "runs"
         /\ w.pushHook \in {"packaged", "stale"} /\ w.pushRuns
         /\ w.source => w.pushHook = "packaged"
<1>1. Ok("guard.git_hooks") \in CheckGuard(w)
  <2>1. Ok("guard.git_hooks") \in CheckOwnHooks(w) \cup CheckProjectHooks(w)
    BY DEF CheckGitHooks
  <2>2. Ok("guard.git_hooks") \in CheckOwnHooks(w) => Ok("guard.git_hooks") \in CheckGuard(w)
    BY Named, OkRules DEF CheckOwnHooks
  <2>3. Ok("guard.git_hooks") \in CheckProjectHooks(w) => Ok("guard.git_hooks") \in CheckGuard(w)
    BY Named, OkRules DEF CheckProjectHooks, OfCheckout
  <2> QED
    BY <2>1, <2>2, <2>3
<1> DEFINE missing == MissingHookTypes(w) # {}
           asked == (IF missing THEN {"pre-commit install"} ELSE {}) \cup
                    (IF NativePrePush(w) THEN {} ELSE {"install-git-hooks"})
<1>2. w.config \in {"none", "unguarded", "odd", "guarded", "guards push"}
  BY FactsByName, ValuesByName DEF World
<1>3. /\ Ok("guard.git_hooks") \notin Says("guard.git_hooks", "skip")
      /\ Ok("guard.git_hooks") \notin Asks("guard.git_hooks", "fail", "rewrite config")
      /\ Ok("guard.git_hooks") \notin {Finding("guard.git_hooks", "fail", r) : r \in asked}
  <2>1. \A r : Ok("guard.git_hooks") # Finding("guard.git_hooks", "fail", r)
    BY DEF Ok, Finding
  <2>2. Ok("guard.git_hooks") \notin {Finding("guard.git_hooks", "fail", r) : r \in asked}
    BY <2>1
  <2>3. Ok("guard.git_hooks") \notin Says("guard.git_hooks", "skip") /\
        Ok("guard.git_hooks") \notin Asks("guard.git_hooks", "fail", "rewrite config")
    BY OkRules DEF None
  <2> QED
    BY <2>2, <2>3
<1>4. w.config \in {"guarded", "guards push"} /\ asked = {}
  BY <1>1, <1>2, <1>3 DEF CheckGuard
<1>5. ~missing /\ NativePrePush(w)
  BY <1>4
<1>6. "pre-commit" \in Declared(w)
  BY <1>4 DEF Declared
<1>7. w.commitHook = "runs"
  BY <1>5, <1>6 DEF MissingHookTypes
<1> QED
  BY <1>4, <1>5, <1>7 DEF NativePrePush, IsOurs

(* No check of the doctor says "ok" of something that is not so, whatever   *)
(* has gone wrong, however much of it and whatever was done about it.       *)
THEOREM NoFalseHealth == DoctorSpec => []NoFalseOk
<1>1. DoctorInv => NoFalseOk
  <2> SUFFICES ASSUME DoctorInv, report # {} PROVE NoFalseOk
    BY DEF NoFalseOk, IsOk
  <2>1. PICK named, offline \in BOOLEAN : report = RunDoctor(world, named, offline)
    BY DEF DoctorInv, ReportIsOfNow
  <2>2. World(world)
    BY DEF DoctorInv, WorldTyped
  <2>3. \A check : IsOk(check) <=> Ok(check) \in RunDoctor(world, named, offline)
    BY <2>1 DEF IsOk, Ok
  <2>4. /\ IsOk("version.declared") => world.declared >= world.tagged
        /\ IsOk("deployment.tool_env") =>
             world.env = "current" \/ (world.env = "stale" /\ ~world.source)
        /\ IsOk("ai_layer") => /\ world.skills = "same"
                               /\ world.stray \notin {"retired", "retired link", "unknown"}
        /\ IsOk("routes.session_hook") => world.settings = "object" /\ world.session = "works"
        /\ IsOk("routes.prompt_hook") => world.settings = "object" /\ world.prompt = "works"
    BY <2>2, <2>3, OkComesFrom, OkOfMachine DEF Stray
  <2>5. /\ IsOk("project.jira") => world.jira = "good"
        /\ IsOk("layering.tracked") => world.tracked = "nothing" /\ world.git = "answers"
        /\ IsOk("worktrees.ai_layer") => world.worktrees = "same" /\ world.git = "answers"
        /\ IsOk("content_scan") => world.leak # "layer"
    BY <2>2, <2>3, OkComesFrom, OkOfProject
  <2>6. IsOk("guard.git_hooks") =>
          /\ world.config \in {"guarded", "guards push"} /\ world.commitHook = "runs"
          /\ world.pushHook \in {"packaged", "stale"} /\ world.pushRuns
          /\ world.source => world.pushHook = "packaged"
    BY <2>2, <2>3, OkComesFrom, OkOfGuard
  <2>7. world.source \in BOOLEAN
    BY <2>2, FactsByName, ValuesByName DEF World
  <2> QED
    BY <2>4, <2>5, <2>6, <2>7 DEF NoFalseOk, PushIsScanned
<1> QED
  BY <1>1, DoctorInvAlways, PTL
-----------------------------------------------------------------------------
(* What a remedy has settled once it is followed, until something goes wrong  *)
(* again: no other remedy undoes it.  Of the machine, of the registered      *)
(* project, of the guild's own files, and of the two that work on hook files. *)
OfMachine(w, r) ==
  /\ r = "bump" => w.declared = w.tagged
  /\ r = "install mcp<2" => w.mcp = 1
  /\ r = "secure home" => w.home # "open"
  /\ r = "secure auth_db" => w.authDb # "open"
  /\ r = "reinstall" => w.env = "current"
  /\ r = "reap" => w.processes \in {"none", "held", "stubborn"}
  /\ r = "edit host config" => w.host = "fine"
OfProject(w, r) ==
  /\ r = "register" => w.registry # "absent" /\ w.path # "missing"
  /\ r = "edit registry" => w.registry = "v2"
  /\ r = "upgrade registry" => w.registry # "v1"
  /\ r = "set webhook" => w.notify # "channel"
  /\ r = "git root" => w.registry # "absent" /\ w.path \in {"plain", "repo"}
  /\ r = "migrate" => w.tracked = "nothing"
  /\ r = "replace value" => w.leak = "none"
  /\ r = "sync" => w.worktrees # "missing"
OfGuild(w, r) ==
  /\ r = "rewrite config" => w.config = "guarded"
  /\ r = "fix route" => w.agentsMd = "routes"
  /\ r = "name skill" => w.reached = "named"
  /\ r = "hook --apply" => w.settings = "object" /\ w.session # "none" /\ w.prompt # "none"
  /\ r = "install skills" => w.skills = "same" /\ w.stray \notin {"retired", "unknown"}
OfHooks(w, r) ==
  /\ r = "pre-commit install" =>
       /\ w.commitHook = "runs"
       /\ w.config = "guards push" => w.pushHook = "shim" /\ w.pushRuns = TRUE
  /\ r = "install-git-hooks" => w.pushHook = "packaged" \/ (w.pushHook = "shim" /\ w.legacy = TRUE)
Settled == \A r \in followed : OfMachine(world, r) /\ OfProject(world, r) /\ OfGuild(world, r)
HooksSettled == \A r \in followed : OfHooks(world, r)
Writing == installing => world.pushHook = "packaged" /\ "install-git-hooks" \notin followed

(* When a check asks for a remedy. *)
Due(w, r) ==
  /\ r = "bump" => w.declared < w.tagged
  /\ r = "install mcp<2" => w.mcp # 1
  /\ r = "secure home" => w.home \in {"open", "granted"}
  /\ r = "secure auth_db" => w.authDb \in {"open", "granted"}
  /\ r = "register" => w.registry = "absent" \/ w.path = "missing"
  /\ r = "edit registry" => w.registry \in {"malformed", "empty"}
  /\ r = "upgrade registry" => w.registry = "v1"
  /\ r = "set webhook" => w.notify = "channel"
  /\ r = "git root" => w.path \in {"plain", "wrapper"}
  /\ r = "migrate" => w.tracked = "something"
  /\ r = "replace value" => w.leak # "none"
  /\ r = "rewrite config" => w.config = "odd"
  /\ r = "reinstall" => w.env # "current"
  /\ r = "reap" => w.processes \in {"orphan", "held", "stubborn"}
  /\ r = "fix route" => w.agentsMd = "dead route"
  /\ r = "name skill" => w.reached = "by itself"
  /\ r = "edit host config" => w.host # "fine"
  /\ r = "hook --apply" => w.settings # "object" \/ w.session # "works" \/ w.prompt # "works"
  /\ r = "install skills" => w.skills # "same" \/ Stray(w)
  /\ r = "sync" => w.worktrees \in {"missing", "different"}
  /\ r = "pre-commit install" => w.git = "answers" /\ MissingHookTypes(w) # {}
  /\ r = "install-git-hooks" => w.git = "answers" /\ ~NativePrePush(w)
Founded(w, f) == f.status \in FindingStatuses /\ Due(w, f.remedy)

(* A finding is founded if its status is one and its remedy, if any, is due. *)
LEMMA FoundedIf ==
  ASSUME NEW w
  PROVE  /\ \A c : \A s \in FindingStatuses : \A f \in Says(c, s) : Founded(w, f)
         /\ \A c, r : \A s \in FindingStatuses :
              Due(w, r) => \A f \in Asks(c, s, r) : Founded(w, f)
<1>1. Due(w, None)
  BY DEF Due, None
<1> QED
  BY <1>1 DEF Founded, Says, Asks, Finding

(* When each remedy has something to do. *)
LEMMA DueIf ==
  ASSUME NEW w
  PROVE  /\ Due(w, "bump") <=> w.declared < w.tagged
         /\ Due(w, "install mcp<2") <=> w.mcp # 1
         /\ Due(w, "secure home") <=> w.home \in {"open", "granted"}
         /\ Due(w, "secure auth_db") <=> w.authDb \in {"open", "granted"}
         /\ Due(w, "register") <=> w.registry = "absent" \/ w.path = "missing"
         /\ Due(w, "edit registry") <=> w.registry \in {"malformed", "empty"}
         /\ Due(w, "upgrade registry") <=> w.registry = "v1"
         /\ Due(w, "set webhook") <=> w.notify = "channel"
         /\ Due(w, "git root") <=> w.path \in {"plain", "wrapper"}
         /\ Due(w, "migrate") <=> w.tracked = "something"
         /\ Due(w, "replace value") <=> w.leak # "none"
         /\ Due(w, "rewrite config") <=> w.config = "odd"
         /\ Due(w, "reinstall") <=> w.env # "current"
         /\ Due(w, "reap") <=> w.processes \in {"orphan", "held", "stubborn"}
         /\ Due(w, "fix route") <=> w.agentsMd = "dead route"
         /\ Due(w, "name skill") <=> w.reached = "by itself"
         /\ Due(w, "edit host config") <=> w.host # "fine"
         /\ Due(w, "hook --apply") <=>
              w.settings # "object" \/ w.session # "works" \/ w.prompt # "works"
         /\ Due(w, "install skills") <=> w.skills # "same" \/ Stray(w)
         /\ Due(w, "sync") <=> w.worktrees \in {"missing", "different"}
         /\ Due(w, "pre-commit install") <=> w.git = "answers" /\ MissingHookTypes(w) # {}
         /\ Due(w, "install-git-hooks") <=> w.git = "answers" /\ ~NativePrePush(w)
  BY DEF Due

(* What the checks about the machine ask for is due. *)
LEMMA FoundedMachine ==
  ASSUME NEW w, World(w)
  PROVE  /\ \A f \in CheckEnvironment(w) : Founded(w, f)
         /\ \A f \in CheckPaths(w) : Founded(w, f)
         /\ \A f \in CheckRegistry(w) : Founded(w, f)
         /\ \A f \in CheckDeployment(w) : Founded(w, f)
         /\ \A f \in CheckAiLayer(w) : Founded(w, f)
         /\ \A f \in CheckOrphans(w) : Founded(w, f)
         /\ \A f \in CheckRoutes(w) : Founded(w, f)
         /\ \A f \in CheckHook(w, "routes.session_hook", w.session) : Founded(w, f)
         /\ \A f \in CheckHook(w, "routes.prompt_hook", w.prompt) : Founded(w, f)
         /\ \A f \in CheckHostConfigs(w) : Founded(w, f)
<1>0. {"ok", "warn", "fail", "skip"} = FindingStatuses
  BY DEF FindingStatuses
<1>1. \A f \in CheckEnvironment(w) : Founded(w, f)
  <2> DEFINE verdict == VersionVerdict(IF w.source THEN w.declared ELSE 0, w.tagged)
  <2>1. verdict \in FindingStatuses
    BY <1>0 DEF VersionVerdict
  <2>2. w.source \in BOOLEAN /\ w.declared \in 0..2 /\ w.tagged \in 0..2
    BY FactsByName, ValuesByName, ZenonT(40) DEF World
  <2>3. verdict = "fail" => w.declared < w.tagged
    BY <2>2 DEF VersionVerdict
  <2>4. \A f \in (IF verdict = "fail" THEN Asks("version.declared", "fail", "bump")
                  ELSE Says("version.declared", verdict)) : Founded(w, f)
    BY <1>0, <2>1, <2>3, FoundedIf, DueIf
  <2>5. \A f \in (IF w.mcp = 1 THEN Says("version.mcp", "ok")
                  ELSE Asks("version.mcp", "fail", "install mcp<2")) : Founded(w, f)
    BY <1>0, FoundedIf, DueIf
  <2> QED
    BY <2>4, <2>5 DEF CheckEnvironment
<1>2. \A f \in CheckPaths(w) : Founded(w, f)
  BY <1>0, FoundedIf, DueIf DEF CheckPaths, Reachable
<1>3. \A f \in CheckRegistry(w) : Founded(w, f)
  BY <1>0, FoundedIf, DueIf DEF CheckRegistry
<1>4. \A f \in CheckDeployment(w) : Founded(w, f)
  <2>1. PinStatus(w) \in FindingStatuses
    BY <1>0 DEF PinStatus
  <2> QED
    BY <1>0, <2>1, FoundedIf, DueIf
    DEF CheckDeployment, NoEnvironment, LacksModules, DiffersFromSource
<1>5. \A f \in CheckAiLayer(w) : Founded(w, f)
  <2>1. w.skills \in {"absent", "missing", "drifted", "same"}
    BY FactsByName, ValuesByName DEF World
  <2> QED
    BY <1>0, <2>1, FoundedIf, DueIf DEF CheckAiLayer, Drifted
<1>6. \A f \in CheckOrphans(w) : Founded(w, f)
  <2>1. w.processes \in {"unreadable", "none", "orphan", "held", "stubborn"}
    BY FactsByName, ValuesByName DEF World
  <2> QED
    BY <1>0, <2>1, FoundedIf, DueIf DEF CheckOrphans
<1>7. \A f \in CheckRoutes(w) : Founded(w, f)
  BY <1>0, FoundedIf, DueIf DEF CheckRoutes, DeadRoute, Unreached
<1>8. /\ \A f \in CheckHook(w, "routes.session_hook", w.session) : Founded(w, f)
      /\ \A f \in CheckHook(w, "routes.prompt_hook", w.prompt) : Founded(w, f)
  BY <1>0, FoundedIf, DueIf DEF CheckHook
<1>9. \A f \in CheckHostConfigs(w) : Founded(w, f)
  BY <1>0, FoundedIf, DueIf DEF CheckHostConfigs, Accused
<1> QED
  BY <1>1, <1>2, <1>3, <1>4, <1>5, <1>6, <1>7, <1>8, <1>9

(* What the checks about the project ask for is due. *)
LEMMA FoundedProject ==
  ASSUME NEW w, World(w), NEW offline, NEW some
  PROVE  /\ \A f \in CheckProject(w, offline) : Founded(w, f)
         /\ \A f \in CheckLayering(w, some) : Founded(w, f)
         /\ \A f \in CheckWorktreeLayers(w) : Founded(w, f)
         /\ \A f \in CheckContentScan(w) : Founded(w, f)
         /\ \A f \in CheckGitHooks(w, some) : Founded(w, f)
<1>0. {"ok", "warn", "fail", "skip"} = FindingStatuses
  BY DEF FindingStatuses
<1>1. \A check, exempt, verdict :
        (\A f \in verdict : Founded(w, f)) =>
           \A f \in OfCheckout(w, check, exempt, verdict) : Founded(w, f)
  BY <1>0, FoundedIf DEF OfCheckout
<1>2. \A f \in CheckProject(w, offline) : Founded(w, f)
  <2>1. \A f \in CheckProjectPaths(w) : Founded(w, f)
    <3>1. w.path \in {"none", "missing", "plain", "wrapper", "repo"}
      BY FactsByName, ValuesByName DEF World
    <3> QED
      BY <1>0, <3>1, FoundedIf, DueIf DEF CheckProjectPaths
  <2>2. \A f \in CheckJira(w, offline) : Founded(w, f)
    BY <1>0, FoundedIf, DueIf DEF CheckJira
  <2>3. \A f \in CheckNotifications(w) : Founded(w, f)
    BY <1>0, FoundedIf, DueIf DEF CheckNotifications
  <2> QED
    BY <1>0, <2>1, <2>2, <2>3, FoundedIf DEF CheckProject
<1>3. \A f \in CheckLayering(w, some) : Founded(w, f)
  <2> DEFINE verdict ==
         CASE w.path # "repo" -> Says("layering.tracked", "skip")
           [] w.path = "repo" /\ TrackedPaths(w) = NoAnswer -> Says("layering.tracked", "skip")
           [] w.path = "repo" /\ TrackedPaths(w) = "something" ->
                Asks("layering.tracked", "fail", "migrate")
           [] OTHER -> Says("layering.tracked", "ok")
  <2>1. TrackedPaths(w) = "something" => w.tracked = "something"
    BY DEF TrackedPaths, TrackedOr, NoAnswer
  <2>2. \A f \in verdict : Founded(w, f)
    BY <1>0, <2>1, FoundedIf, DueIf DEF NoAnswer
  <2>3. \A f \in CheckProjectLayering(w) : Founded(w, f)
    BY <1>1, <2>2 DEF CheckProjectLayering
  <2> QED
    BY <1>0, <2>3, FoundedIf DEF CheckLayering
<1>4. \A f \in CheckWorktreeLayers(w) : Founded(w, f)
  <2> DEFINE verdict ==
         CASE w.path # "repo" -> Says("worktrees.ai_layer", "skip")
           [] w.path = "repo" /\ (w.worktrees = "unreadable" \/ w.git # "answers") ->
                Says("worktrees.ai_layer", "fail")
           [] w.path = "repo" /\ w.worktrees \in {"missing", "different"} /\ w.git = "answers" ->
                Asks("worktrees.ai_layer", "warn", "sync")
           [] OTHER -> Says("worktrees.ai_layer", "ok")
  <2>1. \A f \in verdict : Founded(w, f)
    BY <1>0, FoundedIf, DueIf
  <2> QED
    BY <1>1, <2>1 DEF CheckWorktreeLayers
<1>5. \A f \in CheckContentScan(w) : Founded(w, f)
  <2> DEFINE leftOut == IF TrackedPaths(w) # NoAnswer \/ w.path # "repo" THEN {"dependency"} ELSE {}
             verdict ==
         CASE w.path = "missing" -> Says("content_scan", "skip")
           [] w.path # "missing" /\ w.leak \notin {"none"} \cup leftOut ->
                Asks("content_scan", "fail", "replace value")
           [] OTHER -> Says("content_scan", "ok")
  <2>1. \A f \in verdict : Founded(w, f)
    BY <1>0, FoundedIf, DueIf
  <2> QED
    BY <1>1, <2>1 DEF CheckContentScan
<1>6. \A f \in CheckGuard(w) : Founded(w, f)
  <2> DEFINE missing == MissingHookTypes(w) # {}
             asked == (IF missing THEN {"pre-commit install"} ELSE {}) \cup
                      (IF NativePrePush(w) THEN {} ELSE {"install-git-hooks"})
             failed == {Finding("guard.git_hooks", "fail", r) : r \in asked}
  <2>1. w.config \in {"none", "unguarded", "odd", "guarded", "guards push"}
    BY FactsByName, ValuesByName DEF World
  <2>2. ASSUME w.git = "answers"
        PROVE  \A f \in failed : Founded(w, f)
    <3> SUFFICES ASSUME NEW r \in asked
                 PROVE  Founded(w, Finding("guard.git_hooks", "fail", r))
      OBVIOUS
    <3>1. Due(w, r)
      BY <2>2, DueIf
    <3> QED
      BY <1>0, <3>1 DEF Founded, Finding
  <2>3. ASSUME NEW f \in CheckGuard(w)
        PROVE  \/ f \in failed /\ w.git = "answers"
               \/ f \in Says("guard.git_hooks", "skip") \/ f \in Says("guard.git_hooks", "ok")
               \/ f \in Asks("guard.git_hooks", "fail", "rewrite config") /\ w.config = "odd"
    BY <2>1 DEF CheckGuard
  <2> QED
    BY <1>0, <2>2, <2>3, FoundedIf, DueIf
<1>7. \A f \in CheckGitHooks(w, some) : Founded(w, f)
  <2>1. \A f \in CheckOwnHooks(w) : Founded(w, f)
    BY <1>0, <1>6, FoundedIf DEF CheckOwnHooks
  <2>2. \A f \in CheckProjectHooks(w) : Founded(w, f)
    BY <1>0, <1>1, <1>6, FoundedIf DEF CheckProjectHooks
  <2> QED
    BY <2>1, <2>2 DEF CheckGitHooks
<1> QED
  BY <1>2, <1>3, <1>4, <1>5, <1>7

(* What any run of the doctor asks for is due. *)
LEMMA FoundedRun ==
  ASSUME NEW w, World(w), NEW named, NEW offline
  PROVE  \A f \in RunDoctor(w, named, offline) : Founded(w, f)
<1> DEFINE some == HasProject(w) \/ named
<1>1. \A f \in (IF some THEN CheckProjects(w, offline) ELSE {}) : Founded(w, f)
  BY FoundedProject DEF CheckProjects
<1>2. /\ \A f \in CheckLayering(w, some) : Founded(w, f)
      /\ \A f \in CheckGitHooks(w, some) : Founded(w, f)
  BY FoundedProject
<1> QED
  BY <1>1, <1>2, FoundedMachine DEF RunDoctor

(* So a remedy is followed only where it is due. *)
LEMMA AskedIsDue ==
  ASSUME DoctorInv, NEW r, Asked(r)
  PROVE  Due(world, r)
  BY FoundedRun DEF DoctorInv, WorldTyped, ReportIsOfNow, Asked, Founded

-----------------------------------------------------------------------------
(* What each remedy does to the world, fact by fact. *)
Unchanged(facts) == \A fact \in DOMAIN Values \ facts : world'[fact] = world[fact]
Initialises ==
  /\ world'.home = "private"
  /\ world'.registry = (IF world.registry \in {"absent", "empty"} THEN "empty" ELSE "v2")
(* What the commands about git hooks change. *)
LEMMA HookCommandsDo ==
  ASSUME WorldTyped
  PROVE  /\ RefuseHook \/ LeaveHook => Unchanged({"home", "registry"}) /\ Initialises
         /\ WriteHook => /\ Unchanged({"home", "registry", "pushHook", "pushRuns"}) /\ Initialises
                         /\ world'.pushHook = "packaged"
         /\ MakeExecutable => Unchanged({"pushRuns"})
         /\ Dies => Unchanged({"pushHook"}) /\ world'.pushHook \in {"foreign", "packaged"}
         /\ PreCommitInstall =>
              /\ Unchanged({"commitHook", "legacy", "pushHook", "pushRuns"})
              /\ world'.commitHook = "runs"
              /\ IF world.config = "guards push"
                 THEN /\ world'.pushHook = "shim" /\ world'.pushRuns = TRUE
                      /\ world.legacy = TRUE \/ world.pushHook \notin {"absent", "shim"} =>
                           world'.legacy = TRUE
                 ELSE world'.pushHook = world.pushHook /\ world'.legacy = world.legacy
<1>1. RefuseHook \/ LeaveHook => Unchanged({"home", "registry"}) /\ Initialises
  BY InitialisedFacts DEF WorldTyped, RefuseHook, LeaveHook, Unchanged, Initialises
<1>2. ASSUME WriteHook
      PROVE  /\ Unchanged({"home", "registry", "pushHook", "pushRuns"}) /\ Initialises
             /\ world'.pushHook = "packaged"
  <2> DEFINE w0 == Initialised(world)
             w1 == [w0 EXCEPT !.pushHook = "packaged"]
             w2 == [w1 EXCEPT !.pushRuns = w0.pushRuns /\ world.pushHook # "absent"]
  <2>0. DOMAIN w0 = DOMAIN Values
    BY InitialisedFacts DEF WorldTyped
  <2>1. world' = w2
    BY <1>2 DEF WriteHook
  <2> HIDE DEF w0
  <2>2. \A fact \in DOMAIN Values \ {"pushHook", "pushRuns"} : w2[fact] = w0[fact]
    BY <2>0
  <2>3. w2.pushHook = "packaged"
    BY <2>0, FactsByName
  <2>4. w2.home = w0.home /\ w2.registry = w0.registry
    BY <2>2, FactsByName
  <2>5. Initialises
    BY <2>1, <2>4, InitialisedFacts DEF WorldTyped, Initialises, w0
  <2>6. Unchanged({"home", "registry", "pushHook", "pushRuns"})
    BY <2>1, <2>2, InitialisedFacts DEF WorldTyped, Unchanged, w0
  <2> QED
    BY <2>1, <2>3, <2>5, <2>6
<1>3. MakeExecutable => Unchanged({"pushRuns"})
  BY FactsByName DEF WorldTyped, World, MakeExecutable, Unchanged
<1>4. Dies => Unchanged({"pushHook"}) /\ world'.pushHook \in {"foreign", "packaged"}
  BY FactsByName DEF WorldTyped, World, Dies, Unchanged
<1>5. ASSUME PreCommitInstall
      PROVE  /\ Unchanged({"commitHook", "legacy", "pushHook", "pushRuns"})
             /\ world'.commitHook = "runs"
             /\ IF world.config = "guards push"
                THEN /\ world'.pushHook = "shim" /\ world'.pushRuns = TRUE
                     /\ world.legacy = TRUE \/ world.pushHook \notin {"absent", "shim"} =>
                          world'.legacy = TRUE
                ELSE world'.pushHook = world.pushHook /\ world'.legacy = world.legacy
  <2> DEFINE legacy == \/ world.legacy
                       \/ world.config = "guards push" /\ world.pushHook \notin {"absent", "shim"}
             hook == IF world.config = "guards push" THEN "shim" ELSE world.pushHook
             runs == world.pushRuns \/ world.config = "guards push"
             w1 == [world EXCEPT !.commitHook = "runs"]
             w2 == [w1 EXCEPT !.legacy = legacy]
             w3 == [w2 EXCEPT !.pushHook = hook]
             w4 == [w3 EXCEPT !.pushRuns = runs]
  <2>1. world' = w4
    BY <1>5 DEF PreCommitInstall
  <2>2. DOMAIN world = DOMAIN Values /\ world.legacy \in BOOLEAN
    BY FactsByName, ValuesByName DEF WorldTyped, World
  <2>3. \A fact \in DOMAIN Values \ {"commitHook", "legacy", "pushHook", "pushRuns"} : w4[fact] = world[fact]
    BY <2>2
  <2>4. w4.commitHook = "runs" /\ w4.pushHook = hook
    BY <2>2, FactsByName
  <2>5. w4.pushRuns = runs /\ w4.legacy = legacy
    BY <2>2, FactsByName
  <2>8. Unchanged({"commitHook", "legacy", "pushHook", "pushRuns"})
    BY <2>1, <2>3 DEF Unchanged
  <2>6. CASE world.config = "guards push"
    <3>1. hook = "shim" /\ runs = TRUE
      BY <2>6
    <3>2. world.legacy = TRUE \/ world.pushHook \notin {"absent", "shim"} => legacy = TRUE
      BY <2>6
    <3> HIDE DEF w4, hook, runs, legacy
    <3> QED
      BY <2>1, <2>4, <2>5, <2>6, <2>8, <3>1, <3>2
  <2>7. CASE world.config # "guards push"
    <3>1. legacy = world.legacy /\ hook = world.pushHook
      BY <2>2, <2>7
    <3> HIDE DEF w4, hook, runs, legacy
    <3> QED
      BY <2>1, <2>4, <2>5, <2>7, <2>8, <3>1
  <2> QED
    BY <2>6, <2>7
<1> QED
  BY <1>1, <1>2, <1>3, <1>4, <1>5

(* What the commands that register a project change. *)
LEMMA RegisterDoes ==
  ASSUME WorldTyped
  PROVE  /\ Register => /\ Unchanged({"home", "registry", "path", "jira", "notify"})
                        /\ world'.home = "private" /\ world'.registry = "v2"
                        /\ world'.path \in {"plain", "wrapper", "repo"}
                        /\ world'.notify \in {world.notify, "none", "webhook"}
         /\ GitRoot => /\ Unchanged({"home", "registry", "path"}) /\ Initialises
                       /\ world'.path = (IF world.path = "wrapper" THEN "repo" ELSE world.path)
<1> DEFINE w0 == Initialised(world)
<1>0. /\ DOMAIN w0 = DOMAIN Values
      /\ w0.home = "private"
      /\ w0.registry = (IF world.registry \in {"absent", "empty"} THEN "empty" ELSE "v2")
      /\ \A fact \in DOMAIN Values \ {"home", "registry"} : w0[fact] = world[fact]
  BY InitialisedFacts DEF WorldTyped
<1>1. ASSUME Register
      PROVE  /\ Unchanged({"home", "registry", "path", "jira", "notify"})
             /\ world'.home = "private" /\ world'.registry = "v2"
             /\ world'.path \in {"plain", "wrapper", "repo"}
             /\ world'.notify \in {world.notify, "none", "webhook"}
  <2>1. PICK path \in {"plain", "wrapper", "repo"}, block \in {"none", world.jira},
             notify \in {"none", "webhook"} :
          LET entry == [w0 EXCEPT !.registry = "v2", !.path = path]
          IN  world' = IF HasProject(world) THEN entry
                       ELSE [entry EXCEPT !.jira = block, !.notify = notify]
    BY <1>1 DEF Register
  <2> DEFINE w1 == [w0 EXCEPT !.registry = "v2"]
             w2 == [w1 EXCEPT !.path = path]
             w3 == [w2 EXCEPT !.jira = block]
             w4 == [w3 EXCEPT !.notify = notify]
  <2>2. world' = w2 \/ world' = w4
    BY <2>1
  <2> HIDE DEF w0
  <2>3. /\ \A fact \in DOMAIN Values \ {"registry", "path"} : w2[fact] = w0[fact]
        /\ w2.registry = "v2" /\ w2.path = path
    BY <1>0, FactsByName
  <2>4. /\ \A fact \in DOMAIN Values \ {"registry", "path", "jira", "notify"} : w4[fact] = w0[fact]
        /\ w4.registry = "v2" /\ w4.path = path /\ w4.notify = notify
    BY <1>0, FactsByName
  <2> HIDE DEF w2, w4
  <2>5. \A fact \in DOMAIN Values \ {"registry", "path", "jira", "notify"} : world'[fact] = w0[fact]
    BY <2>2, <2>3, <2>4
  <2>6. world'.registry = "v2" /\ world'.path = path /\ world'.notify \in {w0.notify, notify}
    BY <2>2, <2>3, <2>4, FactsByName
  <2>7. world'.home = w0.home /\ w0.notify = world.notify
    BY <1>0, <2>5, FactsByName
  <2>8. Unchanged({"home", "registry", "path", "jira", "notify"})
    BY <1>0, <2>5 DEF Unchanged
  <2> QED
    BY <1>0, <2>1, <2>6, <2>7, <2>8
<1>2. ASSUME GitRoot
      PROVE  /\ Unchanged({"home", "registry", "path"}) /\ Initialises
             /\ world'.path = (IF world.path = "wrapper" THEN "repo" ELSE world.path)
  <2> DEFINE root == IF w0.path = "wrapper" THEN "repo" ELSE w0.path
  <2>1. world' = [w0 EXCEPT !.path = root]
    BY <1>2 DEF GitRoot
  <2> HIDE DEF w0
  <2>2. w0.path = world.path
    BY <1>0, FactsByName
  <2> HIDE DEF root
  <2>3. \A fact \in DOMAIN Values \ {"path"} : world'[fact] = w0[fact]
    BY <1>0, <2>1
  <2>4. world'.path = root
    BY <1>0, <2>1, FactsByName
  <2>5. world'.home = w0.home /\ world'.registry = w0.registry
    BY <2>3, FactsByName
  <2>6. Unchanged({"home", "registry", "path"})
    BY <1>0, <2>3 DEF Unchanged
  <2>7. Initialises
    BY <1>0, <2>5 DEF Initialises
  <2> QED
    BY <2>2, <2>4, <2>6, <2>7 DEF root
<1> QED
  BY <1>1, <1>2

(* What hook --apply, the installer and the sync change. *)
LEMMA OtherCommandsDo ==
  ASSUME WorldTyped
  PROVE  /\ HookApply => /\ Unchanged({"settings", "session", "prompt"})
                         /\ world'.settings = "object"
                         /\ world'.session # "none" /\ world'.prompt # "none"
         /\ InstallSkillsAgain => /\ Unchanged({"skills", "stray"})
                                  /\ world'.skills = "same"
                                  /\ world'.stray \notin {"retired", "unknown"}
         /\ SyncWorktrees => Unchanged({"worktrees"}) /\ world'.worktrees # "missing"
<1>1. DOMAIN world = DOMAIN Values
  BY DEF WorldTyped, World
<1>2. ASSUME HookApply
      PROVE  /\ Unchanged({"settings", "session", "prompt"}) /\ world'.settings = "object"
             /\ world'.session # "none" /\ world'.prompt # "none"
  <2>1. PICK session \in EntryAfter(world.session), prompt \in EntryAfter(world.prompt) :
          world' = [world EXCEPT !.settings = "object", !.session = session, !.prompt = prompt]
    BY <1>2 DEF HookApply
  <2> DEFINE w1 == [world EXCEPT !.settings = "object"]
             w2 == [w1 EXCEPT !.session = session]
             w3 == [w2 EXCEPT !.prompt = prompt]
  <2>2. \A fact \in DOMAIN Values \ {"settings", "session", "prompt"} : w3[fact] = world[fact]
    BY <1>1
  <2>3. w3.settings = "object" /\ w3.session = session /\ w3.prompt = prompt
    BY <1>1, FactsByName
  <2>4. session # "none" /\ prompt # "none"
    BY DEF EntryAfter
  <2>5. world' = w3
    BY <2>1
  <2> QED
    BY <2>2, <2>3, <2>4, <2>5 DEF Unchanged
<1>3. ASSUME InstallSkillsAgain
      PROVE  /\ Unchanged({"skills", "stray"}) /\ world'.skills = "same"
             /\ world'.stray \notin {"retired", "unknown"}
  <2>1. PICK stray \in StrayAfter(world.stray) :
          world' = [world EXCEPT !.skills = "same", !.stray = stray]
    BY <1>3 DEF InstallSkillsAgain
  <2> DEFINE w1 == [world EXCEPT !.skills = "same"]
             w2 == [w1 EXCEPT !.stray = stray]
  <2>2. \A fact \in DOMAIN Values \ {"skills", "stray"} : w2[fact] = world[fact]
    BY <1>1
  <2>3. w2.skills = "same" /\ w2.stray = stray
    BY <1>1, FactsByName
  <2>4. stray \notin {"retired", "unknown"}
    BY DEF StrayAfter
  <2>5. world' = w2
    BY <2>1
  <2> QED
    BY <2>2, <2>3, <2>4, <2>5 DEF Unchanged
<1>4. ASSUME SyncWorktrees
      PROVE  Unchanged({"worktrees"}) /\ world'.worktrees # "missing"
  BY <1>1, <1>4, FactsByName DEF SyncWorktrees, Unchanged
<1> QED
  BY <1>2, <1>3, <1>4

(* What the commands change that change one fact. *)
LEMMA SingleCommandsDo ==
  ASSUME WorldTyped
  PROVE  /\ Migrate => Unchanged({"tracked"}) /\ world'.tracked = "nothing"
         /\ ReapLeftovers => /\ Unchanged({"processes"})
                             /\ world'.processes \in {"none", "held", "stubborn"}
         /\ SecureHome => Unchanged({"home"}) /\ world'.home # "open"
         /\ SecureAuthDb => Unchanged({"authDb"}) /\ world'.authDb # "open"
<1>1. DOMAIN world = DOMAIN Values
  BY DEF WorldTyped, World
<1>2. ASSUME NEW fact \in DOMAIN Values, NEW value, world' = [world EXCEPT ![fact] = value]
      PROVE  Unchanged({fact}) /\ world'[fact] = value
  BY <1>1, <1>2 DEF Unchanged
<1>3. Migrate => Unchanged({"tracked"}) /\ world'.tracked = "nothing"
  BY <1>1, FactsByName DEF Migrate, Unchanged
<1>4. ASSUME ReapLeftovers
      PROVE  Unchanged({"processes"}) /\ world'.processes \in {"none", "held", "stubborn"}
  <2>1. PICK p \in ReapLeaves(world.processes) : world' = [world EXCEPT !.processes = p]
    BY <1>4 DEF ReapLeftovers
  <2>2. p \in {"none", "held", "stubborn"}
    BY DEF ReapLeaves
  <2>3. Unchanged({"processes"}) /\ world'.processes = p
    BY <1>2, <2>1, FactsByName
  <2> QED
    BY <2>2, <2>3
<1>5. \A mode : Secured(mode) # "open"
  BY DEF Secured
<1>6. ASSUME SecureHome
      PROVE  Unchanged({"home"}) /\ world'.home # "open"
  <2>1. world' = [world EXCEPT !.home = Secured(world.home)]
    BY <1>6 DEF SecureHome, Secure
  <2>2. Unchanged({"home"}) /\ world'.home = Secured(world.home)
    BY <1>2, <2>1, FactsByName
  <2> QED
    BY <1>5, <2>2
<1>7. ASSUME SecureAuthDb
      PROVE  Unchanged({"authDb"}) /\ world'.authDb # "open"
  <2>1. world' = [world EXCEPT !.authDb = Secured(world.authDb)]
    BY <1>7 DEF SecureAuthDb, Secure
  <2>2. Unchanged({"authDb"}) /\ world'.authDb = Secured(world.authDb)
    BY <1>2, <2>1, FactsByName
  <2> QED
    BY <1>5, <2>2
<1> QED
  BY <1>3, <1>4, <1>6, <1>7

(* What each of the other remedies changes. *)
LEMMA MendDoes ==
  ASSUME WorldTyped, NEW r \in DOMAIN Mended, Mend(r)
  PROVE  \/ r = "bump" /\ Unchanged({"declared"}) /\ world'.declared = world.tagged
         \/ r = "install mcp<2" /\ Unchanged({"mcp"}) /\ world'.mcp = 1
         \/ /\ r \in {"edit registry", "upgrade registry"}
            /\ Unchanged({"registry"}) /\ world'.registry = "v2"
         \/ r = "set webhook" /\ Unchanged({"notify"}) /\ world'.notify = "webhook"
         \/ r = "replace value" /\ Unchanged({"leak"}) /\ world'.leak = "none"
         \/ r = "rewrite config" /\ Unchanged({"config"}) /\ world'.config = "guarded"
         \/ r = "reinstall" /\ Unchanged({"env"}) /\ world'.env = "current"
         \/ r = "fix route" /\ Unchanged({"agentsMd"}) /\ world'.agentsMd = "routes"
         \/ r = "name skill" /\ Unchanged({"reached"}) /\ world'.reached = "named"
         \/ r = "edit host config" /\ Unchanged({"host"}) /\ world'.host = "fine"
<1>1. world' = Mended[r] /\ DOMAIN world = DOMAIN Values
  BY DEF Mend, WorldTyped, World
<1>2. ASSUME NEW fact \in DOMAIN Values, NEW value, Mended[r] = [world EXCEPT ![fact] = value]
      PROVE  Unchanged({fact}) /\ world'[fact] = value
  BY <1>1, <1>2 DEF Unchanged
<1>3. CASE r = "bump"
  <2>1. Mended[r] = [world EXCEPT !.declared = world.tagged]
    BY <1>3 DEF Mended
  <2>2. Unchanged({"declared"}) /\ world'["declared"] = world.tagged
    BY <1>2, <2>1, FactsByName
  <2> QED
    BY <1>3, <2>2
<1>4. CASE r = "install mcp<2"
  <2>1. Mended[r] = [world EXCEPT !.mcp = 1]
    BY <1>4 DEF Mended
  <2>2. Unchanged({"mcp"}) /\ world'["mcp"] = 1
    BY <1>2, <2>1, FactsByName
  <2> QED
    BY <1>4, <2>2
<1>5. CASE r \in {"edit registry", "upgrade registry"}
  <2>1. Mended[r] = [world EXCEPT !.registry = "v2"]
    BY <1>5 DEF Mended
  <2>2. Unchanged({"registry"}) /\ world'["registry"] = "v2"
    BY <1>2, <2>1, FactsByName
  <2> QED
    BY <1>5, <2>2
<1>6. CASE r = "set webhook"
  <2>1. Mended[r] = [world EXCEPT !.notify = "webhook"]
    BY <1>6 DEF Mended
  <2>2. Unchanged({"notify"}) /\ world'["notify"] = "webhook"
    BY <1>2, <2>1, FactsByName
  <2> QED
    BY <1>6, <2>2
<1>7. CASE r = "replace value"
  <2>1. Mended[r] = [world EXCEPT !.leak = "none"]
    BY <1>7 DEF Mended
  <2>2. Unchanged({"leak"}) /\ world'["leak"] = "none"
    BY <1>2, <2>1, FactsByName
  <2> QED
    BY <1>7, <2>2
<1>8. CASE r = "rewrite config"
  <2>1. Mended[r] = [world EXCEPT !.config = "guarded"]
    BY <1>8 DEF Mended
  <2>2. Unchanged({"config"}) /\ world'["config"] = "guarded"
    BY <1>2, <2>1, FactsByName
  <2> QED
    BY <1>8, <2>2
<1>9. CASE r = "reinstall"
  <2>1. Mended[r] = [world EXCEPT !.env = "current"]
    BY <1>9 DEF Mended
  <2>2. Unchanged({"env"}) /\ world'["env"] = "current"
    BY <1>2, <2>1, FactsByName
  <2> QED
    BY <1>9, <2>2
<1>10. CASE r = "fix route"
  <2>1. Mended[r] = [world EXCEPT !.agentsMd = "routes"]
    BY <1>10 DEF Mended
  <2>2. Unchanged({"agentsMd"}) /\ world'["agentsMd"] = "routes"
    BY <1>2, <2>1, FactsByName
  <2> QED
    BY <1>10, <2>2
<1>11. CASE r = "name skill"
  <2>1. Mended[r] = [world EXCEPT !.reached = "named"]
    BY <1>11 DEF Mended
  <2>2. Unchanged({"reached"}) /\ world'["reached"] = "named"
    BY <1>2, <2>1, FactsByName
  <2> QED
    BY <1>11, <2>2
<1>12. CASE r = "edit host config"
  <2>1. Mended[r] = [world EXCEPT !.host = "fine"]
    BY <1>12 DEF Mended
  <2>2. Unchanged({"host"}) /\ world'["host"] = "fine"
    BY <1>2, <2>1, FactsByName
  <2> QED
    BY <1>12, <2>2
<1> QED
  BY <1>3, <1>4, <1>5, <1>6, <1>7, <1>8, <1>9, <1>10, <1>11, <1>12 DEF Mended

(* drunken-init undoes none of what has been settled about its two facts. *)
LEMMA InitialisesKeeps ==
  ASSUME NEW q, OfMachine(world, q), OfProject(world, q),
         \/ Initialises
         \/ world'.home = world.home /\ world'.registry = world.registry
  PROVE  /\ q = "secure home" => world'.home # "open"
         /\ q = "register" => world'.registry # "absent"
         /\ q = "edit registry" => world'.registry = "v2"
         /\ q = "upgrade registry" => world'.registry # "v1"
         /\ q = "git root" => world'.registry # "absent"
  BY DEF Initialises, OfMachine, OfProject

(* No remedy undoes what another has settled. *)
LEMMA SettledStep ==
  ASSUME DoctorInv, Settled, [DoctorNext]_doctorVars
  PROVE  Settled'
<1> SUFFICES ASSUME NEW q \in followed'
             PROVE  OfMachine(world', q) /\ OfProject(world', q) /\ OfGuild(world', q)
  BY DEF Settled
<1>0. q \in followed => OfMachine(world, q) /\ OfProject(world, q) /\ OfGuild(world, q)
  BY DEF Settled
<1> USE DEF DoctorInv
<1>1. CASE Diagnose \/ NotDone \/ UNCHANGED doctorVars
  <2>1. UNCHANGED <<world, followed>>
    BY <1>1 DEF Diagnose, NotDone, doctorVars
  <2> QED
    BY <1>0, <2>1
<1>2. CASE RefuseHook \/ LeaveHook \/ WriteHook \/ MakeExecutable \/ Dies \/ PreCommitInstall
  <2>1. /\ Unchanged({"home", "registry", "commitHook", "legacy", "pushHook", "pushRuns"})
        /\ Initialises \/ (world'.home = world.home /\ world'.registry = world.registry)
    <3>1. CASE RefuseHook \/ LeaveHook \/ WriteHook
      BY <3>1, HookCommandsDo DEF Unchanged
    <3>2. CASE MakeExecutable \/ Dies \/ PreCommitInstall
      <4>1. Unchanged({"commitHook", "legacy", "pushHook", "pushRuns"})
        BY <3>2, HookCommandsDo DEF Unchanged
      <4> QED
        BY <4>1, FactsByName DEF Unchanged
    <3> QED
      BY <1>2, <3>1, <3>2
  <2>2. q \in followed \cup {"install-git-hooks", "pre-commit install"}
    BY <1>2 DEF RefuseHook, LeaveHook, WriteHook, MakeExecutable, Dies, PreCommitInstall, Done
  <2>3. CASE q \in followed
    <3>1. OfMachine(world', q)
      BY <1>0, <2>1, <2>3, InitialisesKeeps, FactsByName DEF OfMachine, Unchanged
    <3>2. OfProject(world', q)
      BY <1>0, <2>1, <2>3, InitialisesKeeps, FactsByName DEF OfProject, Unchanged
    <3>3. OfGuild(world', q)
      BY <1>0, <2>1, <2>3, FactsByName DEF OfGuild, Unchanged
    <3> QED
      BY <3>1, <3>2, <3>3
  <2>4. CASE q \in {"install-git-hooks", "pre-commit install"}
    BY <2>4 DEF OfMachine, OfProject, OfGuild
  <2> QED
    BY <2>2, <2>3, <2>4
<1>3. CASE Register
  <2>1. /\ Unchanged({"home", "registry", "path", "jira", "notify"})
        /\ world'.home = "private" /\ world'.registry = "v2"
        /\ world'.path \in {"plain", "wrapper", "repo"}
        /\ world'.notify \in {world.notify, "none", "webhook"}
    BY <1>3, RegisterDoes
  <2>2. q \in followed \cup {"register"}
    BY <1>3 DEF Register, Done
  <2>3. world.registry = "absent" \/ world.path = "missing"
    BY <1>3, AskedIsDue DEF Register, Due
  <2>4. q # "git root"
    BY <1>0, <2>2, <2>3 DEF OfProject
  <2>8. /\ world'.declared = world.declared /\ world'.tagged = world.tagged
        /\ world'.mcp = world.mcp /\ world'.authDb = world.authDb /\ world'.env = world.env
        /\ world'.processes = world.processes /\ world'.host = world.host
    BY <2>1, FactsByName DEF Unchanged
  <2>5. OfMachine(world', q)
    <3>1. q = "secure home" => world'.home # "open"
      BY <2>1
    <3> QED
      BY <1>0, <2>2, <2>8, <3>1 DEF OfMachine
  <2>6. OfProject(world', q)
    <3>1. q = "set webhook" => world'.notify # "channel"
      BY <1>0, <2>1, <2>2 DEF OfProject
    <3>2. /\ q = "migrate" => world'.tracked = "nothing"
          /\ q = "replace value" => world'.leak = "none"
          /\ q = "sync" => world'.worktrees # "missing"
      BY <1>0, <2>1, <2>2, FactsByName DEF OfProject, Unchanged
    <3> QED
      BY <2>1, <2>4, <3>1, <3>2 DEF OfProject
  <2>9. /\ world'.config = world.config /\ world'.agentsMd = world.agentsMd
        /\ world'.reached = world.reached /\ world'.settings = world.settings
        /\ world'.session = world.session /\ world'.prompt = world.prompt
        /\ world'.skills = world.skills /\ world'.stray = world.stray
    BY <2>1, FactsByName DEF Unchanged
  <2>7. OfGuild(world', q)
    BY <1>0, <2>2, <2>9 DEF OfGuild
  <2> QED
    BY <2>5, <2>6, <2>7
<1>4. CASE GitRoot
  <2>1. /\ Unchanged({"home", "registry", "path"}) /\ Initialises
        /\ world'.path = (IF world.path = "wrapper" THEN "repo" ELSE world.path)
    BY <1>4, RegisterDoes
  <2>2. q \in followed \cup {"git root"}
    BY <1>4 DEF GitRoot, Done
  <2>3. world.path \in {"plain", "wrapper"}
    BY <1>4, AskedIsDue DEF GitRoot, Due
  <2>4. world'.path \in {"plain", "repo"} /\ world'.registry # "absent"
    BY <2>1, <2>3 DEF Initialises
  <2>5. OfMachine(world', q)
    <3>1. q = "secure home" => world'.home # "open"
      BY <2>1 DEF Initialises
    <3> QED
      BY <1>0, <2>1, <2>2, <3>1, FactsByName DEF OfMachine, Unchanged
  <2>6. OfProject(world', q)
    <3>1. /\ q = "edit registry" => world'.registry = "v2"
          /\ q = "upgrade registry" => world'.registry # "v1"
      BY <1>0, <2>1, <2>2, InitialisesKeeps
    <3>2. /\ q = "set webhook" => world'.notify # "channel"
          /\ q = "migrate" => world'.tracked = "nothing"
          /\ q = "replace value" => world'.leak = "none"
          /\ q = "sync" => world'.worktrees # "missing"
      BY <1>0, <2>1, <2>2, FactsByName DEF OfProject, Unchanged
    <3> QED
      BY <2>4, <3>1, <3>2 DEF OfProject
  <2>7. OfGuild(world', q)
    BY <1>0, <2>1, <2>2, FactsByName DEF OfGuild, Unchanged
  <2> QED
    BY <2>5, <2>6, <2>7
<1>5. CASE HookApply \/ InstallSkillsAgain \/ SyncWorktrees
  <2>1. \/ /\ q \in followed \cup {"hook --apply"} /\ Unchanged({"settings", "session", "prompt"})
           /\ world'.settings = "object" /\ world'.session # "none" /\ world'.prompt # "none"
        \/ /\ q \in followed \cup {"install skills"} /\ Unchanged({"skills", "stray"})
           /\ world'.skills = "same" /\ world'.stray \notin {"retired", "unknown"}
        \/ /\ q \in followed \cup {"sync"} /\ Unchanged({"worktrees"})
           /\ world'.worktrees # "missing"
    BY <1>5, OtherCommandsDo DEF HookApply, InstallSkillsAgain, SyncWorktrees, Done
  <2>2. OfMachine(world', q)
    BY <1>0, <2>1, FactsByName, ZenonT(40) DEF OfMachine, Unchanged
  <2>3. OfProject(world', q)
    BY <1>0, <2>1, FactsByName, ZenonT(40) DEF OfProject, Unchanged
  <2>4. OfGuild(world', q)
    BY <1>0, <2>1, FactsByName, ZenonT(40) DEF OfGuild, Unchanged
  <2> QED
    BY <2>2, <2>3, <2>4
<1>6. CASE Migrate \/ ReapLeftovers \/ SecureHome \/ SecureAuthDb
  <2>1. \/ /\ q \in followed \cup {"migrate"} /\ Unchanged({"tracked"})
           /\ world'.tracked = "nothing"
        \/ /\ q \in followed \cup {"reap"} /\ Unchanged({"processes"})
           /\ world'.processes \in {"none", "held", "stubborn"}
        \/ q \in followed \cup {"secure home"} /\ Unchanged({"home"}) /\ world'.home # "open"
        \/ /\ q \in followed \cup {"secure auth_db"} /\ Unchanged({"authDb"})
           /\ world'.authDb # "open"
    BY <1>6, SingleCommandsDo DEF Migrate, ReapLeftovers, SecureHome, SecureAuthDb, Secure, Done
  <2>2. OfMachine(world', q)
    BY <1>0, <2>1, FactsByName, ZenonT(40) DEF OfMachine, Unchanged
  <2>3. OfProject(world', q)
    BY <1>0, <2>1, FactsByName, ZenonT(40) DEF OfProject, Unchanged
  <2>4. OfGuild(world', q)
    BY <1>0, <2>1, FactsByName, ZenonT(40) DEF OfGuild, Unchanged
  <2> QED
    BY <2>2, <2>3, <2>4
<1>7. ASSUME NEW r \in DOMAIN Mended, Mend(r)
      PROVE  OfMachine(world', q) /\ OfProject(world', q) /\ OfGuild(world', q)
  <2>1. q \in followed \cup {r}
    BY <1>7 DEF Mend, Done
  <2>2. CASE r \in {"bump", "install mcp<2", "reinstall", "edit host config"}
    <3>1. \/ r = "bump" /\ Unchanged({"declared"}) /\ world'.declared = world.tagged
          \/ r = "install mcp<2" /\ Unchanged({"mcp"}) /\ world'.mcp = 1
          \/ r = "reinstall" /\ Unchanged({"env"}) /\ world'.env = "current"
          \/ r = "edit host config" /\ Unchanged({"host"}) /\ world'.host = "fine"
      BY <1>7, <2>2, MendDoes
    <3>2. OfMachine(world', q)
      <4>1. CASE r = "bump"
        BY <1>0, <2>1, <3>1, <4>1, FactsByName, ZenonT(40) DEF OfMachine, Unchanged
      <4>2. CASE r = "install mcp<2"
        BY <1>0, <2>1, <3>1, <4>2, FactsByName, ZenonT(40) DEF OfMachine, Unchanged
      <4>3. CASE r \in {"reinstall", "edit host config"}
        BY <1>0, <2>1, <3>1, <4>3, FactsByName DEF OfMachine, Unchanged
      <4> QED
        BY <2>2, <4>1, <4>2, <4>3
    <3>3. Unchanged({"declared", "mcp", "env", "host"})
      BY <3>1 DEF Unchanged
    <3>4. OfProject(world', q)
      BY <1>0, <2>1, <2>2, <3>3, FactsByName DEF OfProject, Unchanged
    <3>5. OfGuild(world', q)
      BY <1>0, <2>1, <2>2, <3>3, FactsByName DEF OfGuild, Unchanged
    <3> QED
      BY <3>2, <3>4, <3>5
  <2>3. CASE r \in {"edit registry", "upgrade registry", "set webhook", "replace value"}
    <3>1. \/ /\ r \in {"edit registry", "upgrade registry"}
             /\ Unchanged({"registry"}) /\ world'.registry = "v2"
          \/ r = "set webhook" /\ Unchanged({"notify"}) /\ world'.notify = "webhook"
          \/ r = "replace value" /\ Unchanged({"leak"}) /\ world'.leak = "none"
      BY <1>7, <2>3, MendDoes
    <3>2. Unchanged({"registry", "notify", "leak"})
      BY <3>1 DEF Unchanged
    <3>3. OfMachine(world', q)
      BY <1>0, <2>1, <2>3, <3>2, FactsByName DEF OfMachine, Unchanged
    <3>4. OfProject(world', q)
      BY <1>0, <2>1, <3>1, FactsByName, ZenonT(40) DEF OfProject, Unchanged
    <3>5. OfGuild(world', q)
      BY <1>0, <2>1, <2>3, <3>2, FactsByName DEF OfGuild, Unchanged
    <3> QED
      BY <3>3, <3>4, <3>5
  <2>4. CASE r \in {"rewrite config", "fix route", "name skill"}
    <3>1. \/ r = "rewrite config" /\ Unchanged({"config"}) /\ world'.config = "guarded"
          \/ r = "fix route" /\ Unchanged({"agentsMd"}) /\ world'.agentsMd = "routes"
          \/ r = "name skill" /\ Unchanged({"reached"}) /\ world'.reached = "named"
      BY <1>7, <2>4, MendDoes
    <3>2. OfMachine(world', q)
      BY <1>0, <2>1, <3>1, FactsByName, ZenonT(40) DEF OfMachine, Unchanged
    <3>3. OfProject(world', q)
      BY <1>0, <2>1, <3>1, FactsByName, ZenonT(40) DEF OfProject, Unchanged
    <3>4. OfGuild(world', q)
      BY <1>0, <2>1, <3>1, FactsByName, ZenonT(40) DEF OfGuild, Unchanged
    <3> QED
      BY <3>2, <3>3, <3>4
  <2> QED
    BY <2>2, <2>3, <2>4 DEF Mended
<1>8. ~(CutShort \/ OneHookApplied \/ \E fact \in DOMAIN Values : GoesWrong(fact))
  BY DEF CutShort, OneHookApplied, GoesWrong, Wrong
<1> QED
  BY <1>1, <1>2, <1>3, <1>4, <1>5, <1>6, <1>7, <1>8 DEF DoctorNext, Remedies, SecureHome, SecureAuthDb

(* Every step keeps what is known of the remedies about git hooks. *)
LEMMA HooksSettledStep ==
  ASSUME WorldTyped, HooksSettled, Writing, [DoctorNext]_doctorVars
  PROVE  HooksSettled' /\ Writing'
<1> DEFINE Elsewhere == \A r \in followed' :
             r \in followed \/ r \notin {"pre-commit install", "install-git-hooks"}
           others == {"home", "registry", "path", "jira", "notify", "authDb", "tracked",
                      "processes", "settings", "session", "prompt", "skills", "stray",
                      "worktrees", "declared", "mcp", "leak", "env", "agentsMd", "reached", "host"}
<1>0. ASSUME ~installing', Elsewhere,
             Unchanged(others) \/ (Unchanged({"config"}) /\ world'.config = "guarded")
      PROVE  HooksSettled' /\ Writing'
  <2>1. /\ world'.commitHook = world.commitHook /\ world'.pushHook = world.pushHook
        /\ world'.pushRuns = world.pushRuns /\ world'.legacy = world.legacy
        /\ world'.config = world.config \/ world'.config = "guarded"
    BY <1>0, FactsByName DEF Unchanged
  <2>2. \A r : OfHooks(world, r) => OfHooks(world', r)
    BY <2>1 DEF OfHooks
  <2>3. \A r : r \notin {"pre-commit install", "install-git-hooks"} => OfHooks(world', r)
    BY DEF OfHooks
  <2> QED
    BY <1>0, <2>2, <2>3 DEF HooksSettled, Writing
<1>a. \A facts : facts \subseteq others /\ Unchanged(facts) => Unchanged(others)
  BY DEF Unchanged
<1>b. ASSUME NEW r, r \notin {"pre-commit install", "install-git-hooks"}, Done(r), ~installing
      PROVE  ~installing' /\ Elsewhere
  <2>1. followed' = followed \cup {r} /\ ~installing'
    BY <1>b DEF Done
  <2> QED
    BY <1>b, <2>1
<1>1. CASE Diagnose \/ NotDone \/ UNCHANGED doctorVars
  <2>1. UNCHANGED <<world, followed, installing>>
    BY <1>1 DEF Diagnose, NotDone, doctorVars
  <2> QED
    BY <2>1 DEF HooksSettled, Writing
<1>2. CASE RefuseHook
  <2>1. followed' = followed /\ ~installing'
    BY <1>2 DEF RefuseHook, Asked
  <2>2. Unchanged(others)
    BY <1>2, HookCommandsDo DEF Unchanged
  <2> QED
    BY <1>0, <2>1, <2>2
<1>3. CASE LeaveHook
  <2>1. /\ followed' = followed \cup {"install-git-hooks"} /\ ~installing'
        /\ world.pushHook = "packaged"
    BY <1>3 DEF LeaveHook, Done, Asked, Changed
  <2>2. Unchanged({"home", "registry"})
    BY <1>3, HookCommandsDo
  <2>3. /\ world'.commitHook = world.commitHook /\ world'.config = world.config
        /\ world'.pushHook = "packaged"
    BY <2>1, <2>2, FactsByName DEF Unchanged
  <2>4. \A r : r = "install-git-hooks" \/ OfHooks(world, r) => OfHooks(world', r)
    BY <2>1, <2>3 DEF OfHooks
  <2> QED
    BY <2>1, <2>4 DEF HooksSettled, Writing
<1>4. CASE WriteHook
  <2>1. /\ followed' = followed /\ world.pushHook # "shim" /\ world.pushHook # "packaged"
    BY <1>4 DEF WriteHook, MayInstall, IsOurs, Changed
  <2>2. /\ world'.commitHook = world.commitHook /\ world'.config = world.config
        /\ world'.pushHook = "packaged"
    BY <1>4, HookCommandsDo, FactsByName DEF Unchanged
  <2>3. \A r : OfHooks(world, r) => OfHooks(world', r)
    BY <2>1, <2>2 DEF OfHooks
  <2>4. ~OfHooks(world, "install-git-hooks")
    BY <2>1 DEF OfHooks
  <2> QED
    BY <2>1, <2>2, <2>3, <2>4 DEF HooksSettled, Writing
<1>5. CASE MakeExecutable
  <2>1. /\ followed' = followed \cup {"install-git-hooks"} /\ ~installing'
        /\ world.pushHook = "packaged"
    BY <1>5 DEF MakeExecutable, Writing
  <2>2. /\ world'.commitHook = world.commitHook /\ world'.config = world.config
        /\ world'.pushHook = "packaged"
    BY <1>5, <2>1, HookCommandsDo, FactsByName DEF Unchanged
  <2>3. \A r : r = "install-git-hooks" \/ OfHooks(world, r) => OfHooks(world', r)
    BY <2>1, <2>2 DEF OfHooks
  <2> QED
    BY <2>1, <2>3 DEF HooksSettled, Writing
<1>6. CASE Dies
  <2>1. /\ followed' = followed /\ ~installing' /\ world.pushHook = "packaged"
        /\ "install-git-hooks" \notin followed
    BY <1>6 DEF Dies, Writing
  <2>2. /\ world'.commitHook = world.commitHook /\ world'.config = world.config
    BY <1>6, HookCommandsDo, FactsByName DEF Unchanged
  <2>3. \A r \in followed : OfHooks(world, r) => OfHooks(world', r)
    BY <2>1, <2>2 DEF OfHooks
  <2> QED
    BY <2>1, <2>3 DEF HooksSettled, Writing
<1>7. CASE PreCommitInstall
  <2>1. followed' = followed \cup {"pre-commit install"} /\ ~installing'
    BY <1>7 DEF PreCommitInstall, Done, Asked
  <2>2. /\ world'.commitHook = "runs" /\ world'.config = world.config
        /\ IF world.config = "guards push"
           THEN /\ world'.pushHook = "shim" /\ world'.pushRuns = TRUE
                /\ world.legacy = TRUE \/ world.pushHook \notin {"absent", "shim"} =>
                     world'.legacy = TRUE
           ELSE world'.pushHook = world.pushHook /\ world'.legacy = world.legacy
    BY <1>7, HookCommandsDo, FactsByName DEF Unchanged
  <2>3. OfHooks(world', "pre-commit install")
    BY <2>2 DEF OfHooks
  <2>4. OfHooks(world, "install-git-hooks") => OfHooks(world', "install-git-hooks")
    BY <2>2 DEF OfHooks
  <2>5. \A r : r \notin {"pre-commit install", "install-git-hooks"} => OfHooks(world', r)
    BY DEF OfHooks
  <2> QED
    BY <2>1, <2>3, <2>4, <2>5 DEF HooksSettled, Writing
<1>8. CASE Register \/ GitRoot
  <2>0. ~installing /\ (Done("register") \/ Done("git root"))
    BY <1>8 DEF Register, GitRoot, Asked
  <2>1. ~installing' /\ Elsewhere
    BY <1>b, <2>0
  <2>2. \/ Unchanged({"home", "registry", "path", "jira", "notify"})
        \/ Unchanged({"home", "registry", "path"})
    BY <1>8, RegisterDoes
  <2>3. Unchanged(others)
    BY <1>a, <2>2
  <2> QED
    BY <1>0, <2>1, <2>3
<1>9. CASE HookApply \/ InstallSkillsAgain \/ SyncWorktrees
  <2>0. ~installing /\ (Done("hook --apply") \/ Done("install skills") \/ Done("sync"))
    BY <1>9 DEF HookApply, InstallSkillsAgain, SyncWorktrees, Asked
  <2>1. ~installing' /\ Elsewhere
    BY <1>b, <2>0
  <2>2. \/ Unchanged({"settings", "session", "prompt"}) \/ Unchanged({"skills", "stray"})
        \/ Unchanged({"worktrees"})
    BY <1>9, OtherCommandsDo
  <2>3. Unchanged(others)
    BY <1>a, <2>2
  <2> QED
    BY <1>0, <2>1, <2>3
<1>10. CASE Migrate \/ ReapLeftovers \/ SecureHome \/ SecureAuthDb
  <2>0. ~installing /\ (Done("migrate") \/ Done("reap") \/ Done("secure home") \/ Done("secure auth_db"))
    BY <1>10 DEF Migrate, ReapLeftovers, SecureHome, SecureAuthDb, Secure, Asked
  <2>1. ~installing' /\ Elsewhere
    BY <1>b, <2>0
  <2>2. \/ Unchanged({"tracked"}) \/ Unchanged({"processes"}) \/ Unchanged({"home"})
        \/ Unchanged({"authDb"})
    BY <1>10, SingleCommandsDo
  <2>3. Unchanged(others)
    BY <1>a, <2>2
  <2> QED
    BY <1>0, <2>1, <2>3
<1>11. ASSUME NEW r \in DOMAIN Mended, Mend(r)
       PROVE  HooksSettled' /\ Writing'
  <2>1. /\ followed' = followed \cup {r} /\ ~installing'
        /\ r \notin {"pre-commit install", "install-git-hooks"}
    BY <1>11 DEF Mend, Done, Asked, Mended
  <2>2. Unchanged(others) \/ (Unchanged({"config"}) /\ world'.config = "guarded")
    BY <1>11, MendDoes DEF Unchanged
  <2> QED
    BY <1>0, <2>1, <2>2
<1>12. CASE CutShort \/ OneHookApplied \/ \E fact \in DOMAIN Values : GoesWrong(fact)
  <2>0. Wrong
    BY <1>12 DEF CutShort, OneHookApplied, GoesWrong
  <2>1. followed' = {} /\ ~installing'
    BY <2>0 DEF Wrong
  <2> QED
    BY <2>1 DEF HooksSettled, Writing
<1> QED
  BY <1>1, <1>2, <1>3, <1>4, <1>5, <1>6, <1>7, <1>8, <1>9, <1>10, <1>11, <1>12
  DEF DoctorNext, Remedies, SecureHome, SecureAuthDb

-----------------------------------------------------------------------------
(* The doctor's types, and why a remedy is given twice. *)
RemedyNames == DOMAIN Mended \cup
  {"register", "git root", "migrate", "install-git-hooks", "pre-commit install",
   "hook --apply", "install skills", "sync", "reap", "secure home", "secure auth_db"}
Counts == installing \in BOOLEAN /\ defects \in 0..MaxDefects /\ followed \subseteq RemedyNames
RemedyInv == DoctorInv /\ Counts /\ Settled /\ HooksSettled /\ Writing

(* Every step keeps the bookkeeping typed. *)
LEMMA CountsStep == Counts /\ [DoctorNext]_doctorVars => Counts'
<1> SUFFICES ASSUME Counts, [DoctorNext]_doctorVars PROVE Counts'
  OBVIOUS
<1>0. /\ RemedyNames' = RemedyNames /\ DOMAIN Mended \subseteq RemedyNames
      /\ {"register", "git root", "migrate", "install-git-hooks", "pre-commit install",
          "hook --apply", "install skills", "sync", "reap", "secure home", "secure auth_db"}
           \subseteq RemedyNames
  BY DEF RemedyNames, Mended
<1>1. ASSUME NEW r \in RemedyNames, Done(r)
      PROVE  Counts'
  BY <1>0, <1>1 DEF Done, Counts
<1>2. CASE Diagnose \/ NotDone \/ RefuseHook \/ UNCHANGED doctorVars
  BY <1>0, <1>2 DEF Diagnose, NotDone, RefuseHook, doctorVars, Counts
<1>3. CASE WriteHook \/ Dies
  BY <1>0, <1>3 DEF WriteHook, Dies, Counts
<1>4. CASE MakeExecutable
  BY <1>0, <1>4 DEF MakeExecutable, Counts
<1>5. CASE \/ Register \/ GitRoot \/ Migrate \/ LeaveHook \/ PreCommitInstall \/ HookApply
           \/ InstallSkillsAgain \/ SyncWorktrees \/ ReapLeftovers \/ SecureHome \/ SecureAuthDb
  <2>1. \E r \in {"register", "git root", "migrate", "install-git-hooks", "pre-commit install",
                "hook --apply", "install skills", "sync", "reap", "secure home",
                "secure auth_db"} : Done(r)
    BY <1>5 DEF Register, GitRoot, Migrate, LeaveHook, PreCommitInstall, HookApply,
       InstallSkillsAgain, SyncWorktrees, ReapLeftovers, SecureHome, SecureAuthDb, Secure
  <2> QED
    BY <1>0, <1>1, <2>1
<1>6. ASSUME NEW r \in DOMAIN Mended, Mend(r)
      PROVE  Counts'
  BY <1>0, <1>1, <1>6 DEF Mend
<1>7. CASE CutShort \/ OneHookApplied \/ \E fact \in DOMAIN Values : GoesWrong(fact)
  <2>1. /\ UNCHANGED installing /\ followed' = {}
        /\ defects < MaxDefects /\ defects' = defects + 1
    BY <1>7 DEF CutShort, OneHookApplied, GoesWrong, Wrong
  <2>2. defects' \in 0..MaxDefects
    BY <2>1, DoctorAssumption DEF Counts
  <2> QED
    BY <2>1, <2>2 DEF Counts
<1> QED
  BY <1>2, <1>3, <1>4, <1>5, <1>6, <1>7 DEF DoctorNext, Remedies, SecureHome, SecureAuthDb

(* The invariant about remedies holds in every behaviour. *)
LEMMA RemedyInvAlways == DoctorSpec => []RemedyInv
<1>1. ASSUME DoctorInit PROVE RemedyInv
  <2>1. installing = FALSE /\ followed = {} /\ defects = 0
    BY <1>1 DEF DoctorInit
  <2>0. 0 \in 0..MaxDefects
    BY DoctorAssumption
  <2>2. Counts
    BY <2>0, <2>1, Zenon DEF Counts
  <2>3. Settled /\ HooksSettled /\ Writing
    BY <2>1 DEF Settled, HooksSettled, Writing
  <2> QED
    BY <1>1, <2>2, <2>3, DoctorInitHolds DEF RemedyInv
<1>2. RemedyInv /\ [DoctorNext]_doctorVars => RemedyInv'
  BY DoctorInvStep, CountsStep, SettledStep, HooksSettledStep DEF RemedyInv, DoctorInv
<1> QED
  BY <1>1, <1>2, PTL DEF DoctorSpec

(* The facts of the world, the report and the bookkeeping keep their *)
(* types.                                                            *)
LEMMA DoctorTyped == DoctorSpec => []DoctorTypeOK
<1>1. RemedyInv => DoctorTypeOK
  <2> SUFFICES ASSUME RemedyInv PROVE DoctorTypeOK
    OBVIOUS
  <2>1. World(world)
    BY DEF RemedyInv, DoctorInv, WorldTyped
  <2>2. \A f \in report : f.status \in FindingStatuses
    BY <2>1, FoundedRun DEF RemedyInv, DoctorInv, ReportIsOfNow, Founded
  <2> QED
    BY <2>1, <2>2 DEF World, RemedyInv, Counts, RemedyNames, DoctorTypeOK
<1> QED
  BY <1>1, RemedyInvAlways, PTL

(* A remedy that was followed and is due all the same is one that leaves     *)
(* alone what it finds.                                                     *)
LEMMA DueAgain ==
  ASSUME World(world), NEW r, Due(world, r), OfMachine(world, r), OfProject(world, r),
         OfGuild(world, r), OfHooks(world, r),
         r \in RemedyNames
  PROVE  \/ r = "hook --apply" /\ {world.session, world.prompt} \cap {"elsewhere", "broken"} # {}
         \/ /\ r = "install-git-hooks"
            /\ world.legacy \/ (world.pushHook = "packaged" /\ ~world.pushRuns)
         \/ r = "install skills" /\ world.stray \in {"moved", "retired link"}
         \/ r = "sync" /\ world.worktrees = "different"
         \/ r = "reap" /\ world.processes \in {"held", "stubborn"}
         \/ r = "secure home" /\ world.home = "granted"
         \/ r = "secure auth_db" /\ world.authDb = "granted"
         \/ r = "git root" /\ world.path = "plain"
<1>1. r \notin {"bump", "install mcp<2", "reinstall", "edit host config"}
  <2>1. world.declared \in 0..2 /\ world.tagged \in 0..2
    BY FactsByName, ValuesByName DEF World
  <2>2. r = "bump" => world.declared < world.tagged
    BY DEF Due
  <2>3. r = "bump" => world.declared = world.tagged
    BY DEF OfMachine
  <2>4. r # "bump"
    BY <2>1, <2>2, <2>3
  <2> QED
    BY <2>4 DEF Due, OfMachine
<1>2. r \notin {"register", "edit registry", "upgrade registry", "set webhook", "migrate",
               "replace value"}
  BY DEF Due, OfProject
<1>3. r \notin {"rewrite config", "fix route", "name skill"}
  BY DEF Due, OfGuild
<1>4. r = "hook --apply" => {world.session, world.prompt} \cap {"elsewhere", "broken"} # {}
  <2> SUFFICES ASSUME r = "hook --apply"
               PROVE  {world.session, world.prompt} \cap {"elsewhere", "broken"} # {}
    OBVIOUS
  <2>1. /\ world.session \in {"none", "elsewhere", "broken", "works"}
        /\ world.prompt \in {"none", "elsewhere", "broken", "works"}
    BY FactsByName, ValuesByName DEF World
  <2>2. world.session # "works" \/ world.prompt # "works"
    BY DEF Due, OfGuild
  <2>3. world.session # "none" /\ world.prompt # "none"
    BY DEF OfGuild
  <2>4. world.session \in {"elsewhere", "broken"} \/ world.prompt \in {"elsewhere", "broken"}
    BY <2>1, <2>2, <2>3
  <2> QED
    BY <2>4
<1>5. r = "install skills" => world.stray \in {"moved", "retired link"}
  BY DEF Due, OfGuild, Stray
<1>6. /\ r = "sync" => world.worktrees = "different"
      /\ r = "git root" => world.path = "plain"
  BY DEF Due, OfProject
<1>7. r # "pre-commit install"
  <2> SUFFICES ASSUME r = "pre-commit install" PROVE FALSE
    OBVIOUS
  <2>1. MissingHookTypes(world) # {}
    BY DEF Due
  <2>2. /\ world.commitHook = "runs"
        /\ world.config = "guards push" => world.pushHook = "shim" /\ world.pushRuns = TRUE
    BY DEF OfHooks
  <2> QED
    BY <2>1, <2>2 DEF MissingHookTypes, Declared
<1>8. ASSUME r = "install-git-hooks"
      PROVE  world.legacy \/ (world.pushHook = "packaged" /\ ~world.pushRuns)
  <2>1. ~NativePrePush(world)
    BY <1>8 DEF Due
  <2>2. world.pushHook = "packaged" \/ world.legacy = TRUE
    BY <1>8 DEF OfHooks
  <2> QED
    BY <2>1, <2>2 DEF NativePrePush, IsOurs
<1>9. /\ r = "reap" => world.processes \in {"held", "stubborn"}
      /\ r = "secure home" => world.home = "granted"
      /\ r = "secure auth_db" => world.authDb = "granted"
  BY DEF Due, OfMachine
<1> QED
  BY <1>1, <1>2, <1>3, <1>4, <1>5, <1>6, <1>7, <1>8, <1>9 DEF RemedyNames, Mended

(* What is asked for again, although its command said that it was done and   *)
(* nothing has gone wrong since, is what that command leaves alone: whatever *)
(* has gone wrong, however much of it and in whatever order it was mended.  *)
THEOREM VainOnlyIfLeft == DoctorSpec => []InVainOnlyIfLeft
<1>1. RemedyInv => InVainOnlyIfLeft
  <2> SUFFICES ASSUME RemedyInv, NEW f \in InVain PROVE Left(f)
    BY DEF InVainOnlyIfLeft
  <2>1. World(world)
    BY DEF RemedyInv, DoctorInv, WorldTyped
  <2>2. f \in report /\ f.remedy \in followed
    BY DEF InVain
  <2>3. Due(world, f.remedy)
    BY <2>1, <2>2, FoundedRun DEF RemedyInv, DoctorInv, ReportIsOfNow, Founded
  <2>4. /\ OfMachine(world, f.remedy) /\ OfProject(world, f.remedy) /\ OfGuild(world, f.remedy)
        /\ OfHooks(world, f.remedy)
    BY <2>2 DEF RemedyInv, Settled, HooksSettled
  <2>5. f.remedy \in RemedyNames
    BY <2>2 DEF RemedyInv, Counts
  <2> QED
    BY <2>1, <2>3, <2>4, <2>5, DueAgain DEF Left
<1> QED
  BY <1>1, RemedyInvAlways, PTL

-----------------------------------------------------------------------------
(* The hook changes nothing but what is typed, a token at a time, and what  *)
(* it has decided.                                                          *)
LEMMA HookTypes == HookSpec => []HookTypeOK
<1> DEFINE Tokens == CommandKinds \cup Operators \cup {Blank}
<1>1. HookInit => HookTypeOK
  BY DEF HookInit, HookTypeOK
<1>2. HookTypeOK /\ [HookNext]_hookVars => HookTypeOK'
  <2> SUFFICES ASSUME HookTypeOK, [HookNext]_hookVars PROVE HookTypeOK'
    OBVIOUS
  <2>1. ASSUME NEW token \in Tokens, Type(token) PROVE HookTypeOK'
    <3>1. typed \in Seq(Tokens) /\ typed' = Append(typed, token)
      BY <2>1 DEF HookTypeOK, Type
    <3> HIDE DEF Tokens
    <3>2. typed' \in Seq(Tokens)
      BY <3>1
    <3> QED
      BY <2>1, <3>2 DEF HookTypeOK, Type, Tokens
  <2>2. CASE Main
    BY <2>2 DEF Main, Decide, HookTypeOK
  <2>3. CASE UNCHANGED hookVars
    BY <2>3 DEF hookVars, HookTypeOK
  <2> QED
    BY <2>1, <2>2, <2>3 DEF HookNext
<1> QED
  BY <1>1, <1>2, PTL DEF HookSpec

(* Whichever of the five runs, every variable of every one of them keeps    *)
(* its type: a behaviour of all of them is one of each.                     *)
THEOREM ToolsTyped == ToolsSpec => []ToolsTypeOK
<1>1. ToolsInit => ReapInit /\ JiraInit /\ SkillInit /\ DoctorInit /\ HookInit
  BY DEF ToolsInit
<1>2. [ToolsNext]_toolsVars =>
         /\ [ReapNext]_reapVars /\ [JiraNext]_jiraVars /\ [SkillNext]_skillVars
         /\ [DoctorNext]_doctorVars /\ [HookNext]_hookVars
  BY DEF ToolsNext, toolsVars
<1>3. ToolsSpec => ReapSpec /\ JiraSpec /\ SkillSpec /\ DoctorSpec /\ HookSpec
  BY <1>1, <1>2, PTL DEF ToolsSpec, ReapSpec, JiraSpec, SkillSpec, DoctorSpec, HookSpec
<1> QED
  BY <1>3, ReapTypes, JiraTypeCorrect, SkillTypeCorrect, DoctorTyped, HookTypes, PTL
     DEF ToolsTypeOK

-----------------------------------------------------------------------------
(* The hook.  What its two readings of a command are made of.               *)
Tokens == CommandKinds \cup Operators \cup {Blank}
Segment == [operator : Seq(Operators), kind : CommandKinds]
Scans == [segments : Seq(Segment), operator : Seq(Operators),
          current : Seq(CommandKinds \cup {Blank})]
FlagSet == [exported : BOOLEAN, inHooks : BOOLEAN, named : BOOLEAN, denied : BOOLEAN]
Shells == [dirs : Seq(BOOLEAN) \ {<<>>}, exported : BOOLEAN, piped : BOOLEAN, named : BOOLEAN]
KindsOf(segments) == {segments[i].kind : i \in DOMAIN segments}

(* A command is no operator and no blank.                                   *)
LEMMA TokensDiffer ==
  /\ CommandKinds \cap Operators = {} /\ Blank \notin CommandKinds \cup Operators
  /\ \A t \in CommandKinds : t \notin Joints \cup {"(", "$(", ")"}
  /\ \A t \in Joints : t \notin {"(", "$(", ")"}
  BY KindsKnown, JointsKnown DEF Operators, Blank

(* One turn of the loop over the segments.                                  *)
LEMMA CarriedIsFlags ==
  ASSUME NEW flags \in FlagSet, NEW s \in Segment
  PROVE  Carried(flags, s) \in FlagSet
<1> DEFINE exported == flags.exported \/ s.kind = "export"
           inHooks == InHooksAfter(flags, s)
           named == s.kind \in NamesHooksDir
           denied == \/ flags.denied
                     \/ s.kind \in SkipsHooks \cup MutatesHooksDir
                     \/ exported /\ s.kind \in GitWord
                     \/ Stays(flags, s) /\ s.kind \in ChangingVerbs
                     \/ flags.named /\ s.operator = <<"|">> /\ s.kind = "xargs rm"
<1>1. Carried(flags, s) =
        [exported |-> exported, inHooks |-> inHooks, named |-> named, denied |-> denied]
  BY DEF Carried
<1>2. exported \in BOOLEAN /\ named \in BOOLEAN /\ denied \in BOOLEAN
  OBVIOUS
<1>3. inHooks \in BOOLEAN
  <2>1. CASE s.kind \in ChangesDirectory
    BY <2>1 DEF InHooksAfter
  <2>2. CASE s.kind \notin ChangesDirectory
    BY <2>2 DEF InHooksAfter, Stays
  <2> QED
    BY <2>1, <2>2
<1> HIDE DEF exported, inHooks, named, denied
<1> QED
  BY <1>1, <1>2, <1>3 DEF FlagSet

(* The flags, segment by segment.                                           *)
LEMMA FlagsInTurn ==
  ASSUME NEW segments \in Seq(Segment)
  PROVE  \E f \in [0..Len(segments) -> FlagSet] :
           /\ FlagsAfter(segments) = f[Len(segments)]
           /\ f[0] = NothingCarried
           /\ \A n \in 1..Len(segments) : f[n] = Carried(f[n-1], segments[n])
<1> DEFINE N == Len(segments)
           step == [n \in 1..N |-> [v \in FlagSet |-> Carried(v, segments[n])]]
           Walk(f) == f = [n \in 0..N |-> IF n = 0 THEN NothingCarried
                                          ELSE Carried(f[n-1], segments[n])]
<1>1. N \in Nat /\ \A n \in 1..N : segments[n] \in Segment
  BY LenProperties
<1> HIDE DEF N
<1>2. PICK f \in [0..N -> FlagSet] : Recursion(f, N, NothingCarried, step)
  <2>1. NothingCarried \in FlagSet
    BY DEF NothingCarried, FlagSet
  <2>2. step \in [1..N -> [FlagSet -> FlagSet]]
    BY <1>1, CarriedIsFlags
  <2> HIDE DEF step
  <2> QED
    BY <1>1, <2>1, <2>2, RecursionIn
<1>3. Walk(f)
  <2>1. ASSUME NEW n \in 0..N, n # 0 PROVE step[n][f[n-1]] = Carried(f[n-1], segments[n])
    <3>1. n \in 1..N /\ n - 1 \in 0..N
      BY <1>1, <2>1
    <3> QED
      BY <3>1
  <2> HIDE DEF step
  <2> QED
    BY <1>2, <2>1 DEF Recursion
<1>4. f[0] = NothingCarried /\ \A n \in 1..N : f[n] = Carried(f[n-1], segments[n])
  <2>1. 0 \in 0..N /\ \A n \in 1..N : n \in 0..N /\ n # 0
    BY <1>1
  <2> QED
    BY <1>3, <2>1
<1> DEFINE after == CHOOSE g : Walk(g)
<1>5. Walk(after)
  BY <1>3
<1>6. FlagsAfter(segments) = after[N]
  BY DEF FlagsAfter, N
<1>7. \A n \in 0..N : after[n] = IF n = 0 THEN NothingCarried ELSE Carried(after[n-1], segments[n])
  BY <1>5
<1> HIDE DEF after
<1>8. \A n \in 0..N : after[n] = f[n]
  <2> DEFINE Bad == {n \in Nat : n <= N /\ after[n] # f[n]}
  <2>1. SUFFICES Bad = {}
    BY <1>1
  <2>2. SUFFICES ASSUME NEW n \in Bad, \A k \in Bad : n <= k PROVE FALSE
    <3>1. Bad \subseteq Nat
      OBVIOUS
    <3> QED
      BY <3>1, LeastNat
  <2>3. CASE n = 0
    BY <1>1, <1>4, <1>7, <2>2, <2>3
  <2>4. CASE n # 0
    <3>1. n \in 1..N /\ n \in 0..N /\ n - 1 \in Nat /\ n - 1 <= N /\ ~ (n <= n - 1)
      BY <1>1, <2>4
    <3>2. after[n-1] = f[n-1]
      BY <2>2, <3>1
    <3>3. after[n] = f[n]
      BY <1>4, <1>7, <2>4, <3>1, <3>2
    <3> QED
      BY <2>2, <3>3
  <2> QED
    BY <2>3, <2>4
<1> QED
  BY <1>1, <1>2, <1>4, <1>6, <1>8 DEF N

(* A segment more is a turn more.                                           *)
LEMMA FlagsAppend ==
  ASSUME NEW segments \in Seq(Segment), NEW s \in Segment
  PROVE  /\ FlagsAfter(segments) \in FlagSet
         /\ FlagsAfter(Append(segments, s)) = Carried(FlagsAfter(segments), s)
<1> DEFINE N == Len(segments)
           more == Append(segments, s)
<1>1. /\ N \in Nat /\ more \in Seq(Segment) /\ Len(more) = N + 1
      /\ \A n \in 1..N : more[n] = segments[n]
      /\ more[N+1] = s
  BY AppendProperties, LenProperties
<1> HIDE DEF more
<1>2. PICK f \in [0..N -> FlagSet] :
           /\ FlagsAfter(segments) = f[N] /\ f[0] = NothingCarried
           /\ \A n \in 1..N : f[n] = Carried(f[n-1], segments[n])
  BY FlagsInTurn
<1>3. PICK g \in [0..N+1 -> FlagSet] :
           /\ FlagsAfter(more) = g[N+1] /\ g[0] = NothingCarried
           /\ \A n \in 1..N+1 : g[n] = Carried(g[n-1], more[n])
  BY <1>1, FlagsInTurn, ZenonT(40)
<1> HIDE DEF N
<1>4. f[N] = g[N]
  <2> DEFINE Bad == {n \in Nat : n <= N /\ g[n] # f[n]}
  <2>1. SUFFICES Bad = {}
    BY <1>1
  <2>2. SUFFICES ASSUME NEW n \in Bad, \A k \in Bad : n <= k PROVE FALSE
    <3>1. Bad \subseteq Nat
      OBVIOUS
    <3> QED
      BY <3>1, LeastNat
  <2>3. CASE n = 0
    BY <1>2, <1>3, <2>2, <2>3
  <2>4. CASE n # 0
    <3>1. n \in 1..N /\ n \in 1..N+1 /\ n - 1 \in Nat /\ n - 1 <= N /\ ~ (n <= n - 1)
      BY <1>1, <2>4
    <3>2. g[n-1] = f[n-1] /\ more[n] = segments[n]
      BY <1>1, <2>2, <3>1
    <3>3. g[n] = f[n]
      BY <1>2, <1>3, <3>1, <3>2
    <3> QED
      BY <2>2, <3>3
  <2> QED
    BY <2>3, <2>4
<1>5. N + 1 \in 1..N+1 /\ N + 1 - 1 = N /\ N \in 0..N
  BY <1>1
<1>6. g[N+1] = Carried(g[N], s)
  BY <1>1, <1>3, <1>5
<1> QED
  BY <1>2, <1>3, <1>4, <1>5, <1>6 DEF more, N

(* The segment that is being read, if it is one, is the last.               *)
LEMMA WithSegmentIs ==
  ASSUME NEW scan \in Scans
  PROVE  /\ WithSegment(scan) \in Seq(Segment)
         /\ scan.current = <<>> \/ scan.current = <<Blank>> => WithSegment(scan) = scan.segments
         /\ \A t \in CommandKinds : scan.current = <<t>> =>
              WithSegment(scan) = Append(scan.segments, [operator |-> scan.operator, kind |-> t])
<1> DEFINE words == scan.current
<1>1. /\ scan.segments \in Seq(Segment) /\ scan.operator \in Seq(Operators)
      /\ words \in Seq(CommandKinds \cup {Blank})
  BY DEF Scans
<1>2. DOMAIN words = 1..Len(words) /\ \A i \in DOMAIN words : words[i] \in CommandKinds \cup {Blank}
  BY <1>1, LenProperties
<1>3. ASSUME Kept(words) PROVE Word(words) \in CommandKinds
  <2>1. PICK i \in DOMAIN words : IsText(words[i])
    BY <1>3 DEF Kept
  <2>2. words[i] \in Range(words)
    BY <2>1 DEF Range
  <2>3. Word(words) \in Range(words) /\ IsText(Word(words))
    BY <2>1, <2>2 DEF Word
  <2> QED
    BY <1>2, <2>3 DEF Range, IsText
<1>4. WithSegment(scan) \in Seq(Segment)
  <2>1. CASE Kept(words)
    <3>1. [operator |-> scan.operator, kind |-> Word(words)] \in Segment
      BY <1>1, <1>3, <2>1 DEF Segment
    <3> QED
      BY <1>1, <2>1, <3>1, AppendProperties DEF WithSegment
  <2>2. CASE ~Kept(words)
    BY <1>1, <2>2 DEF WithSegment
  <2> QED
    BY <2>1, <2>2
<1>5. words = <<>> \/ words = <<Blank>> => WithSegment(scan) = scan.segments
  <2>1. words = <<>> \/ words = <<Blank>> => ~Kept(words)
    BY DEF Kept, IsText
  <2> QED
    BY <2>1 DEF WithSegment
<1>6. ASSUME NEW t \in CommandKinds, words = <<t>>
      PROVE  WithSegment(scan) = Append(scan.segments, [operator |-> scan.operator, kind |-> t])
  <2>1. t # Blank
    BY TokensDiffer
  <2>2. 1 \in DOMAIN <<t>> /\ <<t>>[1] = t /\ Range(<<t>>) = {t}
    BY DEF Range
  <2>3. Kept(words)
    BY <1>6, <2>1, <2>2 DEF Kept, IsText
  <2>4. Word(words) \in Range(words)
    BY <1>6, <2>1, <2>2 DEF Word, IsText
  <2>5. Word(words) = t
    BY <1>6, <2>2, <2>4
  <2> QED
    BY <2>3, <2>5 DEF WithSegment
<1> QED
  BY <1>4, <1>5, <1>6

(* One token of the scan.                                                   *)
LEMMA TakesInIs ==
  ASSUME NEW scan \in Scans, NEW token \in Tokens
  PROVE  LET next == TakesIn(scan, token)
         IN  /\ next \in Scans
             /\ token \in Operators =>
                  /\ next.current = <<>> /\ next.segments = WithSegment(scan)
                  /\ next.operator = IF scan.current = <<>> THEN Append(scan.operator, token)
                                     ELSE <<token>>
             /\ token \notin Operators =>
                  next = [scan EXCEPT !.current = Append(scan.current, token)]
<1> DEFINE next == TakesIn(scan, token)
<1>1. /\ scan.segments \in Seq(Segment) /\ scan.operator \in Seq(Operators)
      /\ scan.current \in Seq(CommandKinds \cup {Blank})
      /\ WithSegment(scan) \in Seq(Segment)
  BY WithSegmentIs DEF Scans
<1>2. CASE token \in Operators /\ scan.current = <<>>
  <2>1. next = [scan EXCEPT !.operator = Append(scan.operator, token)]
    BY <1>2 DEF TakesIn, CloseOut
  <2>2. Append(scan.operator, token) \in Seq(Operators)
    BY <1>1, <1>2, AppendProperties
  <2>3. WithSegment(scan) = scan.segments
    BY <1>2, WithSegmentIs
  <2> QED
    BY <1>1, <1>2, <2>1, <2>2, <2>3 DEF Scans
<1>3. CASE token \in Operators /\ scan.current # <<>>
  <2>1. next = [segments |-> WithSegment(scan), operator |-> <<token>>, current |-> <<>>]
    BY <1>3 DEF TakesIn, CloseOut
  <2>2. <<token>> \in Seq(Operators) /\ <<>> \in Seq(CommandKinds \cup {Blank})
    BY <1>3
  <2> QED
    BY <1>1, <1>3, <2>1, <2>2 DEF Scans
<1>4. CASE token \notin Operators
  <2>1. next = [scan EXCEPT !.current = Append(scan.current, token)]
    BY <1>4 DEF TakesIn
  <2>2. Append(scan.current, token) \in Seq(CommandKinds \cup {Blank})
    BY <1>1, <1>4, AppendProperties DEF Tokens
  <2> QED
    BY <1>4, <2>1, <2>2 DEF Scans
<1> QED
  BY <1>2, <1>3, <1>4

(* The scan, token by token.                                                *)
LEMMA ScansInTurn ==
  ASSUME NEW tokens \in Seq(Tokens)
  PROVE  \E f \in [0..Len(tokens) -> Scans] :
           /\ ScannedOf(tokens) = f[Len(tokens)]
           /\ f[0] = AtStart
           /\ \A n \in 1..Len(tokens) : f[n] = TakesIn(f[n-1], tokens[n])
<1> DEFINE N == Len(tokens)
           step == [n \in 1..N |-> [v \in Scans |-> TakesIn(v, tokens[n])]]
           Walk(f) == f = [n \in 0..N |-> IF n = 0 THEN AtStart ELSE TakesIn(f[n-1], tokens[n])]
<1>1. N \in Nat /\ \A n \in 1..N : tokens[n] \in Tokens
  BY LenProperties
<1> HIDE DEF N
<1>2. PICK f \in [0..N -> Scans] : Recursion(f, N, AtStart, step)
  <2>1. AtStart \in Scans
    BY DEF AtStart, Scans
  <2>2. step \in [1..N -> [Scans -> Scans]]
    BY <1>1, TakesInIs
  <2> HIDE DEF step
  <2> QED
    BY <1>1, <2>1, <2>2, RecursionIn
<1>3. Walk(f)
  <2>1. ASSUME NEW n \in 0..N, n # 0 PROVE step[n][f[n-1]] = TakesIn(f[n-1], tokens[n])
    <3>1. n \in 1..N /\ n - 1 \in 0..N
      BY <1>1, <2>1
    <3> QED
      BY <3>1
  <2> HIDE DEF step
  <2> QED
    BY <1>2, <2>1 DEF Recursion
<1> DEFINE after == CHOOSE g : Walk(g)
<1>4. Walk(after)
  BY <1>3
<1>5. ScannedOf(tokens) = after[N]
  BY DEF ScannedOf, N
<1>6. /\ DOMAIN after = 0..N /\ after = [n \in 0..N |-> after[n]]
      /\ \A n \in 0..N : after[n] = IF n = 0 THEN AtStart ELSE TakesIn(after[n-1], tokens[n])
  BY <1>4
<1> HIDE DEF after
<1>7. \A n \in 0..N : after[n] \in Scans
  <2> DEFINE Bad == {n \in Nat : n <= N /\ after[n] \notin Scans}
  <2>1. SUFFICES Bad = {}
    BY <1>1
  <2>2. SUFFICES ASSUME NEW n \in Bad, \A k \in Bad : n <= k PROVE FALSE
    <3>1. Bad \subseteq Nat
      OBVIOUS
    <3> QED
      BY <3>1, LeastNat
  <2>3. CASE n = 0
    <3>1. AtStart \in Scans
      BY DEF AtStart, Scans
    <3> QED
      BY <1>1, <1>6, <2>2, <2>3, <3>1
  <2>4. CASE n # 0
    <3>1. n \in 1..N /\ n \in 0..N /\ n - 1 \in Nat /\ n - 1 <= N /\ ~ (n <= n - 1)
      BY <1>1, <2>4
    <3>2. after[n-1] \in Scans /\ tokens[n] \in Tokens
      BY <1>1, <2>2, <3>1
    <3>3. after[n] = TakesIn(after[n-1], tokens[n])
      BY <1>6, <2>4, <3>1
    <3>4. after[n] \in Scans
      BY <3>2, <3>3, TakesInIs, ZenonT(40)
    <3> QED
      BY <2>2, <3>4
  <2> QED
    BY <2>3, <2>4
<1>8. after \in [0..N -> Scans]
  BY <1>6, <1>7
<1>9. after[0] = AtStart /\ \A n \in 1..N : after[n] = TakesIn(after[n-1], tokens[n])
  <2>1. 0 \in 0..N /\ \A n \in 1..N : n \in 0..N /\ n # 0
    BY <1>1
  <2> QED
    BY <1>6, <2>1
<1> QED
  BY <1>5, <1>8, <1>9 DEF N

-----------------------------------------------------------------------------
(* How many of the first n tokens are among those, and how many parentheses *)
(* of the first n are open.                                                 *)
CountAt(tokens, those, n) == Cardinality({i \in 1..n : tokens[i] \in those})
DepthAt(tokens, n) == CountAt(tokens, {"(", "$("}, n) - CountAt(tokens, {")"}, n)
DepthBy(token) == IF token \in {"(", "$("} THEN 1 ELSE IF token = ")" THEN 0 - 1 ELSE 0

(* One token more.                                                          *)
LEMMA CountStep ==
  ASSUME NEW tokens, NEW those, NEW n \in Nat
  PROVE  /\ CountAt(tokens, those, 0) = 0
         /\ CountAt(tokens, those, n) \in Nat
         /\ CountAt(tokens, those, n + 1) =
              CountAt(tokens, those, n) + (IF tokens[n+1] \in those THEN 1 ELSE 0)
<1> DEFINE Of(k) == {i \in 1..k : tokens[i] \in those}
<1>1. IsFiniteSet(Of(n)) /\ Cardinality(Of(n)) \in Nat
  <2>1. IsFiniteSet(1..n) /\ Of(n) \subseteq 1..n
    BY FS_Interval
  <2>2. IsFiniteSet(Of(n))
    BY <2>1, FS_Subset
  <2> QED
    BY <2>2, FS_CardinalityType
<1>2. Of(0) = {}
  OBVIOUS
<1>3. Cardinality(Of(0)) = 0
  BY <1>2, FS_EmptySet
<1>4. CASE tokens[n+1] \in those
  <2>1. Of(n+1) = Of(n) \cup {n+1} /\ n + 1 \notin Of(n)
    BY <1>4
  <2>2. Cardinality(Of(n+1)) = Cardinality(Of(n)) + 1
    BY <1>1, <2>1, FS_AddElement
  <2> QED
    BY <1>1, <1>3, <1>4, <2>2 DEF CountAt
<1>5. CASE tokens[n+1] \notin those
  <2>1. Of(n+1) = Of(n)
    BY <1>5
  <2> QED
    BY <1>1, <1>3, <1>5, <2>1 DEF CountAt
<1> QED
  BY <1>4, <1>5

(* One token more opens or closes one parenthesis at most.                  *)
LEMMA DepthStep ==
  ASSUME NEW tokens, NEW n \in Nat
  PROVE  /\ DepthAt(tokens, 0) = 0
         /\ DepthAt(tokens, n) \in Int
         /\ DepthAt(tokens, n + 1) = DepthAt(tokens, n) + DepthBy(tokens[n+1])
<1> DEFINE a(k) == CountAt(tokens, {"(", "$("}, k)
           b(k) == CountAt(tokens, {")"}, k)
<1>1. /\ a(0) = 0 /\ a(n) \in Nat
      /\ a(n+1) = a(n) + (IF tokens[n+1] \in {"(", "$("} THEN 1 ELSE 0)
  BY CountStep
<1>2. /\ b(0) = 0 /\ b(n) \in Nat
      /\ b(n+1) = b(n) + (IF tokens[n+1] \in {")"} THEN 1 ELSE 0)
  BY CountStep
<1>3. \A k : DepthAt(tokens, k) = a(k) - b(k)
  BY DEF DepthAt
<1> HIDE DEF a, b
<1>4. CASE tokens[n+1] \in {"(", "$("}
  BY <1>1, <1>2, <1>3, <1>4 DEF DepthBy
<1>5. CASE tokens[n+1] = ")"
  BY <1>1, <1>2, <1>3, <1>5 DEF DepthBy
<1>6. CASE tokens[n+1] \notin {"(", "$(", ")"}
  BY <1>1, <1>2, <1>3, <1>6 DEF DepthBy
<1> QED
  BY <1>4, <1>5, <1>6

(* What every command that is typed has: a command stands at the start or   *)
(* behind an operator, a blank behind an operator, and what is closed is    *)
(* open.                                                                    *)
Grammar(tokens) ==
  \A i \in DOMAIN tokens :
    /\ tokens[i] \in CommandKinds => i = 1 \/ tokens[i-1] \in Operators
    /\ tokens[i] = Blank => i # 1 /\ tokens[i-1] \in Operators
    /\ tokens[i] = ")" => DepthAt(tokens, i-1) > 0

(* One token of the shell: what an open parenthesis, a closing one, an      *)
(* operator that joins, a command and a blank do.                           *)
TopOf(run) == run.dirs[Len(run.dirs)]
LEMMA ShellIs ==
  ASSUME NEW run \in Shells
  PROVE  /\ run.dirs \in Seq(BOOLEAN) /\ run.dirs # <<>> /\ Len(run.dirs) \in Nat \ {0}
         /\ run.exported \in BOOLEAN /\ run.piped \in BOOLEAN /\ run.named \in BOOLEAN
         /\ TopOf(run) \in BOOLEAN
  BY LenProperties DEF Shells, TopOf

(* A parenthesis opens. *)
LEMMA RunsOpen ==
  ASSUME NEW run \in Shells, NEW token \in {"(", "$("}
  PROVE  LET next == Runs(run, token)
         IN  /\ next \in Shells /\ Len(next.dirs) = Len(run.dirs) + 1 /\ TopOf(next) = TopOf(run)
             /\ next.exported = run.exported /\ next.piped = run.piped /\ next.named = run.named
<1> DEFINE dirs == Append(run.dirs, TopOf(run))
<1>1. token \notin CommandKinds \cup Joints \cup {")"}
  BY TokensDiffer
<1>2. Runs(run, token) = [run EXCEPT !.dirs = dirs]
  BY <1>1 DEF Runs, TopOf
<1>3. /\ dirs \in Seq(BOOLEAN) \ {<<>>} /\ Len(dirs) = Len(run.dirs) + 1
      /\ dirs[Len(run.dirs) + 1] = TopOf(run)
  BY ShellIs, AppendProperties
<1> HIDE DEF dirs
<1> QED
  BY <1>2, <1>3 DEF Shells, TopOf

(* A parenthesis closes. *)
LEMMA RunsClose ==
  ASSUME NEW run \in Shells, Len(run.dirs) > 1
  PROVE  LET next == Runs(run, ")")
         IN  /\ next \in Shells /\ Len(next.dirs) = Len(run.dirs) - 1
             /\ next.exported = run.exported /\ next.piped = run.piped /\ next.named = run.named
<1> DEFINE depth == Len(run.dirs)
           dirs == SubSeq(run.dirs, 1, depth - 1)
<1>1. ")" \notin CommandKinds \cup Joints
  BY TokensDiffer
<1>2. Runs(run, ")") = [run EXCEPT !.dirs = dirs]
  BY <1>1 DEF Runs
<1>3. depth \in Nat /\ depth > 1 /\ \A i \in 1 .. depth - 1 : run.dirs[i] \in BOOLEAN
  BY ShellIs, LenProperties
<1>4. dirs \in Seq(BOOLEAN) /\ Len(dirs) = depth - 1
  <2>1. 1 <= depth - 1 /\ depth - 1 \in Int /\ depth - 1 - 1 + 1 = depth - 1
    BY <1>3
  <2> QED
    BY <1>3, <2>1, SubSeqProperties
<1>5. dirs # <<>>
  <2> HIDE DEF dirs, depth
  <2>1. depth - 1 # 0
    BY <1>3
  <2>2. Len(<<>>) = 0
    OBVIOUS
  <2> QED
    BY <1>4, <2>1, <2>2
<1> HIDE DEF dirs
<1> QED
  BY <1>2, <1>4, <1>5 DEF Shells

(* An operator joins two commands. *)
LEMMA RunsJoint ==
  ASSUME NEW run \in Shells, NEW token \in Joints
  PROVE  LET next == Runs(run, token)
         IN  /\ next \in Shells /\ Len(next.dirs) = Len(run.dirs) /\ TopOf(next) = TopOf(run)
             /\ next.exported = run.exported /\ next.piped = (token = "|")
             /\ next.named = run.named
<1>1. token \notin CommandKinds \cup {"(", "$(", ")"}
  BY TokensDiffer
<1>2. Runs(run, token) = [run EXCEPT !.piped = (token = "|")]
  BY <1>1 DEF Runs
<1> QED
  BY <1>2 DEF Shells, TopOf

(* A command runs. *)
LEMMA RunsCommand ==
  ASSUME NEW run \in Shells, NEW token \in CommandKinds
  PROVE  LET next == Runs(run, token)
         IN  /\ next \in Shells /\ Len(next.dirs) = Len(run.dirs)
             /\ token \in ChangesDirectory => TopOf(next) = (token \in EntersHooksDir)
             /\ token \notin ChangesDirectory => TopOf(next) = TopOf(run)
             /\ next.exported = (run.exported \/ token = "export") /\ next.piped = FALSE
             /\ next.named = (token \in NamesHooksDir)
<1> DEFINE depth == Len(run.dirs)
           top == token \in EntersHooksDir
           dirs == IF token \in ChangesDirectory THEN [run.dirs EXCEPT ![depth] = top]
                   ELSE run.dirs
           exported == run.exported \/ token = "export"
           named == token \in NamesHooksDir
<1>1. token \notin Joints \cup {"(", "$(", ")"}
  BY TokensDiffer
<1>2. Runs(run, token) = [dirs |-> dirs, exported |-> exported, piped |-> FALSE, named |-> named]
  BY <1>1 DEF Runs
<1>3. top \in BOOLEAN /\ exported \in BOOLEAN /\ named \in BOOLEAN
  OBVIOUS
<1> HIDE DEF top, exported, named
<1>4. /\ dirs \in Seq(BOOLEAN) \ {<<>>} /\ Len(dirs) = depth
      /\ token \in ChangesDirectory => dirs[depth] = top
      /\ token \notin ChangesDirectory => dirs[depth] = TopOf(run)
  <2>1. CASE token \in ChangesDirectory
    <3> DEFINE new == [run.dirs EXCEPT ![depth] = top]
    <3>1. depth \in 1..Len(run.dirs) /\ DOMAIN run.dirs = 1..depth /\ depth \in Nat \ {0}
      BY ShellIs, LenProperties
    <3>2. new \in Seq(BOOLEAN) /\ Len(new) = depth /\ new[depth] = top
      BY <1>3, <3>1, ShellIs
    <3>3. new # <<>>
      <4> HIDE DEF new
      <4>1. Len(<<>>) = 0
        OBVIOUS
      <4> QED
        BY <3>1, <3>2, <4>1
    <3>4. dirs = new
      BY <2>1
    <3> HIDE DEF new, dirs
    <3> QED
      BY <2>1, <3>2, <3>3, <3>4
  <2>2. CASE token \notin ChangesDirectory
    BY <2>2, ShellIs DEF TopOf
  <2> QED
    BY <2>1, <2>2
<1> HIDE DEF dirs
<1>5. [dirs |-> dirs, exported |-> exported, piped |-> FALSE, named |-> named] \in Shells
  BY <1>3, <1>4 DEF Shells
<1> QED
  BY <1>2, <1>4, <1>5 DEF TopOf, top, exported, named

(* A blank does nothing. *)
LEMMA RunsBlank ==
  ASSUME NEW run \in Shells
  PROVE  Runs(run, Blank) = run
  BY TokensDiffer DEF Runs, Blank, Operators

(* Whatever token comes, the shell stays one, with a directory for every    *)
(* parenthesis that is open.                                                *)
LEMMA RunsIs ==
  ASSUME NEW run \in Shells, NEW token \in Tokens, token = ")" => Len(run.dirs) > 1
  PROVE  /\ Runs(run, token) \in Shells
         /\ Len(Runs(run, token).dirs) = Len(run.dirs) + DepthBy(token)
<1>1. Len(run.dirs) \in Nat \ {0}
  BY ShellIs
<1>2. CASE token \in {"(", "$("}
  <2>1. DepthBy(token) = 1
    BY <1>2 DEF DepthBy
  <2> QED
    BY <1>2, <2>1, RunsOpen
<1>3. CASE token = ")"
  <2>1. DepthBy(token) = 0 - 1
    BY <1>3 DEF DepthBy
  <2>2. Runs(run, token) \in Shells /\ Len(Runs(run, token).dirs) = Len(run.dirs) - 1
    BY <1>3, RunsClose
  <2> QED
    BY <1>1, <2>1, <2>2
<1>4. CASE token \in Joints \cup CommandKinds \cup {Blank}
  <2>1. token \notin {"(", "$(", ")"}
    BY <1>4, TokensDiffer DEF Operators
  <2>2. DepthBy(token) = 0
    BY <2>1 DEF DepthBy
  <2>3. Runs(run, token) \in Shells /\ Len(Runs(run, token).dirs) = Len(run.dirs)
    <3>1. CASE token \in Joints
      BY <3>1, RunsJoint
    <3>2. CASE token \in CommandKinds
      BY <3>2, RunsCommand
    <3>3. CASE token = Blank
      BY <3>3, RunsBlank
    <3> QED
      BY <1>4, <3>1, <3>2, <3>3
  <2> QED
    BY <1>1, <2>2, <2>3
<1> QED
  BY <1>2, <1>3, <1>4 DEF Tokens, Operators

(* The shell, token by token.                                               *)
LEMMA RanInTurn ==
  ASSUME typed \in Seq(Tokens), Grammar(typed)
  PROVE  /\ Ran \in [0..Len(typed) -> Shells]
         /\ Ran[0] = Login
         /\ \A n \in 1..Len(typed) : /\ Ran[n] = Runs(Ran[n-1], typed[n])
                                     /\ typed[n] = ")" => Len(Ran[n-1].dirs) > 1
<1> DEFINE N == Len(typed)
           Next(v, n) == IF Runs(v, typed[n]) \in Shells THEN Runs(v, typed[n]) ELSE v
           step == [n \in 1..N |-> [v \in Shells |-> Next(v, n)]]
           Walk(f) == f = [n \in 0..N |-> IF n = 0 THEN Login ELSE Runs(f[n-1], typed[n])]
<1>1. N \in Nat /\ DOMAIN typed = 1..N /\ \A n \in 1..N : typed[n] \in Tokens
  BY LenProperties
<1> HIDE DEF N
<1>2. Login \in Shells /\ Len(Login.dirs) = 1
  <2>1. <<FALSE>> \in Seq(BOOLEAN) /\ <<FALSE>> # <<>> /\ Len(<<FALSE>>) = 1
    OBVIOUS
  <2> QED
    BY <2>1 DEF Login, Shells
<1>3. PICK f \in [0..N -> Shells] :
           f[0] = Login /\ \A n \in 1..N : f[n] = step[n][f[n-1]]
  <2>1. step \in [1..N -> [Shells -> Shells]]
    OBVIOUS
  <2> HIDE DEF step
  <2>2. PICK f \in [0..N -> Shells] : Recursion(f, N, Login, step)
    BY <1>1, <1>2, <2>1, RecursionIn
  <2>3. 0 \in 0..N /\ \A n \in 1..N : n \in 0..N /\ n # 0
    BY <1>1
  <2> QED
    BY <2>2, <2>3 DEF Recursion
<1>4. ASSUME NEW n \in 1..N PROVE f[n] = Next(f[n-1], n)
  <2>1. n - 1 \in 0..N
    BY <1>1
  <2> QED
    BY <1>3, <2>1
<1> HIDE DEF Next, step
<1>5. ASSUME NEW n \in 1..N, Len(f[n-1].dirs) = DepthAt(typed, n-1) + 1
      PROVE  /\ f[n] = Runs(f[n-1], typed[n])
             /\ Len(f[n].dirs) = DepthAt(typed, n) + 1
  <2>1. f[n-1] \in Shells /\ typed[n] \in Tokens /\ n - 1 \in Nat /\ (n - 1) + 1 = n
    BY <1>1, <1>3
  <2>2. typed[n] = ")" => DepthAt(typed, n-1) > 0
    BY <1>1 DEF Grammar
  <2>3. /\ DepthAt(typed, n-1) \in Int
        /\ DepthAt(typed, n) = DepthAt(typed, n-1) + DepthBy(typed[n])
    BY <2>1, DepthStep
  <2>4. typed[n] = ")" => Len(f[n-1].dirs) > 1
    BY <1>5, <2>2, <2>3
  <2>5. /\ Runs(f[n-1], typed[n]) \in Shells
        /\ Len(Runs(f[n-1], typed[n]).dirs) = Len(f[n-1].dirs) + DepthBy(typed[n])
    BY <2>1, <2>4, RunsIs
  <2>6. f[n] = Runs(f[n-1], typed[n])
    BY <1>4, <2>5 DEF Next
  <2>7. DepthBy(typed[n]) \in Int
    BY DEF DepthBy
  <2> QED
    BY <1>5, <2>3, <2>5, <2>6, <2>7
<1>6. \A n \in 0..N : Len(f[n].dirs) = DepthAt(typed, n) + 1
  <2> DEFINE Bad == {n \in Nat : n <= N /\ Len(f[n].dirs) # DepthAt(typed, n) + 1}
  <2>1. SUFFICES Bad = {}
    BY <1>1
  <2>2. SUFFICES ASSUME NEW n \in Bad, \A k \in Bad : n <= k PROVE FALSE
    <3>1. Bad \subseteq Nat
      OBVIOUS
    <3> QED
      BY <3>1, LeastNat
  <2>3. CASE n = 0
    <3>1. DepthAt(typed, 0) = 0
      BY DepthStep
    <3>2. Len(f[0].dirs) = 1
      BY <1>2, <1>3
    <3>3. Len(f[n].dirs) = DepthAt(typed, n) + 1
      BY <2>3, <3>1, <3>2
    <3> QED
      BY <2>2, <3>3
  <2>4. CASE n # 0
    <3>1. n \in 1..N /\ n - 1 \in Nat /\ n - 1 <= N /\ ~ (n <= n - 1)
      BY <1>1, <2>4
    <3>2. Len(f[n-1].dirs) = DepthAt(typed, n-1) + 1
      BY <2>2, <3>1
    <3>3. Len(f[n].dirs) = DepthAt(typed, n) + 1
      BY <1>5, <3>1, <3>2
    <3> QED
      BY <2>2, <3>3
  <2> QED
    BY <2>3, <2>4
<1>7. \A n \in 1..N : f[n] = Runs(f[n-1], typed[n])
  <2>1. \A n \in 1..N : n - 1 \in 0..N
    BY <1>1
  <2> QED
    BY <1>5, <1>6, <2>1
<1>8. Walk(f)
  <2>1. \A n \in 0..N : n # 0 => n \in 1..N
    BY <1>1
  <2>2. \A n \in 0..N : f[n] = IF n = 0 THEN Login ELSE Runs(f[n-1], typed[n])
    BY <1>3, <1>7, <2>1
  <2> QED
    BY <1>3, <2>2
<1> DEFINE after == CHOOSE g : Walk(g)
<1>9. Walk(after)
  BY <1>8
<1>10. Ran = after
  BY DEF Ran, N
<1>11. /\ DOMAIN after = 0..N /\ after = [n \in 0..N |-> after[n]]
       /\ \A n \in 0..N : after[n] = IF n = 0 THEN Login ELSE Runs(after[n-1], typed[n])
  BY <1>9
<1> HIDE DEF after
<1>12. \A n \in 0..N : after[n] = f[n]
  <2> DEFINE Bad == {n \in Nat : n <= N /\ after[n] # f[n]}
  <2>1. SUFFICES Bad = {}
    BY <1>1
  <2>2. SUFFICES ASSUME NEW n \in Bad, \A k \in Bad : n <= k PROVE FALSE
    <3>1. Bad \subseteq Nat
      OBVIOUS
    <3> QED
      BY <3>1, LeastNat
  <2>3. CASE n = 0
    BY <1>1, <1>3, <1>11, <2>2, <2>3
  <2>4. CASE n # 0
    <3>1. n \in 1..N /\ n \in 0..N /\ n - 1 \in Nat /\ n - 1 <= N /\ ~ (n <= n - 1)
      BY <1>1, <2>4
    <3>2. after[n-1] = f[n-1]
      BY <2>2, <3>1
    <3>3. after[n] = f[n]
      BY <1>7, <1>11, <2>4, <3>1, <3>2
    <3> QED
      BY <2>2, <3>3
  <2> QED
    BY <2>3, <2>4
<1>13. after = f
  BY <1>3, <1>11, <1>12
<1>14. ASSUME NEW n \in 1..N, typed[n] = ")" PROVE Len(f[n-1].dirs) > 1
  <2>1. n - 1 \in 0..N /\ n - 1 \in Nat /\ n \in DOMAIN typed
    BY <1>1
  <2>2. DepthAt(typed, n-1) > 0
    BY <1>14, <2>1 DEF Grammar
  <2>3. DepthAt(typed, n-1) \in Int
    BY <2>1, DepthStep
  <2> QED
    BY <1>6, <2>1, <2>2, <2>3
<1> QED
  BY <1>3, <1>7, <1>10, <1>13, <1>14 DEF N

(* The operators read since the last command or blank.                      *)
Pending(scan) == IF scan.current = <<>> THEN scan.operator ELSE <<>>

(* What one token does to what has been read: an operator waits for the     *)
(* command it leads, a blank takes those that wait with it, and a command   *)
(* is a segment more, with the operators that wait.                         *)
LEMMA TokenRead ==
  ASSUME NEW scan \in Scans, NEW token \in Tokens,
         token \in Operators \/ scan.current = <<>>
  PROVE  LET next == TakesIn(scan, token)
         IN  /\ next \in Scans
             /\ token \in Operators =>
                  /\ WithSegment(next) = WithSegment(scan) /\ next.current = <<>>
                  /\ Pending(next) = Append(Pending(scan), token)
             /\ token = Blank => WithSegment(next) = WithSegment(scan) /\ Pending(next) = <<>>
             /\ token \in CommandKinds =>
                  /\ WithSegment(next) = Append(WithSegment(scan),
                                                [operator |-> Pending(scan), kind |-> token])
                  /\ Pending(next) = <<>>
<1> DEFINE next == TakesIn(scan, token)
<1>1. /\ next \in Scans
      /\ token \in Operators =>
           /\ next.current = <<>> /\ next.segments = WithSegment(scan)
           /\ next.operator = IF scan.current = <<>> THEN Append(scan.operator, token)
                              ELSE <<token>>
      /\ token \notin Operators => next = [scan EXCEPT !.current = Append(scan.current, token)]
  BY TakesInIs
<1> HIDE DEF next
<1>2. CASE token \in Operators
  <2>1. token # Blank /\ token \notin CommandKinds
    BY <1>2, TokensDiffer
  <2>2. WithSegment(next) = WithSegment(scan)
    BY <1>1, <1>2, WithSegmentIs
  <2>3. Pending(next) = Append(Pending(scan), token)
    <3>1. CASE scan.current = <<>>
      BY <1>1, <1>2, <3>1 DEF Pending
    <3>2. CASE scan.current # <<>>
      <4>1. Append(<<>>, token) = <<token>>
        OBVIOUS
      <4> QED
        BY <1>1, <1>2, <3>2, <4>1 DEF Pending
    <3> QED
      BY <3>1, <3>2
  <2> QED
    BY <1>1, <1>2, <2>1, <2>2, <2>3 DEF next
<1>3. CASE token \notin Operators
  <2>1. scan.current = <<>> /\ Append(scan.current, token) = <<token>> /\ <<token>> # <<>>
    <3>1. Append(<<>>, token) = <<token>> /\ <<token>> # <<>>
      OBVIOUS
    <3> QED
      BY <1>3, <3>1
  <2>2. /\ next.current = <<token>> /\ next.operator = scan.operator
        /\ next.segments = scan.segments
    <3>1. next = [scan EXCEPT !.current = <<token>>]
      BY <1>1, <1>3, <2>1
    <3>2. scan = [segments |-> scan.segments, operator |-> scan.operator, current |-> scan.current]
      BY DEF Scans
    <3> QED
      BY <3>1, <3>2
  <2>3. WithSegment(scan) = scan.segments /\ Pending(scan) = scan.operator
    BY <2>1, WithSegmentIs DEF Pending
  <2>4. Pending(next) = <<>>
    BY <2>1, <2>2 DEF Pending
  <2>5. CASE token = Blank
    <3>1. WithSegment(next) = WithSegment(scan) /\ token \notin CommandKinds
      BY <1>1, <2>2, <2>3, <2>5, WithSegmentIs, TokensDiffer
    <3> QED
      BY <1>1, <1>3, <2>4, <3>1 DEF next
  <2>6. CASE token \in CommandKinds
    <3>1. WithSegment(next) = Append(next.segments, [operator |-> next.operator, kind |-> token])
      BY <1>1, <2>2, <2>6, WithSegmentIs
    <3>2. token # Blank
      BY <2>6, TokensDiffer
    <3> QED
      BY <1>1, <1>3, <2>2, <2>3, <2>4, <3>1, <3>2 DEF next
  <2> QED
    BY <1>3, <2>5, <2>6 DEF Tokens
<1> QED
  BY <1>2, <1>3

(* The same along what is typed.                                            *)
LEMMA ReadInTurn ==
  ASSUME NEW tokens \in Seq(Tokens), Grammar(tokens)
  PROVE  \E f \in [0..Len(tokens) -> Scans] :
           /\ ScannedOf(tokens) = f[Len(tokens)] /\ f[0] = AtStart
           /\ \A n \in 1..Len(tokens) :
                /\ tokens[n] \in Operators =>
                     /\ WithSegment(f[n]) = WithSegment(f[n-1])
                     /\ Pending(f[n]) = Append(Pending(f[n-1]), tokens[n])
                /\ tokens[n] = Blank =>
                     WithSegment(f[n]) = WithSegment(f[n-1]) /\ Pending(f[n]) = <<>>
                /\ tokens[n] \in CommandKinds =>
                     /\ WithSegment(f[n]) = Append(WithSegment(f[n-1]),
                                              [operator |-> Pending(f[n-1]), kind |-> tokens[n]])
                     /\ Pending(f[n]) = <<>>
<1> DEFINE N == Len(tokens)
<1>1. N \in Nat /\ DOMAIN tokens = 1..N /\ \A n \in 1..N : tokens[n] \in Tokens
  BY LenProperties
<1>2. PICK f \in [0..N -> Scans] :
           /\ ScannedOf(tokens) = f[N] /\ f[0] = AtStart
           /\ \A n \in 1..N : f[n] = TakesIn(f[n-1], tokens[n])
  BY ScansInTurn
<1> HIDE DEF N
<1>3. ASSUME NEW n \in 1..N PROVE tokens[n] \in Operators \/ f[n-1].current = <<>>
  <2>1. tokens[n] \in Operators \/ n = 1 \/ tokens[n-1] \in Operators
    BY <1>1 DEF Grammar, Tokens
  <2>2. CASE n = 1
    BY <1>2, <2>2 DEF AtStart
  <2>3. CASE n # 1 /\ tokens[n-1] \in Operators
    <3>1. n - 1 \in 1..N /\ n - 2 \in 0..N /\ (n - 1) - 1 = n - 2
      BY <1>1, <2>3
    <3>2. f[n-1] = TakesIn(f[n-2], tokens[n-1]) /\ f[n-2] \in Scans /\ tokens[n-1] \in Tokens
      BY <1>1, <1>2, <3>1
    <3> QED
      BY <2>3, <3>2, TakesInIs
  <2> QED
    BY <2>1, <2>2, <2>3
<1>4. ASSUME NEW n \in 1..N
      PROVE  /\ tokens[n] \in Operators =>
                  /\ WithSegment(f[n]) = WithSegment(f[n-1])
                  /\ Pending(f[n]) = Append(Pending(f[n-1]), tokens[n])
             /\ tokens[n] = Blank =>
                  WithSegment(f[n]) = WithSegment(f[n-1]) /\ Pending(f[n]) = <<>>
             /\ tokens[n] \in CommandKinds =>
                  /\ WithSegment(f[n]) = Append(WithSegment(f[n-1]),
                                           [operator |-> Pending(f[n-1]), kind |-> tokens[n]])
                  /\ Pending(f[n]) = <<>>
  <2>1. n - 1 \in 0..N
    BY <1>1
  <2>2. f[n-1] \in Scans /\ tokens[n] \in Tokens /\ f[n] = TakesIn(f[n-1], tokens[n])
    BY <1>1, <1>2, <2>1
  <2> QED
    BY <1>3, <2>2, TokenRead
<1> QED
  BY <1>2, <1>4 DEF N

(* The operators that wait are a sequence of operators. *)
LEMMA PendingIs ==
  ASSUME NEW scan \in Scans
  PROVE  Pending(scan) \in Seq(Operators)
  BY DEF Pending, Scans

(* The flags and the waiting operators, token by token.                     *)
LEMMA FlagsTokenwise ==
  ASSUME NEW tokens \in Seq(Tokens), Grammar(tokens)
  PROVE  \E G \in [0..Len(tokens) -> FlagSet] : \E P \in [0..Len(tokens) -> Seq(Operators)] :
           /\ FlagsAfter(Segments(tokens)) = G[Len(tokens)]
           /\ G[0] = NothingCarried /\ P[0] = <<>>
           /\ \A n \in 1..Len(tokens) :
                /\ tokens[n] \in Operators => G[n] = G[n-1] /\ P[n] = Append(P[n-1], tokens[n])
                /\ tokens[n] = Blank => G[n] = G[n-1] /\ P[n] = <<>>
                /\ tokens[n] \in CommandKinds =>
                     /\ G[n] = Carried(G[n-1], [operator |-> P[n-1], kind |-> tokens[n]])
                     /\ P[n] = <<>>
<1> DEFINE N == Len(tokens)
<1>1. N \in Nat
  BY LenProperties
<1>2. PICK f \in [0..N -> Scans] :
           /\ ScannedOf(tokens) = f[N] /\ f[0] = AtStart
           /\ \A n \in 1..N :
                /\ tokens[n] \in Operators =>
                     /\ WithSegment(f[n]) = WithSegment(f[n-1])
                     /\ Pending(f[n]) = Append(Pending(f[n-1]), tokens[n])
                /\ tokens[n] = Blank =>
                     WithSegment(f[n]) = WithSegment(f[n-1]) /\ Pending(f[n]) = <<>>
                /\ tokens[n] \in CommandKinds =>
                     /\ WithSegment(f[n]) = Append(WithSegment(f[n-1]),
                                              [operator |-> Pending(f[n-1]), kind |-> tokens[n]])
                     /\ Pending(f[n]) = <<>>
  BY ReadInTurn
<1> HIDE DEF N
<1> DEFINE G == [n \in 0..N |-> FlagsAfter(WithSegment(f[n]))]
           P == [n \in 0..N |-> Pending(f[n])]
<1>3. \A n \in 0..N : f[n] \in Scans /\ WithSegment(f[n]) \in Seq(Segment)
  BY <1>2, WithSegmentIs
<1>4. G \in [0..N -> FlagSet] /\ P \in [0..N -> Seq(Operators)]
  <2>1. \A n \in 0..N : FlagsAfter(WithSegment(f[n])) \in FlagSet
    BY <1>3, FlagsInTurn
  <2>2. \A n \in 0..N : Pending(f[n]) \in Seq(Operators)
    BY <1>3, PendingIs
  <2> QED
    BY <2>1, <2>2
<1>5. FlagsAfter(Segments(tokens)) = G[N]
  BY <1>1, <1>2 DEF Segments
<1>6. G[0] = NothingCarried /\ P[0] = <<>>
  <2>1. WithSegment(AtStart) = <<>> /\ Pending(AtStart) = <<>>
    BY DEF WithSegment, Kept, AtStart, Pending
  <2>2. FlagsAfter(<<>>) = NothingCarried
    <3>1. <<>> \in Seq(Segment) /\ Len(<<>>) = 0
      OBVIOUS
    <3> QED
      BY <3>1, FlagsInTurn
  <2>3. 0 \in 0..N
    BY <1>1
  <2> QED
    BY <1>2, <2>1, <2>2, <2>3
<1>7. ASSUME NEW n \in 1..N
      PROVE  /\ tokens[n] \in Operators => G[n] = G[n-1] /\ P[n] = Append(P[n-1], tokens[n])
             /\ tokens[n] = Blank => G[n] = G[n-1] /\ P[n] = <<>>
             /\ tokens[n] \in CommandKinds =>
                  /\ G[n] = Carried(G[n-1], [operator |-> P[n-1], kind |-> tokens[n]])
                  /\ P[n] = <<>>
  <2>1. n \in 0..N /\ n - 1 \in 0..N
    BY <1>1
  <2>2. /\ G[n] = FlagsAfter(WithSegment(f[n])) /\ G[n-1] = FlagsAfter(WithSegment(f[n-1]))
        /\ P[n] = Pending(f[n]) /\ P[n-1] = Pending(f[n-1])
    BY <2>1
  <2> HIDE DEF G, P
  <2>3. tokens[n] \in CommandKinds =>
          FlagsAfter(WithSegment(f[n]))
            = Carried(FlagsAfter(WithSegment(f[n-1])),
                      [operator |-> Pending(f[n-1]), kind |-> tokens[n]])
    <3>1. SUFFICES ASSUME tokens[n] \in CommandKinds
                   PROVE  FlagsAfter(WithSegment(f[n]))
                            = Carried(FlagsAfter(WithSegment(f[n-1])),
                                      [operator |-> Pending(f[n-1]), kind |-> tokens[n]])
      OBVIOUS
    <3> DEFINE s == [operator |-> Pending(f[n-1]), kind |-> tokens[n]]
    <3>2. s \in Segment /\ WithSegment(f[n-1]) \in Seq(Segment)
      BY <1>3, <2>1, <3>1, PendingIs DEF Segment
    <3>3. WithSegment(f[n]) = Append(WithSegment(f[n-1]), s)
      BY <1>2, <3>1
    <3> HIDE DEF s
    <3>4. FlagsAfter(WithSegment(f[n])) = Carried(FlagsAfter(WithSegment(f[n-1])), s)
      BY <3>2, <3>3, FlagsAppend
    <3> QED
      BY <3>4 DEF s
  <2> QED
    BY <1>2, <2>2, <2>3
<1> HIDE DEF G, P
<1> QED
  BY <1>4, <1>5, <1>6, <1>7 DEF N

(* The commands a command line is split into are those that were typed.     *)
LEMMA KindsTyped ==
  ASSUME NEW tokens \in Seq(Tokens), Grammar(tokens)
  PROVE  KindsOf(Segments(tokens)) = {k \in CommandKinds : \E i \in DOMAIN tokens : tokens[i] = k}
<1> DEFINE N == Len(tokens)
           Upto(n) == {k \in CommandKinds : \E i \in 1..n : tokens[i] = k}
<1>1. N \in Nat /\ DOMAIN tokens = 1..N /\ \A n \in 1..N : tokens[n] \in Tokens
  BY LenProperties
<1>2. PICK f \in [0..N -> Scans] :
           /\ ScannedOf(tokens) = f[N] /\ f[0] = AtStart
           /\ \A n \in 1..N :
                /\ tokens[n] \in Operators =>
                     /\ WithSegment(f[n]) = WithSegment(f[n-1])
                     /\ Pending(f[n]) = Append(Pending(f[n-1]), tokens[n])
                /\ tokens[n] = Blank =>
                     WithSegment(f[n]) = WithSegment(f[n-1]) /\ Pending(f[n]) = <<>>
                /\ tokens[n] \in CommandKinds =>
                     /\ WithSegment(f[n]) = Append(WithSegment(f[n-1]),
                                              [operator |-> Pending(f[n-1]), kind |-> tokens[n]])
                     /\ Pending(f[n]) = <<>>
  BY ReadInTurn
<1> HIDE DEF N
<1>3. ASSUME NEW n \in 1..N, KindsOf(WithSegment(f[n-1])) = Upto(n-1)
      PROVE  KindsOf(WithSegment(f[n])) = Upto(n)
  <2>1. n - 1 \in 0..N /\ n \in 1..n /\ \A i \in 1..n : i = n \/ i \in 1..n-1
    BY <1>1
  <2>2. \A i \in 1..n-1 : i \in 1..n
    BY <1>1
  <2>3. CASE tokens[n] \in CommandKinds
    <3> DEFINE s == [operator |-> Pending(f[n-1]), kind |-> tokens[n]]
               old == WithSegment(f[n-1])
    <3>1. s \in Segment /\ old \in Seq(Segment) /\ s.kind = tokens[n]
      BY <1>2, <2>1, <2>3, PendingIs, WithSegmentIs DEF Segment
    <3>2. WithSegment(f[n]) = Append(old, s)
      BY <1>2, <2>3
    <3> HIDE DEF s, old
    <3>3. KindsOf(Append(old, s)) = KindsOf(old) \cup {s.kind}
      <4>1. /\ Len(old) \in Nat /\ DOMAIN old = 1..Len(old)
            /\ DOMAIN Append(old, s) = 1..Len(old)+1
            /\ \A i \in 1..Len(old) : Append(old, s)[i] = old[i]
            /\ Append(old, s)[Len(old)+1] = s
        BY <3>1, AppendProperties, LenProperties
      <4>2. \A i : i \in 1..Len(old)+1 <=> i \in 1..Len(old) \/ i = Len(old) + 1
        BY <4>1
      <4> QED
        BY <4>1, <4>2 DEF KindsOf
    <3>4. Upto(n) = Upto(n-1) \cup {tokens[n]}
      BY <2>1, <2>2, <2>3
    <3> HIDE DEF Upto
    <3> QED
      BY <1>3, <3>1, <3>2, <3>3, <3>4 DEF old
  <2>4. CASE tokens[n] \notin CommandKinds
    <3>1. WithSegment(f[n]) = WithSegment(f[n-1])
      BY <1>1, <1>2, <2>4 DEF Tokens
    <3>2. Upto(n) = Upto(n-1)
      BY <2>1, <2>2, <2>4
    <3> HIDE DEF Upto
    <3> QED
      BY <1>3, <3>1, <3>2
  <2> QED
    BY <2>3, <2>4
<1>4. KindsOf(WithSegment(f[0])) = Upto(0)
  <2>1. WithSegment(AtStart) = <<>>
    BY DEF WithSegment, Kept, AtStart
  <2> QED
    BY <1>2, <2>1 DEF KindsOf
<1> HIDE DEF Upto
<1>5. KindsOf(WithSegment(f[N])) = Upto(N)
  <2> DEFINE Bad == {n \in Nat : n <= N /\ KindsOf(WithSegment(f[n])) # Upto(n)}
  <2>1. SUFFICES Bad = {}
    BY <1>1
  <2>2. SUFFICES ASSUME NEW n \in Bad, \A k \in Bad : n <= k PROVE FALSE
    <3>1. Bad \subseteq Nat
      OBVIOUS
    <3> QED
      BY <3>1, LeastNat
  <2>3. CASE n = 0
    BY <1>4, <2>2, <2>3
  <2>4. CASE n # 0
    <3>1. n \in 1..N /\ n - 1 \in Nat /\ n - 1 <= N /\ ~ (n <= n - 1)
      BY <1>1, <2>4
    <3>2. KindsOf(WithSegment(f[n-1])) = Upto(n-1)
      BY <2>2, <3>1
    <3>3. KindsOf(WithSegment(f[n])) = Upto(n)
      BY <1>3, <3>1, <3>2
    <3> QED
      BY <2>2, <3>3
  <2> QED
    BY <2>3, <2>4
<1> QED
  BY <1>1, <1>2, <1>5 DEF Segments, Upto

(* What a command makes of each flag.                                       *)
StaysIn(flags, operator) == flags.inHooks /\ ~Has(operator, ")")
LEMMA CarriedEach ==
  ASSUME NEW flags \in FlagSet, NEW operator \in Seq(Operators), NEW kind \in CommandKinds
  PROVE  LET next == Carried(flags, [operator |-> operator, kind |-> kind])
         IN  /\ next.exported <=> flags.exported \/ kind = "export"
             /\ next.named <=> kind \in NamesHooksDir
             /\ kind \in ChangesDirectory => (next.inHooks <=> kind \in EntersHooksDir)
             /\ kind \notin ChangesDirectory => (next.inHooks <=> StaysIn(flags, operator))
             /\ next.denied <=> \/ flags.denied
                                \/ kind \in SkipsHooks \cup MutatesHooksDir
                                \/ (flags.exported \/ kind = "export") /\ kind \in GitWord
                                \/ StaysIn(flags, operator) /\ kind \in ChangingVerbs
                                \/ flags.named /\ operator = <<"|">> /\ kind = "xargs rm"
<1> DEFINE s == [operator |-> operator, kind |-> kind]
           exported == flags.exported \/ kind = "export"
           named == kind \in NamesHooksDir
           inHooks == InHooksAfter(flags, s)
           denied == \/ flags.denied
                     \/ kind \in SkipsHooks \cup MutatesHooksDir
                     \/ (flags.exported \/ kind = "export") /\ kind \in GitWord
                     \/ StaysIn(flags, operator) /\ kind \in ChangingVerbs
                     \/ flags.named /\ operator = <<"|">> /\ kind = "xargs rm"
<1>1. Carried(flags, s) =
        [exported |-> exported, inHooks |-> inHooks, named |-> named, denied |-> denied]
  BY DEF Carried, Stays, StaysIn
<1>2. kind \in ChangesDirectory => (inHooks <=> kind \in EntersHooksDir)
  BY DEF InHooksAfter
<1>3. kind \notin ChangesDirectory => (inHooks <=> StaysIn(flags, operator))
  BY DEF InHooksAfter, Stays, StaysIn
<1> HIDE DEF s, exported, named, inHooks, denied
<1>4. LET next == Carried(flags, s)
      IN  /\ next.exported = exported /\ next.named = named
          /\ next.inHooks = inHooks /\ next.denied = denied
  BY <1>1
<1> QED
  BY <1>2, <1>3, <1>4 DEF s, exported, named, denied

(* A command that is forbidden wherever it stands is found wherever it      *)
(* stands.                                                                  *)
LEMMA FoundBySelf ==
  ASSUME NEW tokens \in Seq(Tokens), Grammar(tokens),
         NEW i \in DOMAIN tokens, tokens[i] \in CommandKinds,
         tokens[i] \in SkipsHooks \cup MutatesHooksDir
  PROVE  FlagsAfter(Segments(tokens)).denied
<1> DEFINE N == Len(tokens)
<1>1. N \in Nat /\ i \in 1..N /\ \A n \in 1..N : tokens[n] \in Tokens
  BY LenProperties
<1>2. PICK G \in [0..N -> FlagSet], P \in [0..N -> Seq(Operators)] :
           /\ FlagsAfter(Segments(tokens)) = G[N]
           /\ \A n \in 1..N :
                /\ tokens[n] \in Operators => G[n] = G[n-1]
                /\ tokens[n] = Blank => G[n] = G[n-1]
                /\ tokens[n] \in CommandKinds =>
                     G[n] = Carried(G[n-1], [operator |-> P[n-1], kind |-> tokens[n]])
  BY FlagsTokenwise
<1> HIDE DEF N
<1>3. ASSUME NEW n \in 1..N, tokens[n] \in CommandKinds
      PROVE  /\ G[n-1].denied => G[n].denied
             /\ tokens[n] \in SkipsHooks \cup MutatesHooksDir => G[n].denied
  <2>1. n - 1 \in 0..N
    BY <1>1
  <2>2. G[n-1] \in FlagSet /\ P[n-1] \in Seq(Operators)
    BY <2>1
  <2>3. G[n] = Carried(G[n-1], [operator |-> P[n-1], kind |-> tokens[n]])
    BY <1>2, <1>3
  <2> QED
    BY <1>3, <2>2, <2>3, CarriedEach, ZenonT(40)
<1>4. G[i].denied
  BY <1>1, <1>3
<1>5. \A n \in i..N : G[n].denied
  <2> DEFINE Bad == {n \in Nat : n >= i /\ n <= N /\ ~G[n].denied}
  <2>1. SUFFICES Bad = {}
    <3>1. \A n \in i..N : n \in Nat /\ n >= i /\ n <= N
      BY <1>1
    <3> QED
      BY <3>1
  <2>2. SUFFICES ASSUME NEW n \in Bad, \A k \in Bad : n <= k PROVE FALSE
    <3>1. Bad \subseteq Nat
      OBVIOUS
    <3> QED
      BY <3>1, LeastNat
  <2>3. n # i
    BY <1>4, <2>2
  <2>4. n \in 1..N /\ n - 1 \in Nat /\ n - 1 >= i /\ n - 1 <= N /\ ~ (n <= n - 1)
    BY <1>1, <2>3
  <2>5. G[n-1].denied
    BY <2>2, <2>4
  <2>6. G[n].denied
    <3>1. CASE tokens[n] \in CommandKinds
      BY <1>3, <2>4, <2>5, <3>1
    <3>2. CASE tokens[n] \in Operators \cup {Blank}
      <4>1. G[n] = G[n-1]
        BY <1>2, <2>4, <3>2
      <4> QED
        BY <2>5, <4>1
    <3> QED
      BY <1>1, <2>4, <3>1, <3>2 DEF Tokens
  <2> QED
    BY <2>2, <2>6
<1>6. N \in i..N
  BY <1>1
<1> QED
  BY <1>2, <1>5, <1>6

(* The scan and the shell agree: on the variable, on the path, and where    *)
(* the scan takes the command to stand in the hooks directory, or to read   *)
(* from the command before it, it is so.                                    *)
Agrees(flags, operator, run) ==
  /\ flags.exported <=> run.exported
  /\ flags.named <=> run.named
  /\ StaysIn(flags, operator) => TopOf(run)
  /\ operator = <<"|">> => run.piped

(* The last of what waits is what was typed.                                *)
LEMMA HasAppended ==
  ASSUME NEW operator \in Seq(Operators), NEW token \in Operators
  PROVE  /\ Has(operator, ")") => Has(Append(operator, token), ")")
         /\ token = ")" => Has(Append(operator, token), ")")
         /\ Append(operator, token) = <<"|">> => token = "|"
<1> DEFINE N == Len(operator)
           more == Append(operator, token)
<1>1. /\ N \in Nat /\ DOMAIN operator = 1..N /\ DOMAIN more = 1..N+1
      /\ \A i \in 1..N : more[i] = operator[i]
      /\ more[N+1] = token /\ Len(more) = N + 1
  BY AppendProperties, LenProperties
<1> HIDE DEF N, more
<1>2. Has(operator, ")") => Has(more, ")")
  <2>1. \A i \in 1..N : i \in 1..N+1
    BY <1>1
  <2> QED
    BY <1>1, <2>1 DEF Has
<1>3. token = ")" => Has(more, ")")
  <2>1. N + 1 \in 1..N+1
    BY <1>1
  <2> QED
    BY <1>1, <2>1 DEF Has
<1>4. more = <<"|">> => token = "|"
  <2>1. Len(<<"|">>) = 1 /\ <<"|">>[1] = "|"
    OBVIOUS
  <2>2. more = <<"|">> => N + 1 = 1
    BY <1>1, <2>1
  <2> QED
    BY <1>1, <2>1, <2>2
<1> QED
  BY <1>2, <1>3, <1>4 DEF more

(* An operator that closes nothing adds no closing.                         *)
LEMMA HasOnly ==
  ASSUME NEW operator \in Seq(Operators), NEW token \in Operators,
         token # ")", ~Has(operator, ")")
  PROVE  ~Has(Append(operator, token), ")")
<1> DEFINE N == Len(operator)
           more == Append(operator, token)
<1>1. /\ N \in Nat /\ DOMAIN operator = 1..N /\ DOMAIN more = 1..N+1
      /\ \A i \in 1..N : more[i] = operator[i]
      /\ more[N+1] = token
  BY AppendProperties, LenProperties
<1> HIDE DEF N, more
<1>2. \A i \in 1..N+1 : i \in 1..N \/ i = N + 1
  BY <1>1
<1>3. ~Has(more, ")")
  BY <1>1, <1>2 DEF Has
<1> QED
  BY <1>3 DEF more

(* They go on agreeing over an operator ... *)
LEMMA AgreesOperator ==
  ASSUME NEW flags \in FlagSet, NEW operator \in Seq(Operators), NEW run \in Shells,
         NEW token \in Operators, token = ")" => Len(run.dirs) > 1,
         Agrees(flags, operator, run)
  PROVE  Agrees(flags, Append(operator, token), Runs(run, token))
<1> DEFINE next == Runs(run, token)
           more == Append(operator, token)
<1>1. /\ flags.exported <=> run.exported
      /\ flags.named <=> run.named
      /\ StaysIn(flags, operator) => TopOf(run)
  BY DEF Agrees
<1>2. StaysIn(flags, more) => StaysIn(flags, operator) /\ token # ")"
  BY HasAppended DEF StaysIn
<1>3. more = <<"|">> => token = "|"
  BY HasAppended
<1>4. next.exported = run.exported /\ next.named = run.named
  <2>1. CASE token \in {"(", "$("}
    BY <2>1, RunsOpen
  <2>2. CASE token = ")"
    BY <2>2, RunsClose
  <2>3. CASE token \in Joints
    BY <2>3, RunsJoint
  <2> QED
    BY <2>1, <2>2, <2>3 DEF Operators
<1>5. token # ")" => TopOf(next) = TopOf(run)
  <2>1. CASE token \in {"(", "$("}
    BY <2>1, RunsOpen
  <2>2. CASE token \in Joints
    BY <2>2, RunsJoint
  <2> QED
    BY <2>1, <2>2 DEF Operators
<1>6. token = "|" => next.piped
  <2>1. token = "|" => token \in Joints
    BY DEF Operators
  <2>2. token \in Joints => next.piped = (token = "|")
    BY RunsJoint
  <2> QED
    BY <2>1, <2>2
<1> HIDE DEF next, more
<1> QED
  BY <1>1, <1>2, <1>3, <1>4, <1>5, <1>6 DEF Agrees, next, more

(* ... and over a command.                                                  *)
LEMMA AgreesCommand ==
  ASSUME NEW flags \in FlagSet, NEW operator \in Seq(Operators), NEW run \in Shells,
         NEW token \in CommandKinds, Agrees(flags, operator, run)
  PROVE  Agrees(Carried(flags, [operator |-> operator, kind |-> token]), <<>>, Runs(run, token))
<1> DEFINE next == Runs(run, token)
           after == Carried(flags, [operator |-> operator, kind |-> token])
<1>1. /\ flags.exported <=> run.exported
      /\ StaysIn(flags, operator) => TopOf(run)
  BY DEF Agrees
<1>2. /\ after.exported <=> flags.exported \/ token = "export"
      /\ after.named <=> token \in NamesHooksDir
      /\ token \in ChangesDirectory => (after.inHooks <=> token \in EntersHooksDir)
      /\ token \notin ChangesDirectory => (after.inHooks <=> StaysIn(flags, operator))
  BY CarriedEach
<1>3. /\ token \in ChangesDirectory => TopOf(next) = (token \in EntersHooksDir)
      /\ token \notin ChangesDirectory => TopOf(next) = TopOf(run)
      /\ next.exported = (run.exported \/ token = "export")
      /\ next.named = (token \in NamesHooksDir)
  BY RunsCommand, ZenonT(40)
<1> HIDE DEF next, after
<1>4. StaysIn(after, <<>>) => after.inHooks
  BY DEF StaysIn
<1>5. after.inHooks => TopOf(next)
  BY <1>1, <1>2, <1>3
<1>6. <<>> # <<"|">>
  OBVIOUS
<1> QED
  BY <1>1, <1>2, <1>3, <1>4, <1>5, <1>6 DEF Agrees, next, after

(* ... and over a blank that loses no parenthesis.                          *)
LEMMA AgreesBlank ==
  ASSUME NEW flags \in FlagSet, NEW operator \in Seq(Operators), NEW run \in Shells,
         ~Has(operator, ")"), Agrees(flags, operator, run)
  PROVE  Agrees(flags, <<>>, Runs(run, Blank))
<1>1. Runs(run, Blank) = run
  BY TokensDiffer DEF Runs, Operators, Blank
<1>2. StaysIn(flags, <<>>) => StaysIn(flags, operator)
  BY DEF StaysIn
<1>3. <<>> # <<"|">>
  OBVIOUS
<1> QED
  BY <1>1, <1>2, <1>3 DEF Agrees

(* Where no parenthesis is lost, what the flags deny a shell would run into. *)
LEMMA DeniedAsRun ==
  ASSUME typed \in Seq(Tokens), Grammar(typed), ~CloseLost,
         FlagsAfter(Segments(typed)).denied
  PROVE  \E i \in Typed : typed[i] \in SkipsHooks \cup MutatesHooksDir \/ WouldHarm(i)
<1> DEFINE N == Len(typed)
           Harm(i) == /\ typed[i] \in CommandKinds
                      /\ typed[i] \in SkipsHooks \cup MutatesHooksDir \/ WouldHarm(i)
           Closed(n) == \E k \in 1..n : /\ typed[k] = ")"
                                       /\ \A j \in k..n : typed[j] \in Operators
<1>1. N \in Nat /\ DOMAIN typed = 1..N /\ \A n \in 1..N : typed[n] \in Tokens
  BY LenProperties
<1>2. PICK G \in [0..N -> FlagSet], P \in [0..N -> Seq(Operators)] :
           /\ FlagsAfter(Segments(typed)) = G[N]
           /\ G[0] = NothingCarried /\ P[0] = <<>>
           /\ \A n \in 1..N :
                /\ typed[n] \in Operators => G[n] = G[n-1] /\ P[n] = Append(P[n-1], typed[n])
                /\ typed[n] = Blank => G[n] = G[n-1] /\ P[n] = <<>>
                /\ typed[n] \in CommandKinds =>
                     /\ G[n] = Carried(G[n-1], [operator |-> P[n-1], kind |-> typed[n]])
                     /\ P[n] = <<>>
  BY FlagsTokenwise
<1>3. /\ Ran \in [0..N -> Shells] /\ Ran[0] = Login
      /\ \A n \in 1..N : /\ Ran[n] = Runs(Ran[n-1], typed[n])
                         /\ typed[n] = ")" => Len(Ran[n-1].dirs) > 1
  BY RanInTurn
<1> HIDE DEF N
<1>4. ASSUME NEW n \in 1..N
      PROVE  /\ n - 1 \in 0..N /\ n \in 0..N
             /\ G[n-1] \in FlagSet /\ P[n-1] \in Seq(Operators) /\ Ran[n-1] \in Shells
  <2>1. n - 1 \in 0..N /\ n \in 0..N
    BY <1>1
  <2> QED
    BY <1>3, <2>1
<1>a. ASSUME NEW n \in 1..N, Has(P[n-1], ")") => Closed(n-1) PROVE Has(P[n], ")") => Closed(n)
  <2>1. /\ n - 1 \in Nat /\ n \in 1..n /\ \A k \in 1..n-1 : k \in 1..n
        /\ \A k \in 1..n-1 : \A j \in k..n : j \in k..n-1 \/ j = n
    BY <1>1
  <2>2. ~Has(<<>>, ")")
    BY DEF Has
  <2>3. CASE typed[n] \in Operators
    <3>1. P[n] = Append(P[n-1], typed[n])
      BY <1>2, <2>3
    <3>2. CASE typed[n] = ")"
      <4>1. \A j \in n..n : j = n
        BY <1>1
      <4> QED
        BY <2>1, <2>3, <3>2, <4>1
    <3>3. CASE Has(P[n-1], ")")
      <4>1. PICK k \in 1..n-1 : typed[k] = ")" /\ \A j \in k..n-1 : typed[j] \in Operators
        BY <1>a, <3>3
      <4>2. \A j \in k..n : typed[j] \in Operators
        BY <2>1, <2>3, <4>1
      <4> QED
        BY <2>1, <4>1, <4>2
    <3>4. CASE typed[n] # ")" /\ ~Has(P[n-1], ")")
      <4>1. ~Has(P[n], ")")
        BY <1>4, <2>3, <3>1, <3>4, HasOnly
      <4> QED
        BY <4>1
    <3> QED
      BY <3>2, <3>3, <3>4
  <2>4. CASE typed[n] \notin Operators
    BY <1>1, <1>2, <2>2, <2>4 DEF Tokens
  <2> QED
    BY <2>3, <2>4
<1>b. \A n \in 0..N : Has(P[n], ")") => Closed(n)
  <2> HIDE DEF Closed
  <2> DEFINE Bad == {n \in Nat : n <= N /\ ~(Has(P[n], ")") => Closed(n))}
  <2>1. SUFFICES Bad = {}
    <3>1. \A n \in 0..N : n \in Nat /\ n <= N
      BY <1>1
    <3> QED
      BY <3>1
  <2>2. SUFFICES ASSUME NEW n \in Bad, \A k \in Bad : n <= k PROVE FALSE
    <3>1. Bad \subseteq Nat
      OBVIOUS
    <3> QED
      BY <3>1, LeastNat
  <2>3. CASE n = 0
    <3>1. ~Has(P[0], ")")
      BY <1>2 DEF Has
    <3> QED
      BY <2>2, <2>3, <3>1
  <2>4. CASE n # 0
    <3>1. n \in 1..N /\ n - 1 \in Nat /\ n - 1 <= N /\ ~ (n <= n - 1)
      BY <1>1, <2>4
    <3>2. Has(P[n-1], ")") => Closed(n-1)
      BY <2>2, <3>1
    <3>3. Has(P[n], ")") => Closed(n)
      BY <1>a, <3>1, <3>2
    <3> QED
      BY <2>2, <3>3
  <2> QED
    BY <2>3, <2>4
<1>c. ASSUME NEW n \in 1..N, typed[n] = Blank PROVE ~Has(P[n-1], ")")
  <2>1. Has(P[n-1], ")") => Closed(n-1)
    BY <1>4, <1>b
  <2>2. ~Closed(n-1)
    BY <1>1, <1>c DEF CloseLost
  <2> QED
    BY <2>1, <2>2
<1> HIDE DEF Closed
<1>5. ASSUME NEW n \in 1..N, Agrees(G[n-1], P[n-1], Ran[n-1])
      PROVE  Agrees(G[n], P[n], Ran[n])
  <2>1. CASE typed[n] \in Operators
    <3>1. Agrees(G[n-1], Append(P[n-1], typed[n]), Runs(Ran[n-1], typed[n]))
      BY <1>3, <1>4, <1>5, <2>1, AgreesOperator
    <3> QED
      BY <1>2, <1>3, <2>1, <3>1
  <2>2. CASE typed[n] \in CommandKinds
    <3>1. Agrees(Carried(G[n-1], [operator |-> P[n-1], kind |-> typed[n]]), <<>>,
                 Runs(Ran[n-1], typed[n]))
      BY <1>4, <1>5, <2>2, AgreesCommand
    <3> QED
      BY <1>2, <1>3, <2>2, <3>1
  <2>3. CASE typed[n] = Blank
    <3>1. Agrees(G[n-1], <<>>, Runs(Ran[n-1], Blank))
      BY <1>4, <1>5, <1>c, <2>3, AgreesBlank
    <3> QED
      BY <1>2, <1>3, <2>3, <3>1
  <2> QED
    BY <1>1, <2>1, <2>2, <2>3 DEF Tokens
<1>6. Agrees(G[0], P[0], Ran[0])
  <2>1. <<>> # <<"|">>
    OBVIOUS
  <2> QED
    BY <1>2, <1>3, <2>1 DEF Agrees, StaysIn, NothingCarried, Login
<1>7. \A n \in 0..N : Agrees(G[n], P[n], Ran[n])
  <2> DEFINE Bad == {n \in Nat : n <= N /\ ~Agrees(G[n], P[n], Ran[n])}
  <2>1. SUFFICES Bad = {}
    <3>1. \A n \in 0..N : n \in Nat /\ n <= N
      BY <1>1
    <3> QED
      BY <3>1
  <2>2. SUFFICES ASSUME NEW n \in Bad, \A k \in Bad : n <= k PROVE FALSE
    <3>1. Bad \subseteq Nat
      OBVIOUS
    <3> QED
      BY <3>1, LeastNat
  <2>3. CASE n = 0
    BY <1>6, <2>2, <2>3
  <2>4. CASE n # 0
    <3>1. n \in 1..N /\ n - 1 \in Nat /\ n - 1 <= N /\ ~ (n <= n - 1)
      BY <1>1, <2>4
    <3>2. Agrees(G[n-1], P[n-1], Ran[n-1])
      BY <2>2, <3>1
    <3>3. Agrees(G[n], P[n], Ran[n])
      BY <1>5, <3>1, <3>2
    <3> QED
      BY <2>2, <3>3
  <2> QED
    BY <2>3, <2>4
<1>8. ASSUME NEW n \in 1..N, G[n].denied, ~G[n-1].denied
      PROVE  Harm(n)
  <2>1. typed[n] \in CommandKinds
    BY <1>1, <1>2, <1>8 DEF Tokens
  <2>2. Agrees(G[n-1], P[n-1], Ran[n-1])
    BY <1>4, <1>7
  <2>3. \/ typed[n] \in SkipsHooks \cup MutatesHooksDir
        \/ (G[n-1].exported \/ typed[n] = "export") /\ typed[n] \in GitWord
        \/ StaysIn(G[n-1], P[n-1]) /\ typed[n] \in ChangingVerbs
        \/ G[n-1].named /\ P[n-1] = <<"|">> /\ typed[n] = "xargs rm"
    <3>1. Carried(G[n-1], [operator |-> P[n-1], kind |-> typed[n]]).denied
      BY <1>2, <1>8, <2>1
    <3>2. G[n-1] \in FlagSet /\ P[n-1] \in Seq(Operators)
      BY <1>4
    <3> QED
      BY <1>8, <2>1, <3>1, <3>2, CarriedEach
  <2>4. typed[n] = "export" => typed[n] \notin GitWord
    BY DEF GitWord
  <2>5. CASE G[n-1].exported /\ typed[n] \in GitWord
    BY <2>1, <2>2, <2>5 DEF Agrees, WouldHarm
  <2>6. CASE StaysIn(G[n-1], P[n-1]) /\ typed[n] \in ChangingVerbs
    BY <2>1, <2>2, <2>6 DEF Agrees, WouldHarm, TopOf
  <2>7. CASE G[n-1].named /\ P[n-1] = <<"|">> /\ typed[n] = "xargs rm"
    BY <2>1, <2>2, <2>7 DEF Agrees, WouldHarm
  <2> QED
    BY <2>1, <2>3, <2>4, <2>5, <2>6, <2>7
<1> HIDE DEF Harm
<1>9. \E n \in 1..N : Harm(n)
  <2> DEFINE Denying == {n \in Nat : n <= N /\ G[n].denied}
  <2>1. N \in Denying
    BY <1>1, <1>2
  <2>2. PICK n \in Denying : \A k \in Denying : n <= k
    <3>1. Denying \subseteq Nat /\ Denying # {}
      BY <2>1
    <3> QED
      BY <3>1, LeastNat
  <2>3. n # 0
    BY <1>2, <2>2 DEF NothingCarried
  <2>4. n \in 1..N /\ n - 1 \in Nat /\ n - 1 <= N /\ ~ (n <= n - 1)
    BY <1>1, <2>3
  <2>5. ~G[n-1].denied
    BY <2>2, <2>4
  <2>6. Harm(n)
    BY <1>8, <2>2, <2>4, <2>5
  <2> QED
    BY <2>4, <2>6
<1> QED
  BY <1>1, <1>9 DEF Harm, Typed

(* What the rules deny was typed.                                           *)
LEMMA PartsAreTyped ==
  ASSUME typed \in Seq(Tokens), Grammar(typed), call.tool = "Bash"
  PROVE  Parts = {k \in CommandKinds : \E i \in DOMAIN typed : typed[i] = k}
<1>1. Parts = KindsOf(Segments(typed))
  BY DEF Parts, KindsOf
<1> QED
  BY <1>1, KindsTyped

(* A command line that is denied is denied with a reason, and one with a    *)
(* command that is forbidden wherever it stands is denied.                  *)
LEMMA DecideIsRight ==
  ASSUME typed \in Seq(Tokens), Grammar(typed), call.tool = "Bash"
  PROVE  /\ Decide = "deny" => Justified \/ CloseLost
         /\ (\E i \in Typed : BySelf(i)) => Decide = "deny"
<1>1. IsDenied <=> \/ call.settings = "unparseable rule"
                   \/ call.settings = "rules" /\ Parts \cap Policy # {}
  BY DEF IsDenied
<1>2. BypassesHookFloor <=> Substituted(typed) \/ FlagsAfter(Segments(typed)).denied
  BY DEF BypassesHookFloor, BypassesByCommand, Writers
<1>3. Parts \cap Policy # {} <=> \E i \in Typed : typed[i] \in Policy
  BY PartsAreTyped DEF Typed
<1>4. ASSUME Decide = "deny", ~CloseLost PROVE Justified
  <2>1. IsDenied \/ IsUnreadable \/ BypassesHookFloor
    BY <1>4 DEF Decide
  <2>2. CASE IsDenied
    BY <1>1, <1>3, <2>2 DEF Justified, BySelf
  <2>3. CASE IsUnreadable
    BY <2>3 DEF Justified
  <2>4. CASE Substituted(typed)
    BY <2>4 DEF Justified
  <2>5. CASE FlagsAfter(Segments(typed)).denied
    <3>1. \E i \in Typed : typed[i] \in SkipsHooks \cup MutatesHooksDir \/ WouldHarm(i)
      BY <1>4, <2>5, DeniedAsRun
    <3> QED
      BY <3>1 DEF Justified, BySelf
  <2> QED
    BY <1>2, <2>1, <2>2, <2>3, <2>4, <2>5
<1>5. ASSUME NEW i \in Typed, BySelf(i) PROVE Decide = "deny"
  <2>1. CASE typed[i] \in SkipsHooks \cup MutatesHooksDir
    <3>1. i \in DOMAIN typed /\ typed[i] \in CommandKinds
      BY DEF Typed
    <3>2. FlagsAfter(Segments(typed)).denied
      BY <2>1, <3>1, FoundBySelf
    <3> QED
      BY <1>2, <3>2 DEF Decide
  <2>2. CASE call.settings = "rules" /\ typed[i] \in Policy
    BY <1>1, <1>3, <2>2 DEF Decide
  <2> QED
    BY <1>5, <2>1, <2>2 DEF BySelf
<1> QED
  BY <1>4, <1>5

(* What is typed next leaves what was typed as it was: the depth of every   *)
(* place in it is what it was.                                              *)
LEMMA DepthAppended ==
  ASSUME NEW tokens \in Seq(Tokens), NEW token \in Tokens, NEW n \in 0..Len(tokens)
  PROVE  DepthAt(Append(tokens, token), n) = DepthAt(tokens, n)
<1> DEFINE more == Append(tokens, token)
<1>1. \A i \in 1..n : more[i] = tokens[i]
  <2>1. Len(tokens) \in Nat /\ \A i \in 1..Len(tokens) : more[i] = tokens[i]
    BY AppendProperties, LenProperties
  <2>2. \A i \in 1..n : i \in 1..Len(tokens)
    BY <2>1
  <2> QED
    BY <2>1, <2>2
<1> HIDE DEF more
<1>2. \A those : CountAt(more, those, n) = CountAt(tokens, those, n)
  BY <1>1 DEF CountAt
<1> QED
  BY <1>2 DEF DepthAt, more

(* The open parentheses of a whole command line.                            *)
LEMMA DepthIs ==
  ASSUME NEW tokens \in Seq(Tokens)
  PROVE  Depth(tokens) = DepthAt(tokens, Len(tokens))
<1>1. DOMAIN tokens = 1..Len(tokens)
  BY LenProperties
<1> QED
  BY <1>1 DEF Depth, DepthAt, CountAt, Places

(* Typing one token more that may follow keeps the grammar.                 *)
LEMMA GrammarKept ==
  ASSUME typed \in Seq(Tokens), Grammar(typed), NEW token \in Tokens, MayFollow(token)
  PROVE  Append(typed, token) \in Seq(Tokens) /\ Grammar(Append(typed, token))
<1> DEFINE N == Len(typed)
           more == Append(typed, token)
<1>1. /\ N \in Nat /\ DOMAIN typed = 1..N /\ \A i \in 1..N : typed[i] \in Tokens
      /\ more \in Seq(Tokens) /\ DOMAIN more = 1..N+1
      /\ \A i \in 1..N : more[i] = typed[i]
      /\ more[N+1] = token
  BY AppendProperties, LenProperties
<1>2. typed # <<>> => N # 0
  BY EmptySeq
<1>3. \A n \in 0..N : DepthAt(more, n) = DepthAt(typed, n)
  BY DepthAppended
<1>4. Depth(typed) = DepthAt(typed, N)
  BY DepthIs
<1> HIDE DEF more, N
<1>5. ASSUME NEW i \in 1..N
      PROVE  /\ more[i] \in CommandKinds => i = 1 \/ more[i-1] \in Operators
             /\ more[i] = Blank => i # 1 /\ more[i-1] \in Operators
             /\ more[i] = ")" => DepthAt(more, i-1) > 0
  <2>1. i - 1 \in 0..N /\ (i # 1 => i - 1 \in 1..N)
    BY <1>1
  <2>2. /\ typed[i] \in CommandKinds => i = 1 \/ typed[i-1] \in Operators
        /\ typed[i] = Blank => i # 1 /\ typed[i-1] \in Operators
        /\ typed[i] = ")" => DepthAt(typed, i-1) > 0
    BY <1>1 DEF Grammar
  <2> QED
    BY <1>1, <1>3, <2>1, <2>2
<1>6. /\ N = 0 => LastToken = "start"
      /\ N # 0 => N \in 1..N /\ more[N] = LastToken /\ LastToken \in Tokens
  <2>1. N = 0 => typed = <<>>
    BY <1>2
  <2>2. typed = <<>> => N = 0
    BY DEF N
  <2>3. N # 0 => N \in 1..N
    BY <1>1
  <2>4. N # 0 => LastToken = typed[N]
    BY <2>2 DEF LastToken, N
  <2> QED
    BY <1>1, <2>1, <2>3, <2>4 DEF LastToken
<1>7. /\ token \in CommandKinds => N = 0 \/ more[N] \in Operators
      /\ token = Blank => N # 0 /\ more[N] \in Operators
      /\ token = ")" => DepthAt(more, N) > 0
  <2>1. CASE token \in CommandKinds
    <3>1. token \notin Joints \cup {"(", "$(", ")"} /\ token # Blank
      BY <2>1, TokensDiffer
    <3>2. LastToken \in {"start", "(", "$("} \cup Joints
      BY <2>1, <3>1 DEF MayFollow
    <3>3. "start" \notin Tokens
      BY KindsKnown, JointsKnown DEF Tokens, Operators, Blank
    <3>4. N # 0 => more[N] \in {"(", "$("} \cup Joints
      BY <1>6, <3>2, <3>3
    <3>5. N = 0 \/ more[N] \in Operators
      BY <3>4 DEF Operators
    <3> QED
      BY <3>1, <3>5
  <2>2. CASE token = Blank
    <3>1. token \notin CommandKinds \cup Joints \cup {"(", "$(", ")"}
      BY <2>2, TokensDiffer DEF Operators
    <3>2. LastToken \in {")"} \cup Joints
      BY <3>1 DEF MayFollow
    <3>3. N # 0 /\ more[N] \in {")"} \cup Joints
      <4>1. "start" \notin {")"} \cup Joints
        BY JointsKnown
      <4> QED
        BY <1>6, <3>2, <4>1
    <3>4. more[N] \in Operators
      BY <3>3 DEF Operators
    <3> QED
      BY <3>1, <3>3, <3>4
  <2>3. CASE token = ")"
    <3>1. token \notin CommandKinds /\ token # Blank
      BY <2>3, TokensDiffer DEF Operators
    <3>2. Depth(typed) > 0
      BY <2>3, <3>1, TokensDiffer DEF MayFollow, Operators
    <3>3. N \in 0..N
      BY <1>1
    <3> QED
      BY <1>3, <1>4, <2>3, <3>1, <3>2, <3>3
  <2> QED
    BY <2>1, <2>2, <2>3
<1>8. Grammar(more)
  <2>1. \A i \in 1..N+1 : i \in 1..N \/ i = N + 1
    BY <1>1
  <2>2. (N + 1) - 1 = N /\ (N + 1 = 1 <=> N = 0)
    BY <1>1
  <2> QED
    BY <1>1, <1>5, <1>7, <2>1, <2>2 DEF Grammar
<1> QED
  BY <1>1, <1>8 DEF more

(* A call is made of a tool, what is typed could be typed, and what has     *)
(* been decided is what the hook decides of it.                             *)
HookInv ==
  /\ HookTypeOK
  /\ Grammar(typed)
  /\ decision # "pending" => decision = IF call.tool = "garbled" THEN "silent" ELSE Decide

(* At the start nothing is typed. *)
LEMMA HookInvInit == HookInit => HookInv
<1> SUFFICES ASSUME HookInit PROVE HookInv
  OBVIOUS
<1>1. typed = <<>> /\ decision = "pending" /\ call \in ToolCalls
  BY DEF HookInit
<1>2. <<>> \in Seq(CommandKinds \cup Operators \cup {Blank}) /\ DOMAIN <<>> = {}
  OBVIOUS
<1> QED
  BY <1>1, <1>2 DEF HookInv, HookTypeOK, Grammar

(* A token that is typed, and the decision. *)
LEMMA HookInvNext == HookInv /\ [HookNext]_hookVars => HookInv'
<1> SUFFICES ASSUME HookInv, [HookNext]_hookVars PROVE HookInv'
  OBVIOUS
<1>1. /\ call \in ToolCalls /\ decision \in {"pending", "deny", "silent"}
      /\ typed \in Seq(Tokens) /\ Grammar(typed)
      /\ decision # "pending" => decision = IF call.tool = "garbled" THEN "silent" ELSE Decide
  BY DEF HookInv, HookTypeOK, Tokens
<1>2. Decide \in {"deny", "silent"}
  BY DEF Decide
<1>3. ASSUME UNCHANGED <<call, typed>> PROVE Decide' = Decide /\ Grammar(typed')
  <2>1. call' = call /\ typed' = typed
    BY <1>3
  <2>2. Decide' = Decide
    BY <2>1 DEF Decide, IsDenied, IsUnreadable, BypassesHookFloor, Parts, Segments, ScannedOf,
                BypassesByCommand, FlagsAfter, Carried, InHooksAfter, Stays, EntersHooksDir,
                NamesHooksDir, MutatesHooksDir, Custom, HooksFiles
  <2> QED
    BY <1>1, <2>1, <2>2
<1>4. CASE Main
  <2>1. /\ decision' = (IF call.tool = "garbled" THEN "silent" ELSE Decide)
        /\ call' = call /\ typed' = typed
    BY <1>4 DEF Main
  <2>2. Decide' = Decide /\ Grammar(typed')
    BY <1>3, <2>1
  <2>3. HookTypeOK'
    BY <1>1, <1>2, <2>1 DEF HookTypeOK, Tokens
  <2> QED
    BY <2>1, <2>2, <2>3 DEF HookInv
<1>5. ASSUME NEW token \in CommandKinds \cup Operators \cup {Blank}, Type(token) PROVE HookInv'
  <2>1. /\ decision = "pending" /\ MayFollow(token) /\ typed' = Append(typed, token)
        /\ call' = call /\ decision' = decision
    BY <1>5 DEF Type
  <2>2. token \in Tokens
    BY DEF Tokens
  <2>3. typed' \in Seq(Tokens) /\ Grammar(typed')
    BY <1>1, <2>1, <2>2, GrammarKept
  <2> QED
    BY <1>1, <2>1, <2>3 DEF HookInv, HookTypeOK, Tokens
<1>6. CASE UNCHANGED hookVars
  <2>1. call' = call /\ typed' = typed /\ decision' = decision
    BY <1>6 DEF hookVars
  <2>2. Decide' = Decide /\ Grammar(typed')
    BY <1>3, <2>1
  <2> QED
    BY <1>1, <2>1, <2>2 DEF HookInv, HookTypeOK, Tokens
<1> QED
  BY <1>4, <1>5, <1>6 DEF HookNext

(* It says what the property asks. *)
LEMMA JudgedByInv == HookInv => JudgedAsRun
<1> SUFFICES ASSUME HookInv PROVE JudgedAsRun
  OBVIOUS
<1>1. /\ decision \in {"pending", "deny", "silent"} /\ typed \in Seq(Tokens) /\ Grammar(typed)
      /\ decision # "pending" => decision = IF call.tool = "garbled" THEN "silent" ELSE Decide
  BY DEF HookInv, HookTypeOK, Tokens
<1>2. ASSUME call.tool = "Bash"
      PROVE  /\ Decide = "deny" => Justified \/ CloseLost
             /\ (\E i \in Typed : BySelf(i)) => Decide = "deny"
  BY <1>1, <1>2, DecideIsRight
<1>3. call.tool = "Bash" /\ decision # "pending" => decision = Decide
  BY <1>1
<1> QED
  BY <1>2, <1>3 DEF JudgedAsRun, BashDenied

(* A command is denied only for what one of its commands is, or would run   *)
(* into where a shell runs it, unless a blank that stands alone loses the    *)
(* parenthesis that closed before it; and                                    *)
(* what is forbidden wherever it stands is denied wherever it stands.       *)
THEOREM JudgedAlways == HookSpec => []JudgedAsRun
<1>1. HookInit => HookInv
  BY HookInvInit
<1>2. HookInv /\ [HookNext]_hookVars => HookInv'
  BY HookInvNext
<1>3. HookInv => JudgedAsRun
  BY JudgedByInv
<1> QED
  BY <1>1, <1>2, <1>3, PTL DEF HookSpec
====
