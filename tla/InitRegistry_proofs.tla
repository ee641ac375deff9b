------------------------- MODULE InitRegistry_proofs -------------------------
(***************************************************************************)
(* What holds of projects.json for any projects, any number of processes    *)
(* and any number of runs, deaths and repairs.                              *)
(***************************************************************************)
EXTENDS InitRegistry, TLAPS

(* The history variable tells what the file says, if it says something. *)
BaseIsFile ==
  /\ file \in Document => base = file
  /\ file = Missing => base = NoDocument

(* A run that has had the registry to itself: nobody else is at work, its   *)
(* document is the file but for its own project, and it knows the file.     *)
HasItAlone(p) ==
  /\ \A q \in Procs : Running(q) => q = p
  /\ \A i \in Projects : doc[p][i] # base[i] => about[p] = i
  /\ pc[p] \in {"write", "dump"} =>
       \A i \in Projects : base[i] # None => doc[p][i] # None
  /\ pc[p] = "dump" => file = Empty /\ ~detached[p]
  /\ pc[p] \in {"backup", "swap"} => file \in Document
  /\ pc[p] = "swap" => base \in backups
Alone == ~overlap => \A p \in Procs : Running(p) => HasItAlone(p)

IInv == TypeOK /\ BaseIsFile /\ Alone /\ UnreadableOnlyIfCut

-----------------------------------------------------------------------------
(* The document a run builds is one. *)
LEMMA JiraTyped ==
  ASSUME NEW old \in Jira \cup {None}, NEW options \in BOOLEAN, NEW fragment \in BOOLEAN
  PROVE  JiraAfter(old, options, fragment) \in Jira
  BY DEF Jira, JiraAfter, JiraByOptions
(* What a registration writes is a document of the registry. *)
LEMMA ContentsTyped == TypeOK => Contents \in Document
  BY DEF TypeOK, Contents, NoDocument, Document

(* What Begins does, whoever calls it. *)
LEMMA BeginsTyped ==
  ASSUME TypeOK, NEW p \in Procs, NEW i \in Projects \cup {None},
         NEW step \in {"write", "backup"}, step = "backup" => file # Missing,
         NEW document \in Document,
         Begins(p, i, step, document)
  PROVE  TypeOK'
  BY RegistryAssumption DEF Begins, TypeOK
(* A run that ends keeps the types. *)
LEMMA EndsTyped ==
  ASSUME TypeOK, NEW p \in Procs, Ends(p)
  PROVE  /\ pc' \in [Procs -> {"idle", "write", "dump", "backup", "swap"}]
         /\ \A q \in Procs : pc'[q] = "backup" => pc[q] = "backup"
         /\ about' \in [Procs -> Projects \cup {None}] /\ doc' \in [Procs -> Document]
  BY DEF Ends, TypeOK, NoDocument, Document

(* No step leaves a variable out of its type. *)
LEMMA TypeStep == TypeOK /\ [Next]_vars => TypeOK'
<1> SUFFICES ASSUME TypeOK, [Next]_vars PROVE TypeOK'
  OBVIOUS
<1>1. ASSUME NEW p \in Procs, NEW i \in Projects \cup {None}, NEW options \in BOOLEAN,
             NEW fragment \in BOOLEAN, Register(p, i, options, fragment)
      PROVE  TypeOK'
  <2>1. CASE i = None
    BY <1>1, <2>1, ContentsTyped, BeginsTyped DEF Register
  <2>2. CASE i # None
    <3>1. Contents[i] \in Jira \cup {None}
      BY <2>2, ContentsTyped DEF Document
    <3>2. [Contents EXCEPT ![i] = JiraAfter(@, options, fragment)] \in Document
      BY <3>1, JiraTyped, ContentsTyped DEF Document
    <3> QED
      BY <1>1, <2>2, <3>2, BeginsTyped DEF Register
  <2> QED
    BY <2>1, <2>2
<1>2. ASSUME NEW p \in Procs, NEW i \in Projects, Remove(p, i) PROVE TypeOK'
  <2>1. [Contents EXCEPT ![i] = None] \in Document
    BY ContentsTyped DEF Document
  <2> QED
    BY <1>2, <2>1, BeginsTyped DEF Remove
<1>3. ASSUME NEW p \in Procs, Truncate(p) PROVE TypeOK'
  BY <1>3, RegistryAssumption DEF Truncate, TypeOK, Unreadable
<1>4. ASSUME NEW p \in Procs, Dump(p) PROVE TypeOK'
  <2>1. /\ file' \in Document \cup Unreadable \cup {Missing}
        /\ file # Missing => file' # Missing
    BY <1>4, RegistryAssumption DEF Dump, TypeOK, Unreadable
  <2> QED
    BY <1>4, <2>1, EndsTyped DEF Dump, TypeOK
<1>5. ASSUME NEW p \in Procs, BackUp(p) PROVE TypeOK'
  <2>1. pc[p] = "backup" /\ backups' = backups \cup {file}
    BY <1>5 DEF BackUp, BackUpBy
  <2> QED
    BY <1>5, <2>1 DEF BackUp, BackUpBy, TypeOK
<1>6. ASSUME NEW p \in Procs, Swap(p) PROVE TypeOK'
  BY <1>6, EndsTyped, RegistryAssumption DEF Swap, Replaces, TypeOK
<1>7. ASSUME NEW p \in Procs, Dies(p) PROVE TypeOK'
  <2>1. /\ file' \in Document \cup Unreadable \cup {Missing} /\ cut' \in BOOLEAN
        /\ file # Missing => file' # Missing
    BY <1>7, RegistryAssumption DEF Dies, TypeOK, Unreadable
  <2>2. faults' \in 0..MaxFaults
    BY <1>7, RegistryAssumption DEF Dies, TypeOK
  <2> QED
    BY <1>7, <2>1, <2>2, EndsTyped DEF Dies, TypeOK
<1>8. CASE PersonRepairs
  <2>1. edits' \in 0..MaxEdits
    BY <1>8, RegistryAssumption DEF PersonRepairs, TypeOK
  <2>2. NoDocument \in Document
    BY DEF NoDocument, Document
  <2> QED
    BY <1>8, <2>1, <2>2 DEF PersonRepairs, Running, TypeOK
<1>9. CASE UNCHANGED vars
  BY <1>9 DEF vars, TypeOK
<1> QED
  BY <1>1, <1>2, <1>3, <1>4, <1>5, <1>6, <1>7, <1>8, <1>9 DEF Next, Guild

(* Every variable of the registry keeps its type. *)
THEOREM TypeCorrect == Spec => []TypeOK
<1>1. Init => TypeOK
  <2> SUFFICES ASSUME Init PROVE TypeOK
    OBVIOUS
  <2>1. NoDocument \in Document
    BY DEF NoDocument, Document
  <2>2. file \in Document \cup {Missing} /\ base \in Document
    BY <2>1 DEF Init
  <2>3. calls \in 0..MaxCalls /\ faults \in 0..MaxFaults /\ edits \in 0..MaxEdits
    BY RegistryAssumption DEF Init
  <2>4. doc \in [Procs -> Document] /\ pc = [p \in Procs |-> "idle"]
    BY <2>1 DEF Init
  <2> QED
    BY <2>2, <2>3, <2>4 DEF Init, TypeOK
<1> QED
  BY <1>1, TypeStep, PTL DEF Spec

-----------------------------------------------------------------------------
(* A run that begins alone has the file's entries, but for its own project. *)
LEMMA BeginsStep ==
  ASSUME IInv, TypeOK', NEW p \in Procs, NEW i \in Projects \cup {None},
         NEW step \in {"write", "backup"}, NEW document \in Document,
         Begins(p, i, step, document), Reads(file),
         \A j \in Projects : document[j] # Contents[j] => i = j,
         step = "write" => \A j \in Projects : Contents[j] # None => document[j] # None,
         step = "backup" => file \in Document
  PROVE  IInv'
<1>1. Contents = base
  BY RegistryAssumption DEF IInv, TypeOK, Reads, BaseIsFile, Contents
<1>2. pc'[p] = step /\ doc'[p] = document /\ about'[p] = i
  BY DEF Begins, IInv, TypeOK
<1>3. Alone'
  <2> SUFFICES ASSUME ~overlap', NEW q \in Procs, Running(q)' PROVE HasItAlone(q)'
    BY DEF Alone
  <2>1. \A r \in Procs : ~Running(r)
    BY DEF Begins
  <2>2. q = p /\ \A r \in Procs : Running(r)' => r = p
    BY <2>1 DEF Begins, Running, IInv, TypeOK
  <2> QED
    BY <1>1, <1>2, <2>2 DEF Begins, HasItAlone
<1>4. UnreadableOnlyIfCut' /\ BaseIsFile'
  BY DEF IInv, Begins, Running, UnreadableOnlyIfCut, BaseIsFile, TypeOK
<1> QED
  BY <1>3, <1>4 DEF IInv

(* When a run ends, no other begins. *)
LEMMA EndsAlone ==
  ASSUME IInv, NEW p \in Procs, Running(p), Ends(p), UNCHANGED overlap
  PROVE  Alone'
<1> SUFFICES ASSUME ~overlap', NEW q \in Procs, Running(q)' PROVE HasItAlone(q)'
  BY DEF Alone
<1>1. Running(q) /\ q # p
  BY DEF Ends, Running, IInv, TypeOK
<1> QED
  BY <1>1 DEF IInv, Alone, HasItAlone

(* The invariant. *)
LEMMA InvStep == IInv /\ [Next]_vars => IInv'
<1> SUFFICES ASSUME IInv, [Next]_vars PROVE IInv'
  OBVIOUS
<1>0. TypeOK /\ TypeOK'
  BY TypeStep DEF IInv
<1>1. ASSUME NEW p \in Procs, NEW i \in Projects \cup {None}, NEW options \in BOOLEAN,
             NEW fragment \in BOOLEAN, Register(p, i, options, fragment)
      PROVE  IInv'
  <2>1. Contents \in Document
    BY <1>0, ContentsTyped
  <2>2. CASE i = None
    BY <1>0, <1>1, <2>1, <2>2, BeginsStep DEF Register
  <2>3. CASE i # None
    <3> DEFINE new == [Contents EXCEPT ![i] = JiraAfter(@, options, fragment)]
    <3>1. JiraAfter(Contents[i], options, fragment) \in Jira
      BY <2>1, <2>3, JiraTyped DEF Document
    <3>2. /\ new \in Document
          /\ \A j \in Projects : new[j] # Contents[j] => i = j
          /\ \A j \in Projects : Contents[j] # None => new[j] # None
      BY <2>1, <2>3, <3>1, RegistryAssumption DEF Document
    <3> QED
      BY <1>0, <1>1, <2>3, <3>2, BeginsStep DEF Register
  <2> QED
    BY <2>2, <2>3
<1>2. ASSUME NEW p \in Procs, NEW i \in Projects, Remove(p, i) PROVE IInv'
  <2>1. /\ [Contents EXCEPT ![i] = None] \in Document
        /\ \A j \in Projects : [Contents EXCEPT ![i] = None][j] # Contents[j] => i = j
    BY <1>0, ContentsTyped DEF Document
  <2>2. file \in Document
    BY <1>0, <1>2 DEF Remove, Reads, TypeOK
  <2> QED
    BY <1>0, <1>2, <2>1, <2>2, BeginsStep DEF Remove
<1>3. ASSUME NEW p \in Procs, Truncate(p) PROVE IInv'
  <2>1. pc'[p] = "dump" /\ ~detached'[p] /\ \A q \in Procs \ {p} : pc'[q] = pc[q]
    BY <1>0, <1>3 DEF Truncate, TypeOK
  <2>2. Alone'
    BY <1>3, <2>1 DEF IInv, Truncate, Alone, HasItAlone, Running
  <2>3. UnreadableOnlyIfCut'
    BY <2>1 DEF UnreadableOnlyIfCut
  <2>4. BaseIsFile'
    BY <1>3, RegistryAssumption DEF Truncate, BaseIsFile, Unreadable
  <2> QED
    BY <1>0, <2>2, <2>3, <2>4 DEF IInv
<1>4. ASSUME NEW p \in Procs, Dump(p) PROVE IInv'
  <2>1. Alone'
    BY <1>4, EndsAlone DEF Dump, Running
  <2>2. BaseIsFile'
    BY <1>4, RegistryAssumption DEF IInv, Dump, BaseIsFile, TypeOK, Unreadable
  <2>3. CASE ~overlap
    <3>1. file' = doc[p] /\ doc[p] \in Document
      BY <1>0, <1>4, <2>3 DEF IInv, Dump, Alone, HasItAlone, Running, TypeOK
    <3> QED
      BY <1>0, <2>1, <2>2, <3>1, RegistryAssumption DEF IInv, UnreadableOnlyIfCut
  <2>4. CASE overlap
    BY <1>0, <1>4, <2>1, <2>2, <2>4 DEF Dump, IInv, UnreadableOnlyIfCut
  <2> QED
    BY <1>0, <2>3, <2>4 DEF TypeOK
<1>5. ASSUME NEW p \in Procs, BackUp(p) PROVE IInv'
  <2>1. pc'[p] = "swap" /\ \A q \in Procs \ {p} : pc'[q] = pc[q]
    BY <1>0, <1>5 DEF BackUp, BackUpBy, TypeOK
  <2>2. Alone'
    BY <1>5, <2>1 DEF IInv, BaseIsFile, BackUp, BackUpBy, Alone, HasItAlone, Running
  <2> QED
    BY <1>0, <1>5, <2>1, <2>2 DEF IInv, BackUp, BackUpBy, BaseIsFile, UnreadableOnlyIfCut
<1>6. ASSUME NEW p \in Procs, Swap(p) PROVE IInv'
  <2>1. Alone'
    BY <1>6, EndsAlone DEF Swap, Replaces, Running
  <2>2. file' = doc[p] /\ doc[p] \in Document /\ base' = file'
    BY <1>0, <1>6 DEF Swap, Replaces, TypeOK
  <2> QED
    BY <1>0, <2>1, <2>2, RegistryAssumption DEF IInv, BaseIsFile, UnreadableOnlyIfCut
<1>7. ASSUME NEW p \in Procs, Dies(p) PROVE IInv'
  <2>1. Alone'
    BY <1>7, EndsAlone DEF Dies
  <2>2. BaseIsFile'
    BY <1>7, RegistryAssumption DEF IInv, Dies, BaseIsFile, Unreadable
  <2>3. UnreadableOnlyIfCut'
    BY <1>0, <1>7 DEF IInv, Dies, Ends, UnreadableOnlyIfCut, TypeOK
  <2> QED
    BY <1>0, <2>1, <2>2, <2>3 DEF IInv
<1>8. CASE PersonRepairs
  <2>1. file' \in Document \cup {Missing}
    BY <1>0, <1>8 DEF PersonRepairs, TypeOK
  <2> QED
    BY <1>0, <1>8, <2>1, RegistryAssumption
    DEF PersonRepairs, IInv, Alone, Running, BaseIsFile, UnreadableOnlyIfCut
<1>9. CASE UNCHANGED vars
  BY <1>0, <1>9 DEF vars, IInv, Alone, HasItAlone, Running, BaseIsFile, UnreadableOnlyIfCut
<1> QED
  BY <1>1, <1>2, <1>3, <1>4, <1>5, <1>6, <1>7, <1>8, <1>9 DEF Next, Guild

(* The invariant of the registry's writers holds in every behaviour. *)
LEMMA InvAlways == Spec => []IInv
<1>1. Init /\ TypeOK => IInv
  BY RegistryAssumption DEF Init, IInv, BaseIsFile, Alone, Running, UnreadableOnlyIfCut
<1> QED
  BY <1>1, TypeCorrect, InvStep, PTL DEF Spec

(* A registry that does not parse has one of two causes, or is being written. *)
THEOREM UnreadableCauses == Spec => []UnreadableOnlyIfCut
<1>1. IInv => UnreadableOnlyIfCut
  BY DEF IInv
<1> QED
  BY <1>1, InvAlways, PTL

-----------------------------------------------------------------------------
(* The registry changes from one complete document to the next when a run    *)
(* writes what it holds in memory.                                          *)
LEMMA BaseStep ==
  ASSUME IInv, [Next]_vars, ~overlap', edits' = edits, base' # base
  PROVE  \E p \in Procs : base' = doc[p] /\ HasItAlone(p) /\ pc[p] \in {"dump", "swap"}
<1>0. ~overlap /\ edits \in Nat
  BY RegistryAssumption DEF IInv, TypeOK, Next, Guild, Register, Remove, Begins, Truncate, Dump,
    BackUp, BackUpBy, Swap, Replaces, Dies, PersonRepairs, vars
<1>1. ~PersonRepairs
  BY <1>0 DEF PersonRepairs
<1>2. ASSUME NEW p \in Procs, Dump(p) \/ Swap(p)
      PROVE  base' = doc[p] /\ HasItAlone(p) /\ pc[p] \in {"dump", "swap"}
  BY <1>0, <1>2 DEF IInv, Alone, HasItAlone, Running, Dump, Swap, Replaces
<1> QED
  BY <1>1, <1>2 DEF Next, Guild, Register, Remove, Begins, Truncate, BackUp, BackUpBy, Dies, vars

(* Runs that do not overlap leave every other project's entry as it was.    *)
THEOREM EntriesKept == Spec => OthersKept
<1>1. ASSUME IInv, [Next]_vars, ~overlap', edits' = edits, NEW i \in Projects, base'[i] # base[i]
      PROVE  \E p \in Procs : about[p] = i
  BY <1>1, BaseStep DEF HasItAlone
<1>2. IInv /\ [Next]_vars =>
        [~overlap' /\ edits' = edits =>
           \A i \in Projects : base'[i] # base[i] => \E p \in Procs : about[p] = i]_vars
  BY <1>1
<1> QED
  BY <1>2, InvAlways, PTL DEF Spec, OthersKept

(* What a removal takes away is in a backup. *)
THEOREM RemovedKept == Spec => RemovedIsBackedUp
<1>1. ASSUME IInv, [Next]_vars, ~overlap', edits' = edits,
             NEW i \in Projects, base[i] # None, base'[i] = None
      PROVE  \E b \in backups \cap Document : b[i] = base[i]
  <2>1. base' # base
    BY <1>1
  <2>2. PICK p \in Procs : base' = doc[p] /\ HasItAlone(p) /\ pc[p] \in {"dump", "swap"}
    BY <1>1, <2>1, BaseStep
  <2>3. pc[p] = "swap"
    BY <1>1, <2>2 DEF HasItAlone
  <2> QED
    BY <1>1, <2>2, <2>3 DEF HasItAlone, IInv, TypeOK
<1>2. IInv /\ [Next]_vars =>
        [~overlap' /\ edits' = edits =>
           \A i \in Projects : base[i] # None /\ base'[i] = None =>
              \E b \in backups \cap Document : b[i] = base[i]]_vars
  BY <1>1
<1> QED
  BY <1>2, InvAlways, PTL DEF Spec, RemovedIsBackedUp
=============================================================================
