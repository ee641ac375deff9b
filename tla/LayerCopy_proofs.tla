--------------------------- MODULE LayerCopy_proofs ---------------------------
(***************************************************************************)
(* What holds of the copy-in from the config repo for any paths, contents,  *)
(* filesystem and bounds.                                                   *)
(***************************************************************************)
EXTENDS LayerCopy, TLAPS

(* What a run checked when it started is still so, of every path the person *)
(* has left alone since: its content is clean, and nothing that is tracked  *)
(* has its name, in any spelling.                                           *)
Checked ==
  pc # "idle" => \A p \in Layer :
    /\ p \notin touched => Clean(p)
    /\ \A q \in Paths \ touched : Fold[q] = Fold[p] => ~Tracked(q)

(* Nothing is copied before the layer is excluded. *)
Hidden == pc = "copy" => excluded

IInv == TypeOK /\ Checked /\ Hidden /\ ReportMatchesDisk

-----------------------------------------------------------------------------
(* All a step of a run changes on disk: the place of one file it has still  *)
(* to do, which it makes the config repo's or cuts short.                   *)
Writes(p, v) ==
  /\ pc = "copy" /\ result[p] = "todo" /\ ~Kept(p)
  /\ disk' = [disk EXCEPT ![Place[p]] = v]

(* Every step of the copy-in keeps the invariant. *)
LEMMA GuildStep ==
  ASSUME Guild
  PROVE  /\ UNCHANGED <<config, head, index, edits>>
         /\ disk' = disk \/ \E p \in Layer : \E v \in {config[p], Torn} : Writes(p, v)
         /\ excluded => excluded'
<1>1. ASSUME NEW over \in BOOLEAN, Start(over)
      PROVE  UNCHANGED <<config, head, index, edits, disk, excluded>>
  BY <1>1 DEF Start, Starts
<1>2. CASE ExcludeLayer
  <2>1. UNCHANGED <<config, head, index, edits, disk>>
    BY <1>2 DEF ExcludeLayer, ExcludeOr
  <2>2. excluded => excluded'
    BY <1>2, Zenon DEF ExcludeLayer, ExcludeOr, AppendBlock, RefuseBlock
  <2> QED
    BY <2>1, <2>2
<1>3. CASE Finish
  BY <1>3 DEF Finish
<1>4. CASE Dies
  <2>1. UNCHANGED <<config, head, index, edits>>
    BY <1>4, Zenon DEF Dies, Stops
  <2>2. disk' = disk \/ \E p \in Layer : CutShort(p)
    BY <1>4, Zenon DEF Dies
  <2>3. excluded => excluded'
    BY <1>4, Zenon DEF Dies, TearBlock
  <2> QED
    BY <2>1, <2>2, <2>3 DEF CutShort, Writes
<1>5. ASSUME NEW p \in Layer, Skip(p)
      PROVE  UNCHANGED <<config, head, index, edits, disk, excluded>>
  BY <1>5 DEF Skip
<1>6. ASSUME NEW p \in Layer, Copy(p)
      PROVE  UNCHANGED <<config, head, index, edits, excluded>> /\ Writes(p, config[p])
  BY <1>6 DEF Copy, Writes
<1>7. ASSUME NEW p \in Layer, CopyFails(p)
      PROVE  /\ UNCHANGED <<config, head, index, edits, excluded>>
             /\ disk' = disk \/ Writes(p, Torn)
  BY <1>7 DEF CopyFails, Stops, CutShort, Writes
<1> QED
  BY <1>1, <1>2, <1>3, <1>4, <1>5, <1>6, <1>7 DEF Guild

(* What a person's step keeps: the run's own state, and all of what they    *)
(* have not touched by the end of it.                                       *)
PersonKeeps ==
  /\ UNCHANGED <<pc, overwrite, result, outcome, faults>>
  /\ touched \subseteq touched' /\ touched' \subseteq Paths
  /\ edits' = edits + 1 /\ edits < MaxEdits
  /\ pc # "idle" => excluded' = excluded
  /\ \A p \in Layer \ touched' :
        config'[p] = config[p] /\ disk'[Place[p]] = disk[Place[p]]
  /\ \A q \in Paths \ touched' : (q \in head') = (q \in head) /\ index'[q] = index[q]

(* What the person does in the meantime keeps its part of the invariant. *)
LEMMA PersonStep == ASSUME TypeOK, Person PROVE PersonKeeps
<1> USE DEF TypeOK, Acts, PersonKeeps
<1>0. Layer \subseteq Paths
  BY CopyAssumption
<1>1. CASE PersonCommits
  <2>1. \A q \in Paths \ touched' : (q \in head') = (q \in head)
    BY <1>1 DEF PersonCommits
  <2> QED
    BY <1>1, <2>1 DEF PersonCommits
<1>2. CASE PersonRepairs
  BY <1>2 DEF PersonRepairs
<1>3. ASSUME NEW p \in Paths, PersonSaves(p) PROVE PersonKeeps
  <2>1. \A q \in Layer \ touched' : disk'[Place[q]] = disk[Place[q]]
    BY <1>0, <1>3 DEF PersonSaves, SamePlace, Places
  <2> QED
    BY <1>3, <2>1 DEF PersonSaves, SamePlace
<1>4. ASSUME NEW p \in Paths, PersonStages(p) PROVE PersonKeeps
  BY <1>4 DEF PersonStages
<1>5. ASSUME NEW p \in Layer, PersonConfigures(p) PROVE PersonKeeps
  BY <1>0, <1>5 DEF PersonConfigures
<1> QED
  BY <1>1, <1>2, <1>3, <1>4, <1>5 DEF Person

-----------------------------------------------------------------------------
(* No step leaves a variable out of its type. *)
LEMMA TypeStep == TypeOK /\ [Next]_vars => TypeOK'
<1> SUFFICES ASSUME TypeOK, [Next]_vars PROVE TypeOK'
  OBVIOUS
<1>0. Layer \subseteq Paths /\ MaxEdits \in Nat /\ MaxFaults \in Nat /\ Bad \subseteq Versions
  BY CopyAssumption
<1> USE DEF TypeOK
<1>1. ASSUME NEW over \in BOOLEAN, Start(over) PROVE TypeOK'
  BY <1>1 DEF Start, Starts
<1>2. CASE ExcludeLayer
  BY <1>2 DEF ExcludeLayer, ExcludeOr, AppendBlock, RefuseBlock
<1>3. CASE Finish
  BY <1>3 DEF Finish
<1>4. ASSUME NEW p \in Layer, NEW v \in {config[p], Torn}, Writes(p, v)
      PROVE  disk' \in [Places -> Versions \cup {Absent, Link, Torn}]
  BY <1>0, <1>4 DEF Writes, Places
<1>5. ASSUME NEW p \in Layer, Skip(p) PROVE TypeOK'
  BY <1>5 DEF Skip
<1>6. ASSUME NEW p \in Layer, Copy(p) PROVE TypeOK'
  <2>1. disk' \in [Places -> Versions \cup {Absent, Link, Torn}]
    BY <1>4, <1>6 DEF Copy, Writes
  <2> QED
    BY <1>6, <2>1 DEF Copy
<1>7. ASSUME NEW p \in Layer, CopyFails(p) PROVE TypeOK'
  <2>1. disk' \in [Places -> Versions \cup {Absent, Link, Torn}]
    BY <1>4, <1>7 DEF CopyFails, CutShort, Writes
  <2> QED
    BY <1>0, <1>7, <2>1 DEF CopyFails, Stops, CutShort
<1>8. CASE Dies
  <2>1. disk' \in [Places -> Versions \cup {Absent, Link, Torn}]
    BY <1>4, <1>8, GuildStep DEF Dies, CutShort, Writes
  <2>2. excluded' \in BOOLEAN /\ broken' \in BOOLEAN
    BY <1>8 DEF Dies, TearBlock
  <2> QED
    BY <1>0, <1>8, <2>1, <2>2 DEF Dies, Stops
<1>9. CASE Person
  <2>1. edits' \in 0..MaxEdits
    BY <1>0, <1>9, PersonStep DEF PersonKeeps
  <2>2. CASE PersonCommits
    BY <1>9, <2>1, <2>2, PersonStep DEF PersonCommits, PersonKeeps
  <2>3. CASE PersonRepairs
    BY <1>9, <2>1, <2>3, PersonStep DEF PersonRepairs, PersonKeeps, RepairBlock
  <2>4. ASSUME NEW p \in Paths, PersonSaves(p) PROVE TypeOK'
    <3>1. PICK v \in Versions \cup {Absent} : disk' = [disk EXCEPT ![Place[p]] = v]
      BY <2>4 DEF PersonSaves
    <3>2. disk' \in [Places -> Versions \cup {Absent, Link, Torn}]
      BY <3>1 DEF Places
    <3> QED
      BY <1>9, <2>1, <2>4, <3>2, PersonStep DEF PersonSaves, PersonKeeps
  <2>5. ASSUME NEW p \in Paths, PersonStages(p) PROVE TypeOK'
    BY <1>9, <2>1, <2>5, PersonStep DEF PersonStages, PersonKeeps
  <2>6. ASSUME NEW p \in Layer, PersonConfigures(p) PROVE TypeOK'
    BY <1>9, <2>1, <2>6, PersonStep DEF PersonConfigures, PersonKeeps
  <2> QED
    BY <1>9, <2>2, <2>3, <2>4, <2>5, <2>6 DEF Person
<1>10. CASE UNCHANGED vars
  BY <1>10 DEF vars
<1> QED
  BY <1>1, <1>2, <1>3, <1>5, <1>6, <1>7, <1>8, <1>9, <1>10 DEF Next, Guild

(* Every variable of the copy-in keeps its type, and a run has an outcome   *)
(* exactly when it has ended.                                               *)
THEOREM TypeCorrect == Spec => []TypeOK
<1>1. Init => TypeOK
  <2> SUFFICES ASSUME Init PROVE TypeOK
    OBVIOUS
  <2>1. disk \in [Places -> Versions \cup {Absent, Link, Torn}]
    BY CopyAssumption DEF Init
  <2>2. edits \in 0..MaxEdits /\ faults \in 0..MaxFaults
    BY CopyAssumption DEF Init
  <2> QED
    BY <2>1, <2>2 DEF Init, TypeOK
<1> QED
  BY <1>1, TypeStep, PTL DEF Spec

-----------------------------------------------------------------------------
(* Two layer files are two places, so a write is seen at one of them only.  *)
LEMMA OnePlace ==
  ASSUME TypeOK, NEW p \in Layer, NEW v, Writes(p, v)
  PROVE  /\ disk'[Place[p]] = v
         /\ \A q \in Layer \ {p} : disk'[Place[q]] = disk[Place[q]]
<1>1. Place[p] \in Places /\ \A q \in Layer : Place[q] \in Places
  BY CopyAssumption DEF Places
<1>2. \A q \in Layer \ {p} : Place[q] # Place[p]
  BY CopyAssumption
<1> QED
  BY <1>1, <1>2 DEF TypeOK, Writes

(* A step that keeps what the report is about, but for files the person     *)
(* has touched, keeps the report true.                                      *)
LEMMA ReportKept ==
  ASSUME ReportMatchesDisk, touched \subseteq touched',
         \A p \in Layer \ touched' :
            /\ config'[p] = config[p]
            /\ \/ result'[p] = result[p] /\ disk'[Place[p]] = disk[Place[p]]
               \/ result'[p] = "todo"
               \/ result'[p] \in {"copied", "same"} /\ disk'[Place[p]] = config[p]
               \/ result'[p] = "drift" /\ disk'[Place[p]] # config[p]
  PROVE  ReportMatchesDisk'
  BY DEF ReportMatchesDisk

(* The invariant: a check is undone by the person only, and a report by the *)
(* next run only.                                                           *)
LEMMA InvStep == IInv /\ [Next]_vars => IInv'
<1> SUFFICES ASSUME IInv, [Next]_vars PROVE IInv'
  OBVIOUS
<1>0. TypeOK /\ TypeOK'
  BY TypeStep DEF IInv
<1> USE DEF IInv
<1>1. ASSUME NEW over \in BOOLEAN, Start(over) PROVE IInv'
  <2>1. Checked'
    BY <1>1 DEF Start, Starts, Checked, Clean, Conflicts, Tracked
  <2>2. ReportMatchesDisk'
    BY <1>1 DEF Start, Starts, ReportMatchesDisk
  <2> QED
    BY <1>0, <1>1, <2>1, <2>2 DEF Start, Starts, Hidden
<1>2. CASE ExcludeLayer
  <2>1. Checked'
    BY <1>2 DEF ExcludeLayer, ExcludeOr, Checked, Clean, Tracked
  <2>2. ReportMatchesDisk'
    BY <1>2 DEF ExcludeLayer, ExcludeOr, ReportMatchesDisk
  <2>3. Hidden'
    BY <1>2 DEF ExcludeLayer, ExcludeOr, AppendBlock, RefuseBlock, Hidden
  <2> QED
    BY <1>0, <2>1, <2>2, <2>3
<1>3. CASE Finish
  BY <1>0, <1>3 DEF Finish, Checked, Hidden, ReportMatchesDisk
<1>4. ASSUME UNCHANGED <<config, touched, result>>, pc' = "idle",
             disk' = disk \/ \E p \in Layer : \E v \in {config[p], Torn} : Writes(p, v)
      PROVE  IInv'
  <2>1. \A q \in Layer : result[q] # "todo" => disk'[Place[q]] = disk[Place[q]]
    BY <1>0, <1>4, OnePlace DEF Writes
  <2>2. ReportMatchesDisk'
    BY <1>4, <2>1 DEF ReportMatchesDisk
  <2> QED
    BY <1>0, <1>4, <2>2 DEF Checked, Hidden
<1>5. ASSUME NEW p \in Layer, Skip(p) PROVE IInv'
  <2>1. result'[p] = IF Identical(p) THEN "same" ELSE "drift"
    BY <1>0, <1>5 DEF Skip, TypeOK
  <2>2. \A q \in Layer \ {p} : result'[q] = result[q]
    BY <1>0, <1>5 DEF Skip, TypeOK
  <2>3. ReportMatchesDisk'
    BY <1>5, <2>1, <2>2, ReportKept DEF Skip, Identical
  <2> QED
    BY <1>0, <1>5, <2>3 DEF Skip, Checked, Hidden, Clean, Tracked
<1>6. ASSUME NEW p \in Layer, Copy(p) PROVE IInv'
  <2>1. Writes(p, config[p])
    BY <1>6 DEF Copy, Writes
  <2>2. result'[p] = "copied" /\ \A q \in Layer \ {p} : result'[q] = result[q]
    BY <1>0, <1>6 DEF Copy, TypeOK
  <2>3. /\ disk'[Place[p]] = config[p]
        /\ \A q \in Layer \ {p} : disk'[Place[q]] = disk[Place[q]]
    BY <1>0, <2>1, OnePlace
  <2>4. ReportMatchesDisk'
    BY <1>6, <2>2, <2>3, ReportKept DEF Copy
  <2> QED
    BY <1>0, <1>6, <2>4 DEF Copy, Checked, Hidden, Clean, Tracked
<1>7. ASSUME NEW p \in Layer, CopyFails(p) PROVE IInv'
  BY <1>4, <1>7 DEF CopyFails, Stops, CutShort, Writes
<1>8. CASE Dies
  BY <1>4, <1>8, GuildStep DEF Dies, Stops, Guild
<1>9. CASE Person
  <2>1. PersonKeeps
    BY <1>0, <1>9, PersonStep
  <2>2. Checked'
    BY <2>1 DEF PersonKeeps, Checked, Clean, Tracked
  <2>3. ReportMatchesDisk'
    BY <2>1, ReportKept DEF PersonKeeps
  <2> QED
    BY <1>0, <2>1, <2>2, <2>3 DEF PersonKeeps, Hidden
<1>10. CASE UNCHANGED vars
  BY <1>0, <1>10 DEF vars, Checked, Hidden, ReportMatchesDisk, Clean, Tracked
<1> QED
  BY <1>1, <1>2, <1>3, <1>5, <1>6, <1>7, <1>8, <1>9, <1>10 DEF Next, Guild

(* The invariant of the copy-in holds in every behaviour. *)
LEMMA InvAlways == Spec => []IInv
<1>1. Init => Checked /\ Hidden /\ ReportMatchesDisk
  BY DEF Init, Checked, Hidden, ReportMatchesDisk
<1>2. Init /\ TypeOK => IInv
  BY <1>1 DEF IInv
<1> QED
  BY <1>2, TypeCorrect, InvStep, PTL DEF Spec

(* What a report calls copied or matching is what the config repo has, and  *)
(* what it calls different differs, a run that failed half way included.    *)
THEOREM ReportTrue == Spec => []ReportMatchesDisk
<1>1. IInv => ReportMatchesDisk
  BY DEF IInv
<1> QED
  BY <1>1, InvAlways, PTL

-----------------------------------------------------------------------------
(* A step that a person did not take is a step of a run, or none. *)
LEMMA NotThePerson ==
  ASSUME TypeOK, [Next]_vars, edits' = edits
  PROVE  Guild \/ UNCHANGED vars
<1>1. edits \in Nat
  BY CopyAssumption DEF TypeOK
<1>2. CASE Person
  BY <1>1, <1>2, PersonStep DEF PersonKeeps
<1> QED
  BY <1>2 DEF Next

(* The files a step of a run may change, and to what. *)
LEMMA DiskStep ==
  ASSUME TypeOK, [Next]_vars, edits' = edits, disk' # disk
  PROVE  \E p \in Layer : \E v \in {config[p], Torn} : Writes(p, v)
  BY NotThePerson, GuildStep DEF vars

(* No run changes the file a tracked path names, in any spelling.           *)
THEOREM TrackedSafe == Spec => TrackedKept
<1>1. ASSUME IInv, [Next]_vars, edits' = edits, NEW q \in Paths \ touched,
             q \in head \/ index[q] = "content"
      PROVE  disk'[Place[q]] = disk[Place[q]]
  <2>1. ASSUME NEW p \in Layer, NEW v, Writes(p, v) PROVE disk'[Place[q]] = disk[Place[q]]
    <3>1. Fold[q] # Fold[p]
      BY <1>1, <2>1 DEF IInv, Writes, Checked, Tracked
    <3>2. Place[q] # Place[p]
      BY <3>1, CopyAssumption
    <3> QED
      BY <1>1, <2>1, <3>2 DEF IInv, TypeOK, Writes, Places
  <2> QED
    BY <1>1, <2>1, DiskStep DEF IInv
<1>2. IInv /\ [Next]_vars =>
        [edits' = edits =>
           \A q \in Paths \ touched :
              q \in head \/ index[q] = "content" => disk'[Place[q]] = disk[Place[q]]]_vars
  BY <1>1
<1> QED
  BY <1>2, InvAlways, PTL DEF Spec, TrackedKept

(* Without --overwrite-ai-layer no step of a run changes a file that exists. *)
THEOREM ExistingSafe == Spec => ExistingKept
<1>1. ASSUME IInv, [Next]_vars, edits' = edits, ~overwrite, NEW q \in Layer, OnDisk(q)
      PROVE  disk'[Place[q]] = disk[Place[q]]
  <2>1. ASSUME NEW p \in Layer, NEW v, Writes(p, v) PROVE disk'[Place[q]] = disk[Place[q]]
    <3>1. q # p
      BY <1>1, <2>1 DEF Writes, Kept
    <3> QED
      BY <1>1, <2>1, <3>1, OnePlace DEF IInv
  <2> QED
    BY <1>1, <2>1, DiskStep DEF IInv
<1>2. IInv /\ [Next]_vars =>
        [edits' = edits /\ ~overwrite =>
           \A p \in Layer : OnDisk(p) => disk'[Place[p]] = disk[Place[p]]]_vars
  BY <1>1
<1> QED
  BY <1>2, InvAlways, PTL DEF Spec, ExistingKept

(* What the scan refuses never reaches the project. *)
THEOREM ScannedOnly == Spec => OnlyScanned
<1>1. ASSUME IInv, [Next]_vars, edits' = edits, NEW q \in Layer \ touched,
             disk'[Place[q]] # disk[Place[q]]
      PROVE  disk'[Place[q]] \notin Bad
  <2>1. ASSUME NEW p \in Layer, NEW v \in {config[p], Torn}, Writes(p, v)
        PROVE  disk'[Place[q]] \notin Bad
    <3>1. q = p /\ disk'[Place[q]] = v
      BY <1>1, <2>1, OnePlace DEF IInv
    <3>2. config[q] \notin Bad
      BY <1>1, <2>1 DEF IInv, Writes, Checked, Clean
    <3> QED
      BY <3>1, <3>2, CopyAssumption
  <2> QED
    BY <1>1, <2>1, DiskStep DEF IInv
<1>2. IInv /\ [Next]_vars =>
        [edits' = edits =>
           \A p \in Layer \ touched :
              disk'[Place[p]] # disk[Place[p]] => disk'[Place[p]] \notin Bad]_vars
  BY <1>1
<1> QED
  BY <1>2, InvAlways, PTL DEF Spec, OnlyScanned

-----------------------------------------------------------------------------
(* What git makes of a layer path, one case at a time. *)
Known(p) == p \in head \/ index[p] # "none"
StatusCases == \A p \in Layer :
  /\ Known(p) => status[p] = "tracked"
  /\ ~Known(p) /\ ~OnDisk(p) => status[p] = "absent"
  /\ ~Known(p) /\ OnDisk(p) /\ Covers(p) => status[p] = "hidden"
  /\ ~Known(p) /\ OnDisk(p) /\ ~Covers(p) => status[p] = "visible"
StatusTyped == status \in [Layer -> P!Status]

(* Before a step, both hold by the definition of status. *)
LEMMA StatusOf == StatusCases /\ StatusTyped
<1>1. StatusCases
  BY Zenon DEF StatusCases, Known, status
<1>2. \A p \in Layer : status[p] \in P!Status
  BY Zenon DEF status, P!Status
<1> QED
  BY <1>1, <1>2, Zenon DEF status, StatusTyped

(* After a step, too. *)
LEMMA StatusOfNext == StatusCases' /\ StatusTyped'
<1>1. StatusCases'
  BY Zenon DEF StatusCases, Known, status
<1>2. \A p \in Layer : status'[p] \in P!Status
  BY Zenon DEF status, P!Status
<1> QED
  BY <1>1, <1>2, Zenon DEF status, StatusTyped

(* A step of a run shows git no new file: what it writes is excluded. *)
LEMMA GuildPromise ==
  ASSUME IInv, Guild, ~Nested
  PROVE  P!Guild
<1>1. StatusCases /\ StatusCases' /\ StatusTyped'
  BY StatusOf, StatusOfNext
<1>2. /\ UNCHANGED <<config, head, index, edits>>
      /\ disk' = disk \/ \E p \in Layer : \E v \in {config[p], Torn} : Writes(p, v)
      /\ excluded => excluded'
  BY GuildStep
<1> SUFFICES ASSUME NEW f \in Layer \ touched PROVE P!MayBecome(status[f], status'[f])
  BY <1>1, <1>2 DEF P!Guild, StatusTyped
<1>3. Known(f)' = Known(f)
  BY <1>2 DEF Known
<1>4. Covers(f) => Covers(f)'
  BY <1>2 DEF Covers
<1>5. CASE OnDisk(f)' = OnDisk(f)
  BY <1>1, <1>3, <1>4, <1>5, Zenon DEF StatusCases, P!MayBecome
<1>6. CASE Covers(f)' /\ OnDisk(f)'
  BY <1>1, <1>3, <1>6, Zenon DEF StatusCases, P!MayBecome
<1>7. CASE disk' = disk
  BY <1>5, <1>7 DEF OnDisk
<1>8. ASSUME NEW p \in Layer, NEW v \in {config[p], Torn}, Writes(p, v)
      PROVE  P!MayBecome(status[f], status'[f])
  <2>1. CASE p = f
    <3>1. OnDisk(f)'
      BY <1>8, <2>1, OnePlace, CopyAssumption DEF IInv, TypeOK, OnDisk
    <3>2. Covers(f)'
      BY <1>2, <1>8 DEF IInv, Hidden, Writes, Covers
    <3> QED
      BY <1>6, <3>1, <3>2
  <2>2. CASE p # f
    <3>1. disk'[Place[f]] = disk[Place[f]]
      BY <1>8, <2>2, OnePlace DEF IInv
    <3> QED
      BY <1>5, <3>1 DEF OnDisk
  <2> QED
    BY <2>1, <2>2
<1> QED
  BY <1>2, <1>7, <1>8

(* A project at the root of its repository: a copy-in, whole or cut short,  *)
(* with any number of files, edits and faults, implements the promise.      *)
THEOREM PromiseKept ==
  ASSUME ~Nested
  PROVE  Spec => KeepsPromise
<1>1. Init => P!Init
  BY StatusOf DEF Init, P!Init, StatusTyped
<1>2. IInv /\ [Next]_vars => [P!Guild \/ P!Person]_<<status, edits, touched>>
  <2>1. UNCHANGED vars => UNCHANGED <<status, edits, touched>>
    BY DEF vars, status, OnDisk, Covers
  <2>2. IInv /\ Person => P!Person
    BY PersonStep, StatusOfNext DEF IInv, PersonKeeps, P!Person, StatusTyped
  <2>3. IInv /\ Guild => P!Guild
    BY GuildPromise
  <2> QED
    BY <2>1, <2>2, <2>3 DEF Next
<1> QED
  BY <1>1, <1>2, InvAlways, PTL DEF Spec, KeepsPromise, P!Promise
=============================================================================
