------------------------- MODULE WorktreeSync_proofs -------------------------
(***************************************************************************)
(* What holds of the worktree sync for any worktrees, files and contents,   *)
(* and any number of edits and faults.                                      *)
(***************************************************************************)
EXTENDS WorktreeSync, TLAPS

(* What a run has still to copy is still missing, as far as the person has  *)
(* left it alone: the plan may be old, but only the person makes it wrong.  *)
StillMissing ==
  pc = "copy" => \A f \in left : <<tree, f>> \notin touched =>
                    disk[tree][f] = Absent /\ f \notin tracked[tree]

(* And what git would list of the guild's files is what a run has copied    *)
(* and not yet excluded.                                                    *)
JustCopied ==
  ~failed => \A m \in Shown : pc = "copy" /\ m[1] = tree /\ m[2] \in planned \ left

IInv == TypeOK /\ StillMissing /\ JustCopied

-----------------------------------------------------------------------------
(* A person's step takes what it changes out of made and into touched. *)
LEMMA ActsTyped ==
  ASSUME TypeOK, NEW changed \in SUBSET (Trees \X Files), Acts(changed)
  PROVE  /\ edits' \in Nat /\ touched' \subseteq Trees \X Files /\ made' \subseteq Trees \X Files
         /\ UNCHANGED <<read, pc, outcome, queue, tree, planned, left, failed, faults>>
  BY DEF TypeOK, Acts

(* The states a sync starts from are typed. *)
LEMMA InitTyped == Init => TypeOK
<1> SUFFICES ASSUME Init PROVE TypeOK
  OBVIOUS
<1>1. source \in [Files -> Copy] /\ read \in [Files -> Copy]
  BY DEF Init, Copy
<1>2. hidden \subseteq Files /\ left \subseteq planned /\ planned \subseteq Files
  BY DEF Init
<1>3. pc = "idle" /\ outcome # "running"
  BY DEF Init
<1>4. made \subseteq Trees \X Files /\ touched \subseteq Trees \X Files
  BY DEF Init
<1> QED
  BY <1>1, <1>2, <1>3, <1>4 DEF Init, TypeOK

(* No step leaves a variable out of its type. *)
LEMMA TypeStep == TypeOK /\ [Next]_vars => TypeOK'
<1> SUFFICES ASSUME TypeOK, [Next]_vars PROVE TypeOK'
  OBVIOUS
<1>1. CASE Start
  BY <1>1 DEF Start, StartsAs, TypeOK
<1>2. CASE ExcludeCopied
  BY <1>2 DEF ExcludeCopied, ExcludesAs, TypeOK
<1>3. CASE Finish
  BY <1>3 DEF Finish, TypeOK
<1>4. ASSUME NEW t \in Trees, Plan(t) PROVE TypeOK'
  BY <1>4 DEF Plan, TypeOK
<1>5. ASSUME NEW f \in Files, CopyFile(f) PROVE TypeOK'
  <2>1. source[f] \in Copy /\ tree \in Trees
    BY DEF TypeOK
  <2>2. disk' \in [Trees -> [Files -> Copy \cup {Link}]]
    BY <1>5, <2>1 DEF CopyFile, TypeOK
  <2> QED
    BY <1>5, <2>1, <2>2 DEF CopyFile, TypeOK
<1>6. ASSUME NEW f \in Files, CopyRefused(f) PROVE TypeOK'
  BY <1>6 DEF CopyRefused, TypeOK
<1>7. CASE Dies
  BY <1>7 DEF Dies, TypeOK
<1>8. ASSUME NEW t \in Trees, NEW f \in Files, PersonSaves(t, f) PROVE TypeOK'
  <2>1. PICK v \in Copy : disk' = [disk EXCEPT ![t][f] = v]
    BY <1>8 DEF PersonSaves
  <2>2. disk' \in [Trees -> [Files -> Copy \cup {Link}]]
    BY <2>1 DEF TypeOK
  <2> QED
    BY <1>8, <2>2, ActsTyped DEF PersonSaves, TypeOK
<1>9. ASSUME NEW t \in Trees, NEW f \in Files, PersonStages(t, f) PROVE TypeOK'
  <2>1. tracked' \in [Trees -> SUBSET Files]
    BY <1>9 DEF PersonStages, TypeOK
  <2> QED
    BY <1>9, <2>1, ActsTyped DEF PersonStages, TypeOK
<1>10. ASSUME NEW f \in Files, PersonEditsSource(f) PROVE TypeOK'
  BY <1>10, ActsTyped DEF PersonEditsSource, TypeOK
<1>11. ASSUME NEW f \in Files, PersonExcludes(f) PROVE TypeOK'
  BY <1>11, ActsTyped DEF PersonExcludes, TypeOK
<1>12. CASE UNCHANGED vars
  BY <1>12 DEF vars, TypeOK
<1> QED
  BY <1>1, <1>2, <1>3, <1>4, <1>5, <1>6, <1>7, <1>8, <1>9, <1>10, <1>11, <1>12
  DEF Next, Guild, Person

(* Every variable of the sync keeps its type, and a worktree that is being  *)
(* copied to is one the run has not finished.                               *)
THEOREM TypeCorrect == Spec => []TypeOK
<1> QED
  BY InitTyped, TypeStep, PTL DEF Spec

-----------------------------------------------------------------------------
(* The invariant: nothing but the person makes a plan wrong, and nothing    *)
(* but a failure leaves a copied file without its exclude line.             *)
LEMMA InvStep == IInv /\ [Next]_vars => IInv'
<1> SUFFICES ASSUME IInv, [Next]_vars PROVE IInv'
  OBVIOUS
<1>0. TypeOK /\ TypeOK'
  BY TypeStep DEF IInv
<1>a. Shown \subseteq Trees \X Files
  BY <1>0 DEF Shown, TypeOK
<1>1. CASE Start
  <2>1. JustCopied'
    BY <1>1 DEF IInv, Start, StartsAs, JustCopied, Shown
  <2> QED
    BY <1>0, <1>1, <2>1 DEF IInv, Start, StartsAs, StillMissing
<1>2. CASE ExcludeCopied
  <2>1. JustCopied'
    BY <1>0, <1>2, <1>a DEF IInv, ExcludeCopied, ExcludesAs, JustCopied, Shown, TypeOK
  <2> QED
    BY <1>0, <1>2, <2>1 DEF IInv, ExcludeCopied, ExcludesAs, StillMissing
<1>3. CASE Finish
  <2>1. JustCopied'
    BY <1>3 DEF IInv, Finish, JustCopied, Shown
  <2> QED
    BY <1>0, <1>3, <2>1 DEF IInv, Finish, StillMissing
<1>4. ASSUME NEW t \in Trees, Plan(t) PROVE IInv'
  <2>1. JustCopied'
    BY <1>4 DEF IInv, Plan, JustCopied, Shown
  <2>2. StillMissing'
    BY <1>0, <1>4 DEF IInv, Plan, Candidate, StillMissing
  <2> QED
    BY <1>0, <2>1, <2>2 DEF IInv
<1>5. ASSUME NEW f \in Files, CopyFile(f) PROVE IInv'
  <2>1. \A g \in Files : g # f => disk'[tree][g] = disk[tree][g]
    BY <1>0, <1>5 DEF CopyFile, TypeOK
  <2>2. StillMissing'
    BY <1>0, <1>5, <2>1 DEF IInv, CopyFile, StillMissing, TypeOK
  <2>3. JustCopied'
    BY <1>0, <1>5 DEF IInv, CopyFile, JustCopied, Shown, TypeOK
  <2> QED
    BY <1>0, <2>2, <2>3 DEF IInv
<1>6. ASSUME NEW f \in Files, CopyRefused(f) PROVE IInv'
  BY <1>0, <1>6 DEF IInv, CopyRefused, StillMissing, JustCopied
<1>7. CASE Dies
  BY <1>0, <1>7 DEF IInv, Dies, StillMissing, JustCopied
<1>8. ASSUME NEW changed \in SUBSET (Trees \X Files), Acts(changed),
             \A t \in Trees, f \in Files : <<t, f>> \notin changed =>
                /\ disk'[t][f] = disk[t][f]
                /\ (f \in tracked'[t]) = (f \in tracked[t])
                /\ (f \in hidden') = (f \in hidden)
      PROVE  IInv'
  <2>1. StillMissing'
    BY <1>0, <1>8 DEF IInv, Acts, StillMissing, TypeOK
  <2>2. Shown' \subseteq Shown
    BY <1>0, <1>8 DEF Acts, Shown, TypeOK
  <2>3. JustCopied'
    BY <1>8, <2>2 DEF IInv, Acts, JustCopied
  <2> QED
    BY <1>0, <2>1, <2>3 DEF IInv
<1>9. ASSUME NEW t \in Trees, NEW f \in Files, PersonSaves(t, f) PROVE IInv'
  <2>1. \A u \in Trees, g \in Files : <<u, g>> # <<t, f>> => disk'[u][g] = disk[u][g]
    BY <1>0, <1>9 DEF PersonSaves, TypeOK
  <2> QED
    BY <1>8, <1>9, <2>1 DEF PersonSaves
<1>10. ASSUME NEW t \in Trees, NEW f \in Files, PersonStages(t, f) PROVE IInv'
  <2>1. \A u \in Trees, g \in Files :
          <<u, g>> # <<t, f>> => (g \in tracked'[u]) = (g \in tracked[u])
    BY <1>0, <1>10 DEF PersonStages, TypeOK
  <2> QED
    BY <1>8, <1>10, <2>1 DEF PersonStages
<1>11. ASSUME NEW f \in Files, PersonEditsSource(f) PROVE IInv'
  BY <1>8, <1>11 DEF PersonEditsSource
<1>12. ASSUME NEW f \in Files, PersonExcludes(f) PROVE IInv'
  BY <1>8, <1>12 DEF PersonExcludes
<1>13. CASE UNCHANGED vars
  BY <1>0, <1>13 DEF vars, IInv, StillMissing, JustCopied, Shown
<1> QED
  BY <1>1, <1>2, <1>3, <1>4, <1>5, <1>6, <1>7, <1>9, <1>10, <1>11, <1>12, <1>13
  DEF Next, Guild, Person

(* What every state of the sync satisfies. *)
LEMMA InvAlways == Spec => []IInv
<1>1. Init => StillMissing /\ JustCopied
  BY DEF Init, StillMissing, JustCopied, Shown
<1>2. Init => IInv
  BY InitTyped, <1>1 DEF IInv
<1> QED
  BY <1>2, InvStep, PTL DEF Spec

(* Runs that have never failed show git nothing new except what they have   *)
(* copied to the worktree they are at: the invariant of the worktrees run.  *)
THEOREM ShownOnlyWhileCopying == Spec => []OnlyWhileCopying
<1>1. IInv => OnlyWhileCopying
  BY DEF IInv, JustCopied, OnlyWhileCopying
<1> QED
  BY <1>1, InvAlways, PTL

(* A sync never changes a worktree's file that exists or is tracked, unless *)
(* the person made it so during the run: the action property of the run.    *)
THEOREM NothingOverwritten == Spec => LeftUntouched
<1>1. ASSUME IInv, [Next]_vars, edits' = edits,
             NEW t \in Trees, NEW f \in Files, <<t, f>> \notin touched,
             disk[t][f] # Absent \/ f \in tracked[t]
      PROVE  disk'[t][f] = disk[t][f]
  <2>1. CASE UNCHANGED disk
    BY <2>1
  <2>2. ASSUME NEW g \in Files, CopyFile(g) PROVE disk'[t][f] = disk[t][f]
    <3>1. <<t, f>> # <<tree, g>>
      BY <1>1, <2>2 DEF IInv, CopyFile, StillMissing
    <3> QED
      BY <2>2, <3>1 DEF IInv, CopyFile, TypeOK
  <2>3. ~Person
    BY <1>1 DEF IInv, TypeOK, Person, PersonSaves, PersonStages, PersonEditsSource,
      PersonExcludes, Acts
  <2> QED
    BY <1>1, <2>1, <2>2, <2>3 DEF Next, Guild, Start, StartsAs, ExcludeCopied, ExcludesAs,
      Finish, Plan, CopyRefused, Dies, vars
<1>2. IInv /\ [Next]_vars =>
        [edits' = edits =>
           \A t \in Trees, f \in Files :
             <<t, f>> \notin touched /\ (disk[t][f] # Absent \/ f \in tracked[t])
               => disk'[t][f] = disk[t][f]]_vars
  BY <1>1
<1> QED
  BY <1>2, InvAlways, PTL DEF Spec, LeftUntouched
=============================================================================
