--------------------------- MODULE ExcludeFile_proofs ---------------------------
(****************************************************************************)
(* Proofs about ExcludeFile, for any number of writers, calls and edits and *)
(* any list of patterns.  What the scan and the loop over the patterns      *)
(* compute is defined by recursion, so the first part shows that such       *)
(* functions exist and reasons about them by least elements; the second     *)
(* says what an append does to the lines; the third is the inductive        *)
(* invariant and what follows from it.                                      *)
(****************************************************************************)
EXTENDS ExcludeFile, SequenceTheorems, FiniteSetTheorems, WellFoundedInduction, TLAPS

(* A set of naturals has a least element: what a proof by induction needs.   *)
LEMMA LeastNat ==
  ASSUME NEW T, T \subseteq Nat, T # {}
  PROVE  \E m \in T : \A n \in T : m <= n
<1>1. \E m \in T : \A n \in T : <<n, m>> \notin OpToRel(<, Nat)
  BY NatLessThanWellFounded, WFMin
<1>2. \A m, n \in Nat : n < m => <<n, m>> \in OpToRel(<, Nat)
  BY DEF OpToRel
<1>3. PICK m \in T : \A n \in T : ~(n < m)
  BY <1>1, <1>2
<1>4. QED
  BY <1>3

(* f is the function on 0..m that a first value and a step define, the step  *)
(* given as a function of the index and the value before it.                 *)
Recursion(f, m, first, step) ==
  f = [n \in 0 .. m |-> IF n = 0 THEN first ELSE step[n][f[n-1]]]

(* There is one.                                                             *)
LEMMA RecursionExists ==
  ASSUME NEW first, NEW step, NEW m \in Nat
  PROVE  \E f : Recursion(f, m, first, step)
<1> DEFINE Lacking == {n \in Nat : ~ \E f : Recursion(f, n, first, step)}
<1> SUFFICES Lacking = {}
  OBVIOUS
<1>1. SUFFICES ASSUME NEW n \in Lacking, \A k \in Lacking : n <= k PROVE FALSE
  <2>1. Lacking \subseteq Nat
    OBVIOUS
  <2>2. QED
    BY <2>1, LeastNat
<1>2. CASE n = 0
  <2> DEFINE f == [k \in 0 .. 0 |-> first]
  <2>1. Recursion(f, 0, first, step)
    BY DEF Recursion
  <2>2. QED
    BY <1>1, <1>2, <2>1
<1>3. CASE n # 0
  <2>1. n - 1 \in Nat /\ n - 1 \notin Lacking
    BY <1>1, <1>3
  <2>2. PICK g : Recursion(g, n - 1, first, step)
    BY <2>1
  <2> DEFINE last == step[n][g[n-1]]
             f == [k \in 0 .. n |-> IF k = n THEN last ELSE g[k]]
             rhs == [k \in 0 .. n |-> IF k = 0 THEN first ELSE step[k][f[k-1]]]
  <2>3. ASSUME NEW k \in 0 .. n
        PROVE  f[k] = rhs[k]
    <3>1. CASE k = n
      BY <1>3, <3>1, <2>1
    <3>2. CASE k # n
      <4>1. k \in 0 .. n - 1 /\ f[k] = g[k] /\ (k # 0 => f[k-1] = g[k-1])
        BY <3>2, <2>1
      <4>2. g[k] = IF k = 0 THEN first ELSE step[k][g[k-1]]
        BY <2>2, <4>1 DEF Recursion
      <4>3. QED
        BY <4>1, <4>2
    <3>3. QED
      BY <3>1, <3>2
  <2>4. f = rhs
    <3> HIDE DEF last
    <3>1. QED
      BY <2>3
  <2>5. QED
    BY <1>1, <2>4 DEF Recursion
<1>4. QED
  BY <1>2, <1>3

-----------------------------------------------------------------------------
States == {"closed", "open", "malformed"}

(* The pass of _validate_marker_lines, one line at a time. *)
LEMMA VerdictWalk ==
  ASSUME NEW text \in Seq(Line)
  PROVE  \E state \in [0 .. Len(text) -> States] :
            /\ state[0] = "closed"
            /\ \A n \in 1 .. Len(text) : state[n] = Turned(state[n-1], text[n])
            /\ Verdict(text) = state[Len(text)]
<1> DEFINE len == Len(text)
           step == [n \in 1 .. len |-> [x \in States |-> Turned(x, text[n])]]
           Walk(f) == f = [n \in 0 .. len |-> IF n = 0 THEN "closed" ELSE Turned(f[n-1], text[n])]
<1>1. len \in Nat
  BY LenProperties
<1>2. PICK f : Recursion(f, len, "closed", step)
  BY <1>1, RecursionExists
<1> HIDE DEF len
<1>3. ASSUME NEW g, Recursion(g, len, "closed", step) \/ Walk(g)
      PROVE  \A n \in 0 .. len : g[n] \in States
  <2> DEFINE Bad == {n \in Nat : n <= len /\ g[n] \notin States}
  <2> SUFFICES Bad = {}
    BY <1>1
  <2>1. SUFFICES ASSUME NEW n \in Bad, \A k \in Bad : n <= k PROVE FALSE
    <3>1. Bad \subseteq Nat
      OBVIOUS
    <3>2. QED
      BY <3>1, LeastNat
  <2>2. n # 0
    <3>1. 0 \in 0 .. len
      BY <1>1
    <3>2. g[0] = "closed"
      BY <1>3, <3>1 DEF Recursion
    <3>3. QED
      BY <2>1, <3>2 DEF States
  <2>3. n \in 1 .. len /\ n \in 0 .. len /\ n - 1 \in Nat /\ n - 1 <= len
    BY <1>1, <2>1, <2>2
  <2>4. n - 1 \notin Bad
    BY <2>1, <2>3
  <2>5. g[n-1] \in States
    BY <2>3, <2>4
  <2>6. Turned(g[n-1], text[n]) \in States
    BY <2>5 DEF Turned, States
  <2>7. g[n] = step[n][g[n-1]] \/ g[n] = Turned(g[n-1], text[n])
    BY <1>3, <2>2, <2>3 DEF Recursion
  <2>8. step[n][g[n-1]] = Turned(g[n-1], text[n])
    BY <2>3, <2>5
  <2>9. QED
    BY <2>1, <2>6, <2>7, <2>8
<1>4. Walk(f)
  <2>1. ASSUME NEW n \in 0 .. len, n # 0
        PROVE  step[n][f[n-1]] = Turned(f[n-1], text[n])
    <3>1. n \in 1 .. len /\ n - 1 \in 0 .. len
      BY <1>1, <2>1
    <3>2. f[n-1] \in States
      BY <1>2, <1>3, <3>1
    <3>3. QED
      BY <3>1, <3>2
  <2> HIDE DEF step
  <2>2. QED
    BY <1>2, <2>1 DEF Recursion
<1> DEFINE state == CHOOSE g : Walk(g)
<1>5. Walk(state)
  BY <1>4
<1>6. Verdict(text) = state[len]
  BY DEF Verdict, len
<1>7. \A n \in 0 .. len : state[n] \in States
  BY <1>3, <1>5
<1> HIDE DEF state, step
<1>8. state \in [0 .. len -> States]
  BY <1>5, <1>7
<1>9. state[0] = "closed"
  BY <1>1, <1>5
<1>10. \A n \in 1 .. len : state[n] = Turned(state[n-1], text[n])
  <2>1. \A n \in 1 .. len : n \in 0 .. len /\ n # 0
    BY <1>1
  <2>2. QED
    BY <1>5, <2>1
<1>11. QED
  BY <1>6, <1>8, <1>9, <1>10 DEF len
-----------------------------------------------------------------------------
(* The first n lines are well formed; or they are but for one block that has *)
(* been opened and not closed.                                               *)
ClosedAt(text, n) ==
  \A i \in 1 .. n :
    /\ text[i] = START =>
         \E j \in 1 .. n :
            j > i /\ text[j] = END /\ \A k \in i+1 .. j-1 : ~MarkerAt(text, k)
    /\ text[i] = END =>
         \E j \in 1 .. n :
            j < i /\ text[j] = START /\ \A k \in j+1 .. i-1 : ~MarkerAt(text, k)
OpenAt(text, n) ==
  \E i \in 1 .. n :
    /\ text[i] = START /\ ClosedAt(text, i - 1)
    /\ \A k \in i+1 .. n : ~MarkerAt(text, k)

(* One line moves the two as Turned moves the state. *)
LEMMA ClosedStep ==
  ASSUME NEW text, NEW n \in Nat, n # 0
  PROVE  ClosedAt(text, n) <=>
           \/ text[n] \notin {START, END} /\ ClosedAt(text, n - 1)
           \/ text[n] = END /\ OpenAt(text, n - 1)
<1>1. ASSUME ~MarkerAt(text, n), ClosedAt(text, n) PROVE ClosedAt(text, n - 1)
  <2> SUFFICES ASSUME NEW i \in 1 .. n - 1
               PROVE  /\ text[i] = START => \E j \in 1 .. n - 1 :
                           j > i /\ text[j] = END /\ \A k \in i+1 .. j-1 : ~MarkerAt(text, k)
                      /\ text[i] = END => \E j \in 1 .. n - 1 :
                           j < i /\ text[j] = START /\ \A k \in j+1 .. i-1 : ~MarkerAt(text, k)
    BY DEF ClosedAt
  <2>1. i \in 1 .. n
    OBVIOUS
  <2>2. \A j \in 1 .. n : text[j] \in {START, END} => j \in 1 .. n - 1
    BY <1>1 DEF MarkerAt
  <2>3. QED
    BY <1>1, <2>1, <2>2 DEF ClosedAt
<1>2. ASSUME ~MarkerAt(text, n), ClosedAt(text, n - 1) PROVE ClosedAt(text, n)
  <2> SUFFICES ASSUME NEW i \in 1 .. n, text[i] \in {START, END}
               PROVE  /\ text[i] = START => \E j \in 1 .. n :
                           j > i /\ text[j] = END /\ \A k \in i+1 .. j-1 : ~MarkerAt(text, k)
                      /\ text[i] = END => \E j \in 1 .. n :
                           j < i /\ text[j] = START /\ \A k \in j+1 .. i-1 : ~MarkerAt(text, k)
    BY DEF ClosedAt
  <2>1. i \in 1 .. n - 1
    BY <1>2 DEF MarkerAt
  <2>2. \A j \in 1 .. n - 1 : j \in 1 .. n
    OBVIOUS
  <2>3. QED
    BY <1>2, <2>1, <2>2 DEF ClosedAt
<1>3. ASSUME text[n] = START PROVE ~ClosedAt(text, n)
  <2>1. n \in 1 .. n /\ ~ \E j \in 1 .. n : j > n
    OBVIOUS
  <2>2. QED
    BY <1>3, <2>1 DEF ClosedAt
<1>4. ASSUME text[n] = END, OpenAt(text, n - 1) PROVE ClosedAt(text, n)
  <2>1. PICK s \in 1 .. n - 1 :
          /\ text[s] = START /\ ClosedAt(text, s - 1)
          /\ \A k \in s+1 .. n - 1 : ~MarkerAt(text, k)
    BY <1>4 DEF OpenAt
  <2> SUFFICES ASSUME NEW i \in 1 .. n, text[i] \in {START, END}
               PROVE  /\ text[i] = START => \E j \in 1 .. n :
                           j > i /\ text[j] = END /\ \A k \in i+1 .. j-1 : ~MarkerAt(text, k)
                      /\ text[i] = END => \E j \in 1 .. n :
                           j < i /\ text[j] = START /\ \A k \in j+1 .. i-1 : ~MarkerAt(text, k)
    BY DEF ClosedAt
  <2>2. CASE i = n
    <3>1. s \in 1 .. n /\ s < n
      BY <2>1
    <3>2. QED
      BY <1>4, <2>1, <2>2, <3>1, LinesDiffer
  <2>3. CASE i = s
    <3>1. n \in 1 .. n /\ n > s
      BY <2>1
    <3>2. QED
      BY <1>4, <2>1, <2>3, <3>1, LinesDiffer
  <2>4. CASE i # n /\ i # s
    <3>1. i \in 1 .. s - 1
      BY <2>1, <2>4 DEF MarkerAt
    <3>2. \A j \in 1 .. s - 1 : j \in 1 .. n
      BY <2>1
    <3>3. QED
      BY <2>1, <3>1, <3>2 DEF ClosedAt
  <2>5. QED
    BY <2>2, <2>3, <2>4
<1>5. ASSUME text[n] = END, ClosedAt(text, n) PROVE OpenAt(text, n - 1)
  <2>1. PICK s \in 1 .. n :
          s < n /\ text[s] = START /\ \A k \in s+1 .. n-1 : ~MarkerAt(text, k)
    <3>1. n \in 1 .. n
      OBVIOUS
    <3>2. QED
      BY <1>5, <3>1 DEF ClosedAt
  <2>2. ASSUME NEW i \in 1 .. s - 1
        PROVE  /\ text[i] = START => \E j \in 1 .. s - 1 :
                    j > i /\ text[j] = END /\ \A k \in i+1 .. j-1 : ~MarkerAt(text, k)
               /\ text[i] = END => \E j \in 1 .. s - 1 :
                    j < i /\ text[j] = START /\ \A k \in j+1 .. i-1 : ~MarkerAt(text, k)
    <3>1. i \in 1 .. n
      BY <2>1
    <3>2. CASE text[i] = START
      <4>1. PICK j \in 1 .. n :
              j > i /\ text[j] = END /\ \A k \in i+1 .. j-1 : ~MarkerAt(text, k)
        BY <1>5, <3>1, <3>2 DEF ClosedAt
      <4>2. ~(s \in i+1 .. j-1) /\ s # j
        BY <2>1, <4>1, LinesDiffer DEF MarkerAt
      <4>3. j \in 1 .. s - 1
        BY <4>1, <4>2
      <4>4. QED
        BY <3>2, <4>1, <4>3, LinesDiffer
    <3>3. CASE text[i] = END
      <4>1. PICK j \in 1 .. n :
              j < i /\ text[j] = START /\ \A k \in j+1 .. i-1 : ~MarkerAt(text, k)
        BY <1>5, <3>1, <3>3 DEF ClosedAt
      <4>2. j \in 1 .. s - 1
        BY <4>1
      <4>3. QED
        BY <3>3, <4>1, <4>2, LinesDiffer
    <3>4. QED
      BY <3>2, <3>3
  <2>3. s \in 1 .. n - 1
    BY <2>1
  <2>4. ClosedAt(text, s - 1)
    BY <2>2 DEF ClosedAt
  <2>5. QED
    BY <2>1, <2>3, <2>4 DEF OpenAt
<1>6. QED
  BY <1>1, <1>2, <1>3, <1>4, <1>5, LinesDiffer DEF MarkerAt

(* A block is open after a line that opens one, or while no marker follows.  *)
LEMMA OpenStep ==
  ASSUME NEW text, NEW n \in Nat, n # 0
  PROVE  OpenAt(text, n) <=>
           \/ text[n] \notin {START, END} /\ OpenAt(text, n - 1)
           \/ text[n] = START /\ ClosedAt(text, n - 1)
<1>1. ASSUME OpenAt(text, n)
      PROVE  \/ text[n] \notin {START, END} /\ OpenAt(text, n - 1)
             \/ text[n] = START /\ ClosedAt(text, n - 1)
  <2>1. PICK s \in 1 .. n :
          /\ text[s] = START /\ ClosedAt(text, s - 1)
          /\ \A k \in s+1 .. n : ~MarkerAt(text, k)
    BY <1>1 DEF OpenAt
  <2>2. CASE s # n
    <3>1. s \in 1 .. n - 1 /\ n \in s+1 .. n /\ \A k \in s+1 .. n-1 : k \in s+1 .. n
      BY <2>2
    <3>2. QED
      BY <2>1, <3>1 DEF OpenAt, MarkerAt
  <2>3. QED
    BY <2>1, <2>2
<1>2. ASSUME ~MarkerAt(text, n), OpenAt(text, n - 1) PROVE OpenAt(text, n)
  <2>1. PICK s \in 1 .. n - 1 :
          /\ text[s] = START /\ ClosedAt(text, s - 1)
          /\ \A k \in s+1 .. n - 1 : ~MarkerAt(text, k)
    BY <1>2 DEF OpenAt
  <2>2. s \in 1 .. n /\ \A k \in s+1 .. n : ~MarkerAt(text, k)
    BY <1>2, <2>1
  <2>3. QED
    BY <2>1, <2>2 DEF OpenAt
<1>3. ASSUME text[n] = START, ClosedAt(text, n - 1) PROVE OpenAt(text, n)
  <2>1. n \in 1 .. n /\ \A k \in n+1 .. n : ~MarkerAt(text, k)
    OBVIOUS
  <2>2. QED
    BY <1>3, <2>1 DEF OpenAt
<1>4. QED
  BY <1>1, <1>2, <1>3 DEF MarkerAt

(* No prefix of a file is both: an open block waits for its end marker.      *)
LEMMA NotBoth ==
  ASSUME NEW text, NEW n \in Nat
  PROVE  ~(ClosedAt(text, n) /\ OpenAt(text, n))
<1> SUFFICES ASSUME ClosedAt(text, n), OpenAt(text, n) PROVE FALSE
  OBVIOUS
<1>1. PICK s \in 1 .. n : text[s] = START /\ \A k \in s+1 .. n : ~MarkerAt(text, k)
  BY DEF OpenAt
<1>2. PICK j \in 1 .. n : j > s /\ text[j] = END
  BY <1>1 DEF ClosedAt
<1>3. j \in s+1 .. n
  BY <1>2
<1>4. QED
  BY <1>1, <1>2, <1>3 DEF MarkerAt

(* _validate_marker_lines accepts a list of lines exactly when its markers   *)
(* pair up.                                                                  *)
LEMMA ScanIsPairing ==
  ASSUME NEW text \in Seq(Line)
  PROVE  Accepts(text) <=> WellFormed(text)
<1> DEFINE len == Len(text)
<1>1. PICK state \in [0 .. len -> States] :
        /\ state[0] = "closed"
        /\ \A n \in 1 .. len : state[n] = Turned(state[n-1], text[n])
        /\ Verdict(text) = state[len]
  BY VerdictWalk
<1>2. len \in Nat /\ DOMAIN text = 1 .. len
  BY LenProperties
<1> HIDE DEF len
<1> DEFINE Right(n) == /\ state[n] = "closed" <=> ClosedAt(text, n)
                       /\ state[n] = "open" <=> OpenAt(text, n)
           Wrong == {n \in Nat : n <= len /\ ~Right(n)}
<1>3. Wrong = {}
  <2>1. SUFFICES ASSUME NEW n \in Wrong, \A k \in Wrong : n <= k PROVE FALSE
    <3>1. Wrong \subseteq Nat
      OBVIOUS
    <3>2. QED
      BY <3>1, LeastNat
  <2>2. n # 0
    <3>1. ClosedAt(text, 0) /\ ~OpenAt(text, 0)
      BY DEF ClosedAt, OpenAt
    <3>2. QED
      BY <1>1, <2>1, <3>1
  <2>3. n \in Nat /\ n - 1 \in Nat /\ n \in 1 .. len /\ n - 1 \in 0 .. len /\ n - 1 <= len
    BY <1>2, <2>1, <2>2
  <2>4. Right(n - 1)
    <3>1. n - 1 \notin Wrong
      BY <2>1, <2>3
    <3>2. QED
      BY <2>3, <3>1
  <2>5. state[n] = Turned(state[n-1], text[n]) /\ state[n-1] \in States
    BY <1>1, <2>3
  <2>6. ~(ClosedAt(text, n - 1) /\ OpenAt(text, n - 1))
    BY <2>3, NotBoth
  <2>7. ~Right(n)
    BY <2>1
  <2> HIDE DEF Wrong
  <2>8. Right(n)
    BY <2>2, <2>3, <2>4, <2>5, <2>6, ClosedStep, OpenStep, LinesDiffer DEF Turned, States
  <2>9. QED
    BY <2>7, <2>8
<1>4. Right(len)
  <2>1. len \notin Wrong
    BY <1>3
  <2>2. QED
    BY <1>2, <2>1
<1>5. WellFormed(text) <=> ClosedAt(text, len)
  BY <1>2 DEF WellFormed, ClosedAt
<1>6. QED
  BY <1>1, <1>4, <1>5 DEF Accepts

-----------------------------------------------------------------------------
(* What the loop over the patterns leaves out is in the file already; what   *)
(* it gives are patterns that are not.                                       *)
LEMMA MissingFacts ==
  ASSUME NEW text
  PROVE  /\ Missing(text) \in Seq(Patterns \ Range(text))
         /\ Patterns \subseteq Range(text) \cup Range(Missing(text))
<1> DEFINE len == Len(PatternList)
           Lacking == Patterns \ Range(text)
           Kept(n, x) == IF PatternList[n] \in Range(text) THEN x ELSE Append(x, PatternList[n])
           step == [n \in 1 .. len |-> [x \in Seq(Lacking) |-> Kept(n, x)]]
           Walk(f) == f = [n \in 0 .. len |->
                             IF n = 0 THEN <<>>
                             ELSE IF PatternList[n] \in Range(text) THEN f[n-1]
                             ELSE Append(f[n-1], PatternList[n])]
<1>1. len \in Nat /\ DOMAIN PatternList = 1 .. len /\ \A n \in 1 .. len : PatternList[n] \in Patterns
  BY LinesDiffer, LenProperties, ElementOfSeq
<1>2. PICK f : Recursion(f, len, <<>>, step)
  BY <1>1, RecursionExists
<1> HIDE DEF len
<1>3. ASSUME NEW n \in 1 .. len, NEW x \in Seq(Lacking) PROVE Kept(n, x) \in Seq(Lacking)
  <2>1. CASE PatternList[n] \in Range(text)
    BY <2>1
  <2>2. CASE PatternList[n] \notin Range(text)
    <3>1. PatternList[n] \in Lacking
      BY <1>1, <2>2
    <3> HIDE DEF Lacking
    <3>2. Append(x, PatternList[n]) \in Seq(Lacking)
      BY <3>1, AppendProperties
    <3>3. QED
      BY <2>2, <3>2
  <2>3. QED
    BY <2>1, <2>2
<1> HIDE DEF Lacking
<1>4. ASSUME NEW g, Recursion(g, len, <<>>, step) \/ Walk(g)
      PROVE  \A n \in 0 .. len : g[n] \in Seq(Lacking)
  <2> DEFINE Bad == {n \in Nat : n <= len /\ g[n] \notin Seq(Lacking)}
  <2> SUFFICES Bad = {}
    BY <1>1
  <2>1. SUFFICES ASSUME NEW n \in Bad, \A k \in Bad : n <= k PROVE FALSE
    <3>1. Bad \subseteq Nat
      OBVIOUS
    <3>2. QED
      BY <3>1, LeastNat
  <2>2. n # 0
    <3>1. 0 \in 0 .. len
      BY <1>1
    <3>2. g[0] = <<>>
      BY <1>4, <3>1 DEF Recursion
    <3>3. g[0] \in Seq(Lacking)
      BY <3>2, EmptySeq
    <3>4. QED
      BY <2>1, <3>3
  <2>3. n \in 1 .. len /\ n \in 0 .. len /\ n - 1 \in Nat /\ n - 1 <= len
    BY <1>1, <2>1, <2>2
  <2>4. n - 1 \notin Bad
    BY <2>1, <2>3
  <2>5. g[n-1] \in Seq(Lacking)
    BY <2>3, <2>4
  <2>6. Kept(n, g[n-1]) \in Seq(Lacking)
    BY <1>3, <2>3, <2>5
  <2>7. g[n] = step[n][g[n-1]] \/ g[n] = Kept(n, g[n-1])
    BY <1>4, <2>2, <2>3 DEF Recursion
  <2>8. step[n][g[n-1]] = Kept(n, g[n-1])
    BY <2>3, <2>5
  <2>9. g[n] \notin Seq(Lacking)
    BY <2>1
  <2> HIDE DEF step, Kept, Bad
  <2>10. g[n] = Kept(n, g[n-1])
    BY <2>7, <2>8
  <2>11. QED
    BY <2>6, <2>9, <2>10, Zenon
<1>5. Walk(f)
  <2>1. ASSUME NEW n \in 0 .. len, n # 0
        PROVE  step[n][f[n-1]] = Kept(n, f[n-1])
    <3>1. n \in 1 .. len /\ n - 1 \in 0 .. len
      BY <1>1, <2>1
    <3>2. f[n-1] \in Seq(Lacking)
      BY <1>2, <1>4, <3>1
    <3>3. QED
      BY <3>1, <3>2
  <2> HIDE DEF step
  <2>2. QED
    BY <1>2, <2>1 DEF Recursion
<1> DEFINE missing == CHOOSE g : Walk(g)
<1>6. Walk(missing)
  BY <1>5
<1>7. Missing(text) = missing[len]
  BY DEF Missing, len
<1>8. \A n \in 0 .. len : missing[n] \in Seq(Lacking)
  BY <1>4, <1>6
<1> HIDE DEF missing, step
<1> DEFINE Covered(n) == \A i \in 1 .. n : PatternList[i] \in Range(text) \cup Range(missing[n])
           Bad == {n \in Nat : n <= len /\ ~Covered(n)}
<1>9. Bad = {}
  <2>1. SUFFICES ASSUME NEW n \in Bad, \A k \in Bad : n <= k PROVE FALSE
    <3>1. Bad \subseteq Nat
      OBVIOUS
    <3>2. QED
      BY <3>1, LeastNat
  <2>2. n # 0
    BY <2>1
  <2>3. n \in 1 .. len /\ n \in 0 .. len /\ n - 1 \in Nat /\ n - 1 <= len /\ n - 1 \in 0 .. len
    BY <1>1, <2>1, <2>2
  <2>4. Covered(n - 1)
    <3>1. n - 1 \notin Bad
      BY <2>1, <2>3
    <3>2. QED
      BY <2>3, <3>1
  <2>5. missing[n] = Kept(n, missing[n-1])
    BY <1>6, <2>2, <2>3
  <2>6. PICK x \in Seq(Lacking) : x = missing[n-1]
    BY <1>8, <2>3
  <2>7. CASE PatternList[n] \in Range(text)
    <3>1. missing[n] = missing[n-1]
      BY <2>5, <2>7
    <3>2. \A i \in 1 .. n : i = n \/ i \in 1 .. n - 1
      BY <2>3
    <3>3. Covered(n)
      BY <2>4, <2>7, <3>1, <3>2
    <3>4. QED
      BY <2>1, <3>3
  <2>8. CASE PatternList[n] \notin Range(text)
    <3>1. missing[n] = Append(x, PatternList[n])
      BY <2>5, <2>6, <2>8
    <3>2. PatternList[n] \in Lacking
      BY <1>1, <2>3, <2>8 DEF Lacking
    <3>3. Range(missing[n]) = Range(x) \cup {PatternList[n]}
      BY <3>1, <3>2, AppendProperties DEF Range
    <3>4. \A i \in 1 .. n : i = n \/ i \in 1 .. n - 1
      BY <2>3
    <3>5. Covered(n)
      BY <2>4, <2>6, <3>3, <3>4
    <3>6. QED
      BY <2>1, <3>5
  <2>9. QED
    BY <2>7, <2>8
<1>10. Covered(len)
  <2>1. len \notin Bad
    BY <1>9
  <2>2. QED
    BY <1>1, <2>1
<1>11. Patterns \subseteq Range(text) \cup Range(missing[len])
  <2>1. Patterns = {PatternList[i] : i \in 1 .. len}
    BY <1>1 DEF Patterns, Range
  <2>2. QED
    BY <1>10, <2>1
<1>12. missing[len] \in Seq(Lacking)
  BY <1>1, <1>8
<1>13. QED
  BY <1>7, <1>11, <1>12 DEF Lacking

(* Nothing is missing exactly when every pattern is a line of the file.      *)
LEMMA NothingMissing ==
  ASSUME NEW text
  PROVE  Missing(text) = <<>> <=> Patterns \subseteq Range(text)
<1>1. PICK m \in Seq(Patterns \ Range(text)) :
        m = Missing(text) /\ Patterns \subseteq Range(text) \cup Range(m)
  BY MissingFacts
<1>2. ASSUME m = <<>> PROVE Patterns \subseteq Range(text)
  <2>1. Range(m) = {}
    BY <1>2 DEF Range
  <2>2. QED
    BY <1>1, <2>1
<1>3. ASSUME Patterns \subseteq Range(text), m # <<>> PROVE FALSE
  <2>1. Len(m) \in Nat /\ Len(m) # 0
    BY <1>3, LenProperties, EmptySeq
  <2>2. 1 \in 1 .. Len(m)
    BY <2>1
  <2>3. m[1] \in Patterns \ Range(text)
    BY <2>2, ElementOfSeq
  <2>4. QED
    BY <1>3, <2>3
<1>4. QED
  BY <1>1, <1>2, <1>3

-----------------------------------------------------------------------------
(* What an append puts down: a whole block, nothing, part of a line, or a    *)
(* start marker, some patterns and perhaps part of a line.                   *)
WholeBlock(new) ==
  /\ new \in Seq(Line) /\ Len(new) >= 2 /\ new[1] = START /\ new[Len(new)] = END
  /\ \A i \in 2 .. Len(new) - 1 : new[i] \in Patterns
Unclosed(new) ==
  /\ new \in Seq(Line) /\ new # <<>>
  /\ new[1] \in {START, Junk}
  /\ new[1] = Junk => Len(new) = 1
  /\ \A i \in 2 .. Len(new) : new[i] \in Patterns \cup {Junk}

(* A pattern is no marker, no line of the person's and no torn line.          *)
LEMMA DistinctLines ==
  \A l \in Patterns : l # START /\ l # END /\ l # Note /\ l # Junk
<1>1. QED
  BY LinesDiffer

(* The block of a call has its markers and all the file lacks.               *)
LEMMA BlockIsWhole ==
  ASSUME NEW text \in Seq(Line)
  PROVE  WholeBlock(Block(text)) /\ Patterns \subseteq Range(text) \cup Range(Block(text))
<1>1. PICK m \in Seq(Patterns) : m = Missing(text) /\ Patterns \subseteq Range(text) \cup Range(m)
  <2>1. Patterns \ Range(text) \subseteq Patterns
    OBVIOUS
  <2>2. Seq(Patterns \ Range(text)) \subseteq Seq(Patterns)
    BY <2>1, SeqMonotonic
  <2>3. QED
    BY <2>2, MissingFacts
<1> DEFINE b == <<START>> \o m \o <<END>>
<1>2. Len(m) \in Nat /\ m \in Seq(Line) /\ <<START>> \in Seq(Line) /\ <<END>> \in Seq(Line)
  <2>1. Patterns \subseteq Line
    BY DEF Line
  <2>2. m \in Seq(Line)
    BY <2>1, SeqMonotonic
  <2>3. START \in Line /\ END \in Line
    BY DEF Line
  <2>4. QED
    BY <2>2, <2>3, LenProperties
<1>3. /\ b \in Seq(Line) /\ Len(b) = Len(m) + 2
      /\ b[1] = START /\ b[Len(b)] = END
      /\ \A i \in 2 .. Len(b) - 1 : b[i] = m[i - 1]
  <2>1. PICK a \in Seq(Line) : a = <<START>> \o m
    BY <1>2, ConcatProperties
  <2>2. /\ Len(a) = Len(m) + 1 /\ a[1] = START
        /\ \A i \in 2 .. Len(a) : a[i] = m[i - 1]
    BY <1>2, <2>1, ConcatProperties
  <2>3. PICK c \in Seq(Line) : c = a \o <<END>>
    BY <1>2, ConcatProperties
  <2>4. /\ Len(c) = Len(a) + 1 /\ c[Len(c)] = END
        /\ \A i \in 1 .. Len(a) : c[i] = a[i]
    BY <1>2, <2>3, ConcatProperties
  <2>5. b = c
    BY <2>1, <2>3
  <2>6. QED
    BY <1>2, <2>2, <2>4, <2>5
<1>4. \A i \in 2 .. Len(b) - 1 : b[i] \in Patterns
  <2>1. \A i \in 2 .. Len(b) - 1 : i - 1 \in 1 .. Len(m)
    BY <1>2, <1>3
  <2>2. QED
    BY <1>3, <2>1, ElementOfSeq
<1>5. Range(m) \subseteq Range(b)
  <2> SUFFICES ASSUME NEW i \in 1 .. Len(m) PROVE m[i] \in Range(b)
    BY LenProperties DEF Range
  <2>1. i + 1 \in 2 .. Len(b) - 1 /\ i + 1 \in 1 .. Len(b) /\ (i + 1) - 1 = i
    BY <1>2, <1>3
  <2>2. b[i + 1] = m[i]
    BY <1>3, <2>1
  <2>3. DOMAIN b = 1 .. Len(b)
    BY <1>3, LenProperties
  <2>4. QED
    BY <2>1, <2>2, <2>3 DEF Range
<1>6. b = Block(text)
  BY <1>1 DEF Block
<1> HIDE DEF b
<1>7. Len(b) >= 2
  BY <1>2, <1>3
<1>8. QED
  BY <1>1, <1>3, <1>4, <1>5, <1>6, <1>7 DEF WholeBlock

(* The first n lines. *)
LEMMA PrefixLines ==
  ASSUME NEW s \in Seq(Line), NEW n \in 0 .. Len(s)
  PROVE  \E t \in Seq(Line) : /\ t = SubSeq(s, 1, n) /\ Len(t) = n
                              /\ \A i \in 1 .. n : t[i] = s[i]
<1> DEFINE t == SubSeq(s, 1, n)
<1>1. Len(s) \in Nat /\ n \in Nat /\ n \in Int /\ 1 \in Int
  BY LenProperties
<1>2. \A i \in 1 .. n : s[i] \in Line
  BY <1>1, ElementOfSeq
<1>3. /\ t \in Seq(Line)
      /\ Len(t) = IF 1 <= n THEN n - 1 + 1 ELSE 0
      /\ \A i \in 1 .. n - 1 + 1 : t[i] = s[1 + i - 1]
  BY <1>1, <1>2, SubSeqProperties
<1> HIDE DEF t
<1>4. Len(t) = n
  BY <1>1, <1>3
<1>5. \A i \in 1 .. n : t[i] = s[i]
  <2> TAKE i \in 1 .. n
  <2>1. i \in 1 .. n - 1 + 1 /\ 1 + i - 1 = i
    BY <1>1
  <2>2. QED
    BY <1>3, <2>1
<1>6. QED
  BY <1>3, <1>4, <1>5 DEF t

(* What is in the file of a block that was cut short.                        *)
LEMMA PieceForm ==
  ASSUME NEW b, WholeBlock(b), NEW n \in 0 .. Len(b), NEW rest \in {<<>>, <<Junk>>},
         n = Len(b) => rest = <<>>
  PROVE  LET new == SubSeq(b, 1, n) \o rest
         IN  new = <<>> \/ new = b \/ Unclosed(new)
<1> DEFINE new == SubSeq(b, 1, n) \o rest
<1>1. b \in Seq(Line) /\ Len(b) \in Nat /\ n \in Nat /\ rest \in Seq(Line)
  <2>1. Junk \in Line
    BY DEF Line
  <2>2. <<>> \in Seq(Line) /\ <<Junk>> \in Seq(Line)
    BY <2>1
  <2>3. QED
    <3>1. b \in Seq(Line) /\ Len(b) \in Nat /\ n \in Nat
      BY LenProperties DEF WholeBlock
    <3>2. rest = <<>> \/ rest = <<Junk>>
      OBVIOUS
    <3>3. rest \in Seq(Line)
      BY <2>2, <3>2
    <3>4. QED
      BY <3>1, <3>3
<1>2. PICK s \in Seq(Line) : s = SubSeq(b, 1, n) /\ Len(s) = n /\ \A i \in 1 .. n : s[i] = b[i]
  BY <1>1, PrefixLines
<1>3. CASE n = Len(b)
  <2>1. s = b
    BY <1>1, <1>2, <1>3, SubSeqFull
  <2>2. rest = <<>>
    BY <1>3
  <2>3. b \o <<>> = b
    BY <1>1, ConcatEmptySeq
  <2>4. QED
    BY <1>2, <2>1, <2>2, <2>3
<1>4. CASE n # Len(b) /\ rest = <<>>
  <2>1. s \o <<>> = s
    BY ConcatEmptySeq
  <2>2. new = s
    BY <1>2, <1>4, <2>1
  <2>3. CASE n = 0
    BY <1>2, <2>2, <2>3, EmptySeq
  <2>4. CASE n # 0
    <3>1. s # <<>>
      BY <1>2, <2>4, EmptySeq
    <3>2. s[1] = START /\ START # Junk
      BY <1>1, <1>2, <2>4, LinesDiffer DEF WholeBlock
    <3>3. \A i \in 2 .. Len(s) : s[i] \in Patterns
      BY <1>1, <1>2, <1>4 DEF WholeBlock
    <3>4. Unclosed(s)
      BY <3>1, <3>2, <3>3 DEF Unclosed
    <3>5. QED
      BY <2>2, <3>4
  <2>5. QED
    BY <2>3, <2>4
<1>5. CASE n # Len(b) /\ rest = <<Junk>>
  <2>1. PICK t \in Seq(Line) : t = s \o <<Junk>>
    BY <1>1, <1>5, ConcatProperties
  <2>2. Len(t) = n + 1 /\ t[n + 1] = Junk /\ \A i \in 1 .. n : t[i] = b[i]
    BY <1>1, <1>2, <1>5, <2>1, ConcatProperties
  <2>3. t # <<>>
    BY <1>1, <2>2, EmptySeq
  <2>4. t[1] \in {START, Junk} /\ (t[1] = Junk => Len(t) = 1)
    <3>1. CASE n = 0
      BY <2>2, <3>1
    <3>2. CASE n # 0
      BY <1>1, <2>2, <3>2, LinesDiffer DEF WholeBlock
    <3>3. QED
      BY <3>1, <3>2
  <2>5. \A i \in 2 .. Len(t) : t[i] \in Patterns \cup {Junk}
    BY <1>1, <1>5, <2>2, SMTT(30) DEF WholeBlock
  <2>6. Unclosed(t)
    BY <2>3, <2>4, <2>5 DEF Unclosed
  <2>7. new = t
    BY <1>2, <1>5, <2>1
  <2>8. QED
    BY <2>6, <2>7
<1>6. QED
  BY <1>3, <1>4, <1>5

(* The lines of a file after an append that started on a line of its own...  *)
LEMMA AppendedLines ==
  ASSUME NEW text \in Seq(Line), NEW new \in Seq(Line)
  PROVE  /\ text \o new \in Seq(Line) /\ Len(text \o new) = Len(text) + Len(new)
         /\ \A i \in 1 .. Len(text) : (text \o new)[i] = text[i]
         /\ \A i \in Len(text) + 1 .. Len(text) + Len(new) :
              (text \o new)[i] = new[i - Len(text)]
         /\ \A i \in 1 .. Len(new) : (text \o new)[Len(text) + i] = new[i]
         /\ Range(text \o new) = Range(text) \cup Range(new)
<1>1. Len(text) \in Nat /\ Len(new) \in Nat
  BY LenProperties
<1>2. PICK t \in Seq(Line) : t = text \o new
  BY ConcatProperties
<1>3. /\ Len(t) = Len(text) + Len(new)
      /\ \A i \in 1 .. Len(text) : t[i] = text[i]
      /\ \A i \in Len(text) + 1 .. Len(text) + Len(new) : t[i] = new[i - Len(text)]
  BY <1>1, <1>2, ConcatProperties
<1>4. \A i \in 1 .. Len(new) : t[Len(text) + i] = new[i]
  <2> TAKE i \in 1 .. Len(new)
  <2>1. Len(text) + i \in Len(text) + 1 .. Len(text) + Len(new) /\ (Len(text) + i) - Len(text) = i
    BY <1>1
  <2>2. QED
    BY <1>3, <2>1
<1>5. Range(t) = Range(text) \cup Range(new)
  BY <1>2, RangeConcatenation, Zenon
<1>6. QED
  BY <1>2, <1>3, <1>4, <1>5

(* ... and after one that ran into an unfinished last line.                  *)
LEMMA GluedLines ==
  ASSUME NEW text \in Seq(Line), NEW new \in Seq(Line), text # <<>>, new # <<>>
  PROVE  /\ Glued(text, new) \in Seq(Line)
         /\ Len(Glued(text, new)) = Len(text) + Len(new) - 1
         /\ \A i \in 1 .. Len(text) - 1 : Glued(text, new)[i] = text[i]
         /\ Glued(text, new)[Len(text)] = Junk
         /\ \A i \in 2 .. Len(new) : Glued(text, new)[Len(text) + i - 1] = new[i]
<1>1. Len(text) \in Nat /\ Len(new) \in Nat /\ Len(text) # 0 /\ Len(new) # 0
  BY LenProperties, EmptySeq
<1>2. PICK f \in Seq(Line) : /\ f = Front(text) /\ Len(f) = Len(text) - 1
                             /\ \A i \in 1 .. Len(text) - 1 : f[i] = text[i]
  <2>1. Len(text) - 1 \in 0 .. Len(text)
    BY <1>1
  <2>2. QED
    BY <2>1, PrefixLines DEF Front
<1>3. PICK t \in Seq(Line) : /\ t = Tail(new) /\ Len(t) = Len(new) - 1
                             /\ \A i \in 1 .. Len(new) - 1 : t[i] = new[i + 1]
  <2>1. /\ Tail(new) \in Seq(Line) /\ Len(Tail(new)) = Len(new) - 1
        /\ \A i \in 1 .. Len(Tail(new)) : Tail(new)[i] = new[i + 1]
    BY HeadTailProperties
  <2>2. QED
    BY <2>1
<1>4. <<Junk>> \in Seq(Line)
  BY DEF Line
<1>5. PICK g \in Seq(Line) : g = f \o <<Junk>>
  BY <1>4, ConcatProperties
<1>6. Len(g) = Len(text) /\ g[Len(text)] = Junk /\ \A i \in 1 .. Len(text) - 1 : g[i] = text[i]
  <2>1. Len(<<Junk>>) = 1 /\ <<Junk>>[1] = Junk
    OBVIOUS
  <2>2. /\ Len(g) = Len(f) + Len(<<Junk>>)
        /\ \A i \in 1 .. Len(f) : g[i] = f[i]
        /\ \A i \in 1 .. Len(<<Junk>>) : g[Len(f) + i] = <<Junk>>[i]
    BY <1>4, <1>5, AppendedLines
  <2>3. QED
    BY <1>1, <1>2, <2>1, <2>2
<1>7. PICK h \in Seq(Line) : h = g \o t
  BY ConcatProperties
<1>8. /\ Len(h) = Len(g) + Len(t)
      /\ \A i \in 1 .. Len(g) : h[i] = g[i]
      /\ \A i \in 1 .. Len(t) : h[Len(g) + i] = t[i]
  BY <1>7, AppendedLines
<1>9. h = Glued(text, new)
  BY <1>2, <1>3, <1>5, <1>7 DEF Glued
<1>10. \A i \in 2 .. Len(new) : h[Len(text) + i - 1] = new[i]
  <2> TAKE i \in 2 .. Len(new)
  <2>1. i - 1 \in 1 .. Len(t) /\ i - 1 \in 1 .. Len(new) - 1
        /\ Len(g) + (i - 1) = Len(text) + i - 1 /\ (i - 1) + 1 = i
    BY <1>1, <1>3, <1>6
  <2>2. QED
    BY <1>3, <1>8, <2>1, ZenonT(40)
<1>11. Len(h) = Len(text) + Len(new) - 1
  BY <1>1, <1>3, <1>6, <1>8
<1>12. QED
  BY <1>1, <1>6, <1>8, <1>9, <1>10, <1>11

(* A complete block at the end of a well-formed file leaves it well formed.  *)
LEMMA BlockCloses ==
  ASSUME NEW text \in Seq(Line), WellFormed(text), NEW new, WholeBlock(new)
  PROVE  WellFormed(text \o new)
<1>1. PICK a \in Nat, b \in Nat : a = Len(text) /\ b = Len(new) /\ b >= 2
  BY LenProperties DEF WholeBlock
<1>2. PICK t \in Seq(Line) :
        /\ t = text \o new /\ Len(t) = a + b
        /\ \A i \in 1 .. a : t[i] = text[i]
        /\ \A i \in 1 .. b : t[a + i] = new[i]
  <2>1. new \in Seq(Line)
    BY DEF WholeBlock
  <2>2. QED
    BY <1>1, <2>1, AppendedLines, ZenonT(40)
<1>3. DOMAIN t = 1 .. a + b /\ DOMAIN text = 1 .. a
  BY <1>1, <1>2, LenProperties
<1>4. t[a + 1] = START /\ t[a + b] = END
  BY <1>1, <1>2 DEF WholeBlock
<1>5. \A k \in a + 2 .. a + b - 1 : ~MarkerAt(t, k)
  <2> TAKE k \in a + 2 .. a + b - 1
  <2>1. k - a \in 2 .. b - 1 /\ k - a \in 1 .. b /\ a + (k - a) = k
    BY <1>1
  <2>2. t[k] \in Patterns
    BY <1>1, <1>2, <2>1 DEF WholeBlock
  <2>3. QED
    BY <2>2, DistinctLines DEF MarkerAt
<1> DEFINE Paired(i) ==
      /\ t[i] = START => \E j \in 1 .. a + b :
           j > i /\ t[j] = END /\ \A k \in i+1 .. j-1 : ~MarkerAt(t, k)
      /\ t[i] = END => \E j \in 1 .. a + b :
           j < i /\ t[j] = START /\ \A k \in j+1 .. i-1 : ~MarkerAt(t, k)
<1>6. SUFFICES ASSUME NEW i \in 1 .. a + b PROVE Paired(i)
  BY <1>2, <1>3 DEF WellFormed
<1>7. CASE i \in 1 .. a
  <2>1. \A k \in 1 .. a : k \in 1 .. a + b /\ (MarkerAt(t, k) <=> MarkerAt(text, k))
    BY <1>1, <1>2 DEF MarkerAt
  <2>2. CASE t[i] = START
    <3>1. PICK j \in 1 .. a :
            j > i /\ text[j] = END /\ \A k \in i+1 .. j-1 : ~MarkerAt(text, k)
      BY <1>2, <1>3, <1>7, <2>2 DEF WellFormed
    <3>2. \A k \in i+1 .. j-1 : k \in 1 .. a
      BY <1>7
    <3>3. t[j] = END /\ \A k \in i+1 .. j-1 : ~MarkerAt(t, k)
      BY <1>2, <2>1, <3>1, <3>2
    <3>4. QED
      BY <2>1, <2>2, <3>1, <3>3, LinesDiffer
  <2>3. CASE t[i] = END
    <3>1. PICK j \in 1 .. a :
            j < i /\ text[j] = START /\ \A k \in j+1 .. i-1 : ~MarkerAt(text, k)
      BY <1>2, <1>3, <1>7, <2>3 DEF WellFormed
    <3>2. \A k \in j+1 .. i-1 : k \in 1 .. a
      BY <1>7
    <3>3. t[j] = START /\ \A k \in j+1 .. i-1 : ~MarkerAt(t, k)
      BY <1>2, <2>1, <3>1, <3>2
    <3>4. QED
      BY <2>1, <2>3, <3>1, <3>3, LinesDiffer
  <2>4. QED
    BY <2>2, <2>3
<1>8. CASE i = a + 1
  <2>1. a + b \in 1 .. a + b /\ a + b > i /\ \A k \in i+1 .. a+b-1 : k \in a + 2 .. a + b - 1
    BY <1>1, <1>8
  <2>2. QED
    BY <1>4, <1>5, <1>8, <2>1, LinesDiffer
<1>9. CASE i = a + b
  <2>1. a + 1 \in 1 .. a + b /\ a + 1 < i /\ \A k \in a+1+1 .. i-1 : k \in a + 2 .. a + b - 1
    BY <1>1, <1>9
  <2>2. QED
    BY <1>4, <1>5, <1>9, <2>1, LinesDiffer
<1>10. CASE i \in a + 2 .. a + b - 1
  BY <1>5, <1>10 DEF MarkerAt
<1>11. i \in 1 .. a \/ i = a + 1 \/ i = a + b \/ i \in a + 2 .. a + b - 1
  BY <1>1
<1> HIDE DEF Paired
<1>12. QED
  BY <1>7, <1>8, <1>9, <1>10, <1>11, Zenon

(* A file with a start marker and no end marker after it is refused.         *)
LEMMA UnclosedRefused ==
  ASSUME NEW text \in Seq(Line), NEW s \in 1 .. Len(text), text[s] = START,
         \A j \in s + 1 .. Len(text) : text[j] # END
  PROVE  ~WellFormed(text)
<1>1. DOMAIN text = 1 .. Len(text)
  BY LenProperties
<1>2. \A j \in 1 .. Len(text) : j > s => j \in s + 1 .. Len(text)
  OBVIOUS
<1>3. QED
  BY <1>1, <1>2 DEF WellFormed

(* An append that stopped inside its block leaves such a file.               *)
LEMMA UnclosedTail ==
  ASSUME NEW text \in Seq(Line), NEW new \in Seq(Line), Unclosed(new), new[1] = START
  PROVE  ~WellFormed(text \o new)
<1>1. PICK a \in Nat, b \in Nat : a = Len(text) /\ b = Len(new) /\ b # 0
  BY LenProperties, EmptySeq DEF Unclosed
<1>2. PICK t \in Seq(Line) :
        /\ t = text \o new /\ Len(t) = a + b
        /\ \A i \in a + 1 .. a + b : t[i] = new[i - a]
  BY <1>1, AppendedLines
<1>3. a + 1 \in 1 .. Len(t) /\ t[a + 1] = START
  <2>1. a + 1 \in a + 1 .. a + b /\ (a + 1) - a = 1 /\ a + 1 \in 1 .. a + b
    BY <1>1
  <2>2. QED
    BY <1>2, <2>1
<1>4. \A j \in a + 1 + 1 .. Len(t) : t[j] # END
  <2> TAKE j \in a + 1 + 1 .. Len(t)
  <2>1. j - a \in 2 .. Len(new) /\ j \in a + 1 .. a + b
    BY <1>1, <1>2
  <2>2. t[j] \in Patterns \cup {Junk}
    BY <1>2, <2>1 DEF Unclosed
  <2>3. QED
    BY <2>2, DistinctLines, LinesDiffer
<1>5. QED
  BY <1>2, <1>3, <1>4, UnclosedRefused

(* The lines but the last.                                                   *)
LEMMA FrontLines ==
  ASSUME NEW text \in Seq(Line), text # <<>>
  PROVE  Range(Front(text)) = {text[i] : i \in 1 .. Len(text) - 1}
<1>1. Len(text) \in Nat /\ Len(text) # 0
  BY LenProperties, EmptySeq
<1>2. Len(text) - 1 \in 0 .. Len(text)
  BY <1>1
<1>3. PICK t \in Seq(Line) : /\ t = Front(text) /\ Len(t) = Len(text) - 1
                             /\ \A i \in 1 .. Len(text) - 1 : t[i] = text[i]
  BY <1>2, PrefixLines DEF Front
<1>4. DOMAIN t = 1 .. Len(text) - 1
  BY <1>3, LenProperties
<1>5. QED
  BY <1>3, <1>4 DEF Range

(* The lines of a file, by their numbers.                                    *)
LEMMA RangeLines ==
  ASSUME NEW text \in Seq(Line)
  PROVE  Range(text) = {text[i] : i \in 1 .. Len(text)} /\ DOMAIN text = 1 .. Len(text)
<1>1. DOMAIN text = 1 .. Len(text)
  BY LenProperties
<1>2. QED
  BY <1>1 DEF Range

-----------------------------------------------------------------------------
(* What a process that has read but not written holds: a start marker, some *)
(* patterns, an end marker.                                                  *)
BlockForm ==
  \A q \in Procs : Busy(q) =>
    /\ Len(block[q]) >= 2 /\ block[q][1] = START /\ block[q][Len(block[q])] = END
    /\ \A i \in 2 .. Len(block[q]) - 1 : block[q][i] \in Patterns

Bookkeeping ==
  /\ ~newline => file # <<>>
  /\ \A q \in Procs : seen[q] <= edits
  /\ BlockForm

Last0 == file[Len(file)]
AllLead == \A q \in Procs : Busy(q) => lead[q]

(* When the last line has no newline, every writer that is on its way knows *)
(* it: always until a first append is torn, after one unless the file is    *)
(* refused or ends in no pattern, and always over a person's line.           *)
LeadKnown ==
  ~newline =>
    /\ torn = 0 => AllLead
    /\ torn < 2 /\ WellFormed(file) => AllLead \/ Last0 \notin Patterns
    /\ Last0 = Note => AllLead

(* The lines no pending append can run into. *)
Loose == ~newline /\ \E r \in Procs : Busy(r) /\ ~lead[r]
Secure == IF Loose THEN Range(Front(file)) ELSE Range(file)

Covering ==
  torn < 2 =>
    \A q \in Procs : seen[q] = edits =>
      /\ Busy(q) => Patterns \subseteq Secure \cup Range(block[q])
      /\ pc[q] = "done" => Patterns \subseteq Secure

Alone ==
  ~overlap /\ edits = 0 =>
    /\ \A i, j \in DOMAIN file : file[i] = START /\ file[j] = START => i = j
    /\ START \in Range(file) /\ WellFormed(file) => Patterns \subseteq Range(file)
    /\ \A q \in Procs : Busy(q) =>
         /\ \A r \in Procs : Busy(r) => r = q
         /\ START \notin Range(file)
         /\ Patterns \subseteq Range(file) \cup Range(block[q])
         /\ file # <<>> /\ ~newline => lead[q]

Sound == torn = 0 /\ edits = 0 => WellFormed(file)

IInv == TypeOK /\ Bookkeeping /\ LeadKnown /\ Covering /\ Alone /\ Sound

-----------------------------------------------------------------------------
(* A whole append and a torn one, told by the lines that arrive.             *)
Appends(p, new) ==
  /\ Busy(p)
  /\ new = <<>> \/ new = block[p] \/ Unclosed(new)
  /\ \/ /\ newline \/ lead[p] \/ new = <<>>
        /\ file' = file \o new
     \/ /\ ~newline /\ ~lead[p] /\ file # <<>> /\ new # <<>>
        /\ file' = Glued(file, new)
  /\ newline' \in BOOLEAN
  /\ new = <<>> => (newline => newline')
  /\ UNCHANGED <<seen, edits, calls, overlap>>
  /\ block' = [block EXCEPT ![p] = <<>>]
  /\ lead' = [lead EXCEPT ![p] = FALSE]
  /\ \/ new = block[p] /\ newline' /\ pc' = [pc EXCEPT ![p] = "done"] /\ torn' = torn
     \/ pc' = [pc EXCEPT ![p] = "dead"] /\ torn' = IF torn = 0 THEN 1 ELSE 2

(* WriteBlock and Interrupted are appends of a block or of a piece of one.   *)
LEMMA AppendIsAppends ==
  ASSUME TypeOK, Bookkeeping, NEW p \in Procs, WriteBlock(p) \/ Interrupted(p)
  PROVE  \E new \in Seq(Line) : Appends(p, new)
<1>1. Busy(p) /\ WholeBlock(block[p]) /\ block[p] \in Seq(Line) /\ block[p] # <<>>
  <2>1. Busy(p)
    BY DEF WriteBlock, Interrupted, Lands
  <2>2. block[p] \in Seq(Line) /\ Len(block[p]) >= 2
    BY <2>1 DEF TypeOK, Bookkeeping, BlockForm
  <2>3. WholeBlock(block[p])
    BY <2>1, <2>2 DEF Bookkeeping, BlockForm, WholeBlock
  <2>4. block[p] # <<>>
    BY <2>2, EmptySeq
  <2>5. QED
    BY <2>1, <2>2, <2>3, <2>4
<1>2. ASSUME NEW new \in Seq(Line), file' = Joined(file, newline, lead[p], new)
      PROVE  \/ /\ newline \/ lead[p] \/ new = <<>>
                /\ file' = file \o new
             \/ /\ ~newline /\ ~lead[p] /\ file # <<>> /\ new # <<>>
                /\ file' = Glued(file, new)
  BY <1>2 DEF Joined, Bookkeeping
<1>3. CASE WriteBlock(p)
  <2>1. Appends(p, block[p])
    BY <1>1, <1>2, <1>3 DEF WriteBlock, Lands, Leaves, Appends
  <2>2. QED
    BY <1>1, <2>1
<1>4. CASE Interrupted(p)
  <2>1. PICK n \in 0 .. Len(block[p]), rest \in {<<>>, <<Junk>>} :
          /\ n = Len(block[p]) => rest = <<>>
          /\ file' = Joined(file, newline, lead[p], SubSeq(block[p], 1, n) \o rest)
          /\ IF SubSeq(block[p], 1, n) \o rest = <<>>
             THEN newline' \in {newline, newline \/ lead[p]}
             ELSE newline' \in IF rest = <<>> THEN BOOLEAN ELSE {FALSE}
    BY <1>4, Zenon DEF Interrupted
  <2> DEFINE new == SubSeq(block[p], 1, n) \o rest
  <2>2. new = <<>> \/ new = block[p] \/ Unclosed(new)
    BY <1>1, <2>1, PieceForm
  <2>3. new \in Seq(Line)
    BY <1>1, <2>2, EmptySeq DEF Unclosed
  <2>4. newline' \in BOOLEAN /\ (new = <<>> => (newline => newline'))
    BY <2>1 DEF TypeOK
  <2>5. file' = Joined(file, newline, lead[p], new)
    BY <2>1
  <2> HIDE DEF new
  <2>6. Appends(p, new)
    BY <1>1, <1>2, <1>4, <2>2, <2>3, <2>4, <2>5 DEF Interrupted, Leaves, Appends
  <2>7. QED
    BY <2>3, <2>6
<1>5. QED
  BY <1>3, <1>4

(* Where the lines of the new file come from, and what its last line is.     *)
LEMMA AppendedFile ==
  ASSUME TypeOK, Bookkeeping, NEW p \in Procs, NEW new \in Seq(Line), Appends(p, new)
  PROVE  /\ file' \in Seq(Line) /\ Len(file') \in Nat /\ Len(file) \in Nat
         /\ Len(file') >= Len(file) /\ (new # <<>> => file' # <<>>)
         /\ \A i \in 1 .. Len(file) - 1 : file'[i] = file[i]
         /\ newline \/ lead[p] \/ new = <<>> =>
              /\ file' = file \o new
              /\ \A i \in 1 .. Len(file) : file'[i] = file[i]
              /\ new # <<>> => Len(file') > Len(file)
              /\ Range(file') = Range(file) \cup Range(new)
         /\ ~newline /\ ~lead[p] /\ new # <<>> =>
              \A i \in 2 .. Len(new) : new[i] \in Range(file')
         /\ new # <<>> => file'[Len(file')] \in {new[Len(new)], Junk}
         /\ new = <<>> => file' = file
<1>1. file \in Seq(Line) /\ Len(file) \in Nat /\ Len(new) \in Nat
  BY LenProperties DEF TypeOK
<1>2. new # <<>> => Len(new) # 0
  BY EmptySeq
<1>3. CASE newline \/ lead[p] \/ new = <<>>
  <2>1. file' = file \o new
    BY <1>3 DEF Appends
  <2>2. PICK t \in Seq(Line) :
          /\ t = file \o new /\ Len(t) = Len(file) + Len(new)
          /\ \A i \in 1 .. Len(file) : t[i] = file[i]
          /\ \A i \in 1 .. Len(new) : t[Len(file) + i] = new[i]
          /\ Range(t) = Range(file) \cup Range(new)
    BY <1>1, AppendedLines
  <2>3. new # <<>> => t # <<>> /\ t[Len(t)] = new[Len(new)] /\ Len(t) > Len(file)
    BY <1>1, <1>2, <2>2, EmptySeq
  <2>4. file' = t
    BY <2>1, <2>2
  <2>5. new = <<>> => file' = file
    BY <1>1, <2>1, ConcatEmptySeq
  <2>6. \A i \in 1 .. Len(file) - 1 : t[i] = file[i]
    BY <1>1, <2>2
  <2>7. Len(t) \in Nat /\ Len(t) >= Len(file)
    BY <1>1, <2>2
  <2>8. QED
    BY <1>1, <1>3, <2>2, <2>3, <2>4, <2>5, <2>6, <2>7
<1>4. CASE ~newline /\ ~lead[p] /\ new # <<>>
  <2>1. file # <<>> /\ file' = Glued(file, new)
    BY <1>4 DEF Appends
  <2>2. PICK t \in Seq(Line) :
          /\ t = Glued(file, new) /\ Len(t) = Len(file) + Len(new) - 1
          /\ \A i \in 1 .. Len(file) - 1 : t[i] = file[i]
          /\ t[Len(file)] = Junk
          /\ \A i \in 2 .. Len(new) : t[Len(file) + i - 1] = new[i]
    BY <1>1, <1>4, <2>1, GluedLines
  <2>3. Len(file) # 0
    BY <1>1, <2>1, EmptySeq
  <2>4. Len(t) \in Nat /\ Len(t) >= Len(file) /\ t # <<>>
    BY <1>1, <1>2, <1>4, <2>2, <2>3, EmptySeq
  <2>5. \A i \in 2 .. Len(new) : new[i] \in Range(t)
    <3> TAKE i \in 2 .. Len(new)
    <3>1. Len(file) + i - 1 \in 1 .. Len(t)
      BY <1>1, <2>2
    <3>2. t[Len(file) + i - 1] \in Range(t)
      BY <3>1, RangeLines
    <3>3. QED
      BY <2>2, <3>2
  <2>6. t[Len(t)] \in {new[Len(new)], Junk}
    <3>1. CASE Len(new) = 1
      BY <1>1, <2>2, <3>1
    <3>2. CASE Len(new) # 1
      <4>1. Len(new) \in 2 .. Len(new)
        <5>1. PICK m \in Nat : m = Len(new) /\ m # 0 /\ m # 1
          BY <1>1, <1>2, <1>4, <3>2
        <5>2. m \in 2 .. m
          BY <5>1
        <5>3. QED
          BY <5>1, <5>2, Zenon
      <4>2. t[Len(file) + Len(new) - 1] = new[Len(new)]
        BY <2>2, <4>1
      <4>3. Len(t) = Len(file) + Len(new) - 1
        BY <2>2
      <4>4. t[Len(t)] = new[Len(new)]
        BY <4>2, <4>3, Zenon
      <4>5. QED
        BY <4>4
    <3>3. QED
      BY <3>1, <3>2
  <2>7. QED
    BY <1>1, <1>4, <2>1, <2>2, <2>4, <2>5, <2>6
<1>5. QED
  BY <1>3, <1>4

(* An append keeps the types and the blocks of the others.                   *)
LEMMA AppendsType ==
  ASSUME TypeOK, Bookkeeping, NEW p \in Procs, NEW new \in Seq(Line), Appends(p, new)
  PROVE  TypeOK' /\ Bookkeeping'
<1> USE DEF TypeOK
<1>1. file' \in Seq(Line) /\ (new # <<>> => file' # <<>>) /\ (new = <<>> => file' = file)
  BY AppendedFile
<1>2. pc' \in [Procs -> {"idle", "append", "done", "refused", "dead"}]
  BY DEF Appends
<1>3. block' \in [Procs -> Seq(Line)]
  <2>1. <<>> \in Seq(Line)
    BY EmptySeq
  <2>2. QED
    BY <2>1 DEF Appends
<1>4. lead' \in [Procs -> BOOLEAN]
  BY DEF Appends
<1>5. torn' \in 0 .. 2 /\ newline' \in BOOLEAN
  BY DEF Appends
<1>6. TypeOK'
  BY <1>1, <1>2, <1>3, <1>4, <1>5 DEF Appends
<1>7. ~newline' => file' # <<>>
  BY <1>1 DEF Appends, Bookkeeping
<1>8. BlockForm'
  <2> SUFFICES ASSUME NEW q \in Procs, Busy(q)'
               PROVE  /\ Len(block'[q]) >= 2 /\ block'[q][1] = START
                      /\ block'[q][Len(block'[q])] = END
                      /\ \A i \in 2 .. Len(block'[q]) - 1 : block'[q][i] \in Patterns
    BY DEF BlockForm
  <2>1. q # p /\ Busy(q)
    BY DEF Appends, Busy
  <2>2. block'[q] = block[q]
    BY <2>1 DEF Appends
  <2>3. QED
    BY <2>1, <2>2, Zenon DEF Bookkeeping, BlockForm
<1>9. QED
  BY <1>6, <1>7, <1>8 DEF Bookkeeping, Appends

(* The processes that are still on their way are those that were.            *)
LEMMA AppendsOthers ==
  ASSUME TypeOK, NEW p \in Procs, NEW new, Appends(p, new)
  PROVE  /\ \A q \in Procs : Busy(q)' => q # p /\ Busy(q)
         /\ \A q \in Procs : q # p =>
              /\ pc'[q] = pc[q] /\ block'[q] = block[q] /\ lead'[q] = lead[q]
              /\ Busy(q)' <=> Busy(q)
<1>1. \A q \in Procs : q # p =>
        pc'[q] = pc[q] /\ block'[q] = block[q] /\ lead'[q] = lead[q]
  BY DEF TypeOK, Appends
<1>2. ~Busy(p)'
  BY DEF TypeOK, Appends, Busy
<1>3. QED
  BY <1>1, <1>2 DEF Busy

(* A line torn off is a pattern only behind a start marker, so the file is   *)
(* refused: what LeadKnown says of the first torn append.                    *)
LEMMA AppendsLead ==
  ASSUME TypeOK, Bookkeeping, LeadKnown, NEW p \in Procs, NEW new \in Seq(Line), Appends(p, new)
  PROVE  LeadKnown'
<1>1. SUFFICES ASSUME ~newline'
               PROVE  /\ torn' = 0 => AllLead'
                      /\ torn' < 2 /\ WellFormed(file') => AllLead' \/ file'[Len(file')] \notin Patterns
                      /\ file'[Len(file')] = Note => AllLead'
  BY DEF LeadKnown, Last0
<1>2. torn' = (IF torn = 0 THEN 1 ELSE 2) /\ torn \in 0 .. 2
  BY <1>1 DEF Appends, TypeOK
<1>3. AllLead => AllLead'
  BY AppendsOthers DEF AllLead
<1>4. CASE new = <<>>
  <2>1. ~newline /\ file' = file
    BY <1>1, <1>4, AppendedFile DEF Appends, TypeOK
  <2>2. QED
    BY <1>2, <1>3, <2>1 DEF LeadKnown, Last0
<1>5. CASE new # <<>>
  <2>1. file'[Len(file')] \in {new[Len(new)], Junk} /\ Len(new) \in Nat /\ Len(new) # 0
    BY <1>5, AppendedFile, LenProperties, EmptySeq
  <2>2. CASE new = block[p]
    <3>1. new[Len(new)] = END
      BY <2>2 DEF Appends, Bookkeeping, BlockForm
    <3>2. QED
      BY <1>2, <2>1, <3>1, DistinctLines, LinesDiffer
  <2>3. CASE Unclosed(new)
    <3>1. new[Len(new)] # Note
      <4>1. CASE Len(new) = 1
        BY <2>3, <4>1, LinesDiffer DEF Unclosed
      <4>2. CASE Len(new) # 1
        <5>1. Len(new) \in 2 .. Len(new)
          <6>1. PICK m \in Nat : m = Len(new) /\ m # 0 /\ m # 1
            BY <2>1, <4>2
          <6>2. m \in 2 .. m
            BY <6>1
          <6>3. QED
            BY <6>1, <6>2, Zenon
        <5>2. new[Len(new)] \in Patterns \cup {Junk}
          BY <2>3, <5>1 DEF Unclosed
        <5>3. QED
          BY <5>2, DistinctLines, LinesDiffer
      <4>3. QED
        BY <4>1, <4>2
    <3>2. file'[Len(file')] # Note
      BY <2>1, <3>1, LinesDiffer
    <3>3. ASSUME torn = 0, WellFormed(file'), ~AllLead
          PROVE  file'[Len(file')] \notin Patterns
      <4>1. newline
        BY <3>3 DEF LeadKnown
      <4>2. new[1] = START => FALSE
        <5>1. SUFFICES ASSUME new[1] = START PROVE FALSE
          OBVIOUS
        <5>2. file' = file \o new /\ file \in Seq(Line) /\ Len(file) \in Nat
          BY <4>1, AppendedFile DEF TypeOK
        <5>3. QED
          BY <2>3, <3>3, <5>1, <5>2, UnclosedTail
      <4>3. new[1] = Junk /\ Len(new) = 1
        BY <2>3, <4>2 DEF Unclosed
      <4>4. QED
        BY <2>1, <4>3, DistinctLines
    <3>4. QED
      BY <1>2, <1>3, <3>2, <3>3
  <2>4. QED
    BY <1>5, <2>2, <2>3 DEF Appends
<1>6. QED
  BY <1>4, <1>5

(* No pattern is lost to an append: the one line that can be run into is not *)
(* among those the processes count on.                                       *)
LEMMA AppendsCover ==
  ASSUME TypeOK, Bookkeeping, LeadKnown, Covering,
         NEW p \in Procs, NEW new \in Seq(Line), Appends(p, new)
  PROVE  Covering'
<1>1. SUFFICES ASSUME torn' < 2, NEW q \in Procs, seen'[q] = edits'
               PROVE  /\ Busy(q)' => Patterns \subseteq Secure' \cup Range(block'[q])
                      /\ pc'[q] = "done" => Patterns \subseteq Secure'
  BY DEF Covering
<1>2. torn < 2 /\ seen[q] = edits /\ torn \in 0 .. 2
  BY <1>1 DEF Appends, TypeOK
<1>3. file \in Seq(Line) /\ Len(file) \in Nat /\ file' \in Seq(Line) /\ Len(file') \in Nat
  BY AppendedFile DEF TypeOK
<1>4. Secure \subseteq Range(file) /\ (~newline /\ ~lead[p] => Secure = Range(Front(file)))
  <2>1. CASE Loose
    <3>1. Secure = Range(Front(file)) /\ file # <<>>
      BY <2>1 DEF Secure, Loose, Bookkeeping
    <3>2. Range(Front(file)) = {file[i] : i \in 1 .. Len(file) - 1}
      BY <1>3, <3>1, FrontLines
    <3>3. \A i \in 1 .. Len(file) - 1 : i \in 1 .. Len(file)
      BY <1>3
    <3>4. Range(Front(file)) \subseteq Range(file)
      BY <1>3, <3>2, <3>3, RangeLines
    <3>5. QED
      BY <3>1, <3>4
  <2>2. CASE ~Loose
    <3>1. ~(~newline /\ ~lead[p])
      BY <2>2 DEF Loose, Appends
    <3>2. Secure = Range(file)
      BY <2>2 DEF Secure
    <3>3. QED
      BY <3>1, <3>2
  <2>3. QED
    BY <2>1, <2>2
<1>5. Secure \subseteq Secure'
  <2>1. CASE newline'
    <3>1. Secure' = Range(file')
      BY <2>1 DEF Secure, Loose
    <3>2. CASE newline \/ lead[p] \/ new = <<>>
      BY <1>4, <3>1, <3>2, AppendedFile
    <3>3. CASE ~newline /\ ~lead[p] /\ new # <<>>
      <4>1. file # <<>> /\ Secure = Range(Front(file))
        BY <1>4, <3>3 DEF Bookkeeping
      <4>2. Secure = {file[i] : i \in 1 .. Len(file) - 1}
        BY <1>3, <4>1, FrontLines
      <4>3. \A i \in 1 .. Len(file) - 1 : i \in 1 .. Len(file') /\ file'[i] = file[i]
        BY <1>3, AppendedFile
      <4>4. Range(file') = {file'[i] : i \in 1 .. Len(file')}
        BY <1>3, RangeLines
      <4>5. QED
        BY <3>1, <4>2, <4>3, <4>4
    <3>4. QED
      BY <3>2, <3>3
  <2>2. CASE ~newline'
    <3>1. torn = 0
      BY <1>1, <1>2, <2>2 DEF Appends
    <3>2. newline \/ (AllLead /\ lead[p])
      BY <3>1 DEF LeadKnown, AllLead, Appends
    <3>3. CASE new = <<>>
      <4>1. ~newline /\ file' = file
        BY <2>2, <3>3, AppendedFile DEF Appends
      <4>2. AllLead'
        BY <3>2, <4>1, AppendsOthers DEF AllLead
      <4>3. ~Loose'
        BY <4>2 DEF Loose, AllLead
      <4>4. Secure' = Range(file)
        BY <4>1, <4>3 DEF Secure
      <4>5. QED
        BY <1>4, <4>4
    <3>4. CASE new # <<>>
      <4>1. /\ \A i \in 1 .. Len(file) : file'[i] = file[i]
            /\ Len(file') > Len(file) /\ file' # <<>>
        BY <3>2, <3>4, AppendedFile
      <4>2. Range(file) = {file[i] : i \in 1 .. Len(file)}
        BY <1>3, RangeLines
      <4>3. Range(Front(file')) = {file'[i] : i \in 1 .. Len(file') - 1}
        BY <1>3, <4>1, FrontLines
      <4>4. Range(file') = {file'[i] : i \in 1 .. Len(file')}
        BY <1>3, RangeLines
      <4>5. \A i \in 1 .. Len(file) : i \in 1 .. Len(file') - 1 /\ i \in 1 .. Len(file')
        BY <1>3, <4>1
      <4>6. Range(file) \subseteq Range(Front(file')) /\ Range(file) \subseteq Range(file')
        BY <4>1, <4>2, <4>3, <4>4, <4>5
      <4>7. Secure' = Range(Front(file')) \/ Secure' = Range(file')
        BY DEF Secure
      <4>8. QED
        BY <1>4, <4>6, <4>7
    <3>5. QED
      BY <3>3, <3>4
  <2>3. QED
    BY <2>1, <2>2
<1>6. CASE q # p
  BY <1>1, <1>2, <1>5, <1>6, AppendsOthers DEF Covering
<1>7. CASE q = p
  <2>1. ~Busy(q)'
    BY <1>7, AppendsOthers
  <2>2. SUFFICES ASSUME pc'[p] = "done" PROVE Patterns \subseteq Secure'
    BY <1>7, <2>1
  <2>3. newline' /\ new = block[p]
    BY <2>2 DEF Appends, TypeOK
  <2>4. Secure' = Range(file')
    BY <2>3 DEF Secure, Loose
  <2>5. Patterns \subseteq Secure \cup Range(new)
    BY <1>2, <1>7, <2>3 DEF Covering, Appends
  <2>6. ASSUME NEW l \in Patterns, l \in Range(new) PROVE l \in Range(file')
    <3>1. CASE newline \/ lead[p] \/ new = <<>>
      BY <2>6, <3>1, AppendedFile
    <3>2. CASE ~newline /\ ~lead[p] /\ new # <<>>
      <4>1. PICK i \in 1 .. Len(new) : new[i] = l
        BY <2>6, RangeLines
      <4>2. new[1] = START
        BY <2>3 DEF Appends, Bookkeeping, BlockForm
      <4>3. i \in 2 .. Len(new)
        BY <2>6, <4>1, <4>2, DistinctLines, LenProperties
      <4>4. QED
        BY <3>2, <4>1, <4>3, AppendedFile
    <3>3. QED
      BY <3>1, <3>2
  <2>7. QED
    BY <1>5, <2>4, <2>5, <2>6
<1>8. QED
  BY <1>6, <1>7

(* One writer at a time puts one block down.                                 *)
LEMMA AppendsAlone ==
  ASSUME TypeOK, Bookkeeping, Alone,
         NEW p \in Procs, NEW new \in Seq(Line), Appends(p, new)
  PROVE  Alone'
<1>1. SUFFICES ASSUME ~overlap', edits' = 0
               PROVE  /\ \A i, j \in DOMAIN file' : file'[i] = START /\ file'[j] = START => i = j
                      /\ START \in Range(file') /\ WellFormed(file') => Patterns \subseteq Range(file')
                      /\ ~ \E q \in Procs : Busy(q)'
  BY DEF Alone
<1>2. ~overlap /\ edits = 0 /\ Busy(p)
  BY <1>1 DEF Appends
<1>3. /\ \A r \in Procs : Busy(r) => r = p
      /\ START \notin Range(file)
      /\ Patterns \subseteq Range(file) \cup Range(block[p])
      /\ file # <<>> /\ ~newline => lead[p]
  BY <1>2 DEF Alone
<1>4. newline \/ lead[p] \/ new = <<>>
  BY <1>3 DEF Bookkeeping
<1>5. PICK a \in Nat, b \in Nat : a = Len(file) /\ b = Len(new)
  BY LenProperties DEF TypeOK
<1>6. PICK t \in Seq(Line) :
        /\ t = file' /\ t = file \o new /\ Len(t) = a + b
        /\ \A i \in 1 .. a : t[i] = file[i]
        /\ \A i \in a + 1 .. a + b : t[i] = new[i - a]
        /\ Range(t) = Range(file) \cup Range(new)
  <2>1. file \in Seq(Line)
    BY DEF TypeOK
  <2>2. PICK t \in Seq(Line) :
          /\ t = file \o new /\ Len(t) = a + b
          /\ \A i \in 1 .. a : t[i] = file[i]
          /\ \A i \in a + 1 .. a + b : t[i] = new[i - a]
          /\ Range(t) = Range(file) \cup Range(new)
    BY <1>5, <2>1, AppendedLines
  <2>3. file' = file \o new
    BY <1>4, AppendedFile
  <2>4. QED
    BY <2>2, <2>3
<1>7. \A i \in 1 .. b : new[i] = START => i = 1
  <2> SUFFICES ASSUME NEW i \in 1 .. b, new[i] = START, i # 1 PROVE FALSE
    OBVIOUS
  <2>1. i \in 2 .. b /\ (i # b => i \in 2 .. b - 1)
    BY <1>5
  <2>2. CASE new = <<>>
    BY <1>5, <2>1, <2>2
  <2>3. CASE new = block[p]
    BY <1>2, <1>5, <2>1, <2>3, DistinctLines, LinesDiffer DEF Bookkeeping, BlockForm
  <2>4. CASE Unclosed(new)
    BY <1>5, <2>1, <2>4, DistinctLines, LinesDiffer DEF Unclosed
  <2>5. QED
    BY <2>2, <2>3, <2>4 DEF Appends
<1>8. \A i \in 1 .. a + b : t[i] = START => i = a + 1
  <2> SUFFICES ASSUME NEW i \in 1 .. a + b, t[i] = START PROVE i = a + 1
    OBVIOUS
  <2>1. i \notin 1 .. a
    BY <1>3, <1>5, <1>6, RangeLines DEF TypeOK
  <2>2. i \in a + 1 .. a + b /\ i - a \in 1 .. b
    BY <1>5, <2>1
  <2>3. i - a = 1
    BY <1>6, <1>7, <2>2
  <2>4. QED
    BY <1>5, <2>2, <2>3
<1>9. ASSUME START \in Range(t), WellFormed(t) PROVE Patterns \subseteq Range(t)
  <2>1. new # <<>> /\ START \in Range(new)
    BY <1>3, <1>6, <1>9, AppendedFile
  <2>2. CASE new = block[p]
    BY <1>3, <1>6, <2>2
  <2>3. CASE Unclosed(new)
    <3>1. new[1] = START
      BY <1>5, <1>7, <2>1, RangeLines
    <3>2. QED
      BY <1>6, <1>9, <2>3, <3>1, UnclosedTail DEF TypeOK
  <2>4. QED
    BY <2>1, <2>2, <2>3 DEF Appends
<1>10. ~ \E q \in Procs : Busy(q)'
  BY <1>3, AppendsOthers
<1>11. QED
  <2>1. DOMAIN t = 1 .. a + b
    BY <1>6, RangeLines
  <2>2. QED
    BY <1>6, <1>8, <1>9, <1>10, <2>1

(* Whole blocks, each on lines of its own, keep the file well formed.        *)
LEMMA AppendsSound ==
  ASSUME TypeOK, Bookkeeping, LeadKnown, Sound,
         NEW p \in Procs, NEW new \in Seq(Line), Appends(p, new)
  PROVE  Sound'
<1>1. SUFFICES ASSUME torn' = 0, edits' = 0 PROVE WellFormed(file')
  BY DEF Sound
<1>2. torn = 0 /\ edits = 0 /\ new = block[p] /\ Busy(p)
  BY <1>1 DEF Appends, TypeOK
<1>3. newline \/ lead[p]
  BY <1>2 DEF LeadKnown, AllLead
<1>4. file' = file \o new
  BY <1>3, AppendedFile
<1>5. WholeBlock(new)
  BY <1>2 DEF Bookkeeping, BlockForm, WholeBlock
<1>6. WellFormed(file)
  BY <1>2 DEF Sound
<1>7. QED
  BY <1>4, <1>5, <1>6, BlockCloses DEF TypeOK

-----------------------------------------------------------------------------
(* What a call has decided by the time it has read the file.                 *)
LEMMA ReadOutcome ==
  ASSUME TypeOK, NEW p \in Procs, Read(p)
  PROVE  /\ file' = file /\ newline' = newline /\ edits' = edits /\ torn' = torn /\ ~Busy(p)
         /\ seen'[p] = edits
         /\ \A q \in Procs : q # p =>
              /\ pc'[q] = pc[q] /\ block'[q] = block[q] /\ lead'[q] = lead[q] /\ seen'[q] = seen[q]
              /\ Busy(q)' <=> Busy(q)
         /\ Busy(p)' => /\ WellFormed(file) /\ WholeBlock(block'[p])
                        /\ Patterns \subseteq Range(file) \cup Range(block'[p])
                        /\ ~(Patterns \subseteq Range(file))
                        /\ lead'[p] <=> file # <<>> /\ ~newline
         /\ pc'[p] = "done" => WellFormed(file) /\ Patterns \subseteq Range(file)
         /\ overlap' <=> overlap \/ (Busy(p)' /\ \E q \in Procs : q # p /\ Busy(q))
<1> USE DEF TypeOK
<1>1. file \in Seq(Line) /\ (Accepts(file) <=> WellFormed(file))
  BY ScanIsPairing
<1>2. /\ pc'[p] \in {"refused", "done", "append"}
      /\ pc'[p] = "append" => Accepts(file) /\ Missing(file) # <<>>
      /\ pc'[p] = "done" => Accepts(file) /\ Missing(file) = <<>>
  BY DEF Read, ReadWith
<1>3. block'[p] = IF pc'[p] = "append" THEN Block(file) ELSE <<>>
  BY DEF Read, ReadWith
<1>4. lead'[p] <=> pc'[p] = "append" /\ file # <<>> /\ ~newline
  BY DEF Read, ReadWith
<1>5. overlap' <=> overlap \/ (Busy(p)' /\ \E q \in Procs : q # p /\ Busy(q))
  BY DEF Read, ReadWith, Busy
<1>6. \A q \in Procs : q # p =>
        pc'[q] = pc[q] /\ block'[q] = block[q] /\ lead'[q] = lead[q] /\ seen'[q] = seen[q]
  BY DEF Read, ReadWith
<1>7. file' = file /\ newline' = newline /\ edits' = edits /\ torn' = torn /\ ~Busy(p) /\ seen'[p] = edits
  BY DEF Read, ReadWith
<1>8. ASSUME Busy(p)'
      PROVE  /\ WellFormed(file) /\ WholeBlock(block'[p])
             /\ Patterns \subseteq Range(file) \cup Range(block'[p])
             /\ ~(Patterns \subseteq Range(file))
             /\ lead'[p] <=> file # <<>> /\ ~newline
  <2>1. pc'[p] = "append"
    BY <1>8 DEF Busy
  <2>2. block'[p] = Block(file)
    BY <1>3, <2>1
  <2>3. WholeBlock(block'[p]) /\ Patterns \subseteq Range(file) \cup Range(block'[p])
    BY <1>1, <2>2, BlockIsWhole
  <2>4. QED
    BY <1>1, <1>2, <1>4, <2>1, <2>3, NothingMissing
<1>9. pc'[p] = "done" => WellFormed(file) /\ Patterns \subseteq Range(file)
  BY <1>1, <1>2, NothingMissing
<1>10. QED
  BY <1>5, <1>6, <1>7, <1>8, <1>9 DEF Busy

(* A read keeps the invariant: the new writer knows of the missing newline.  *)
LEMMA ReadKeeps ==
  ASSUME IInv, NEW p \in Procs, Read(p)
  PROVE  IInv'
<1> USE DEF IInv
<1> DEFINE Read0 ==
      /\ file' = file /\ newline' = newline /\ edits' = edits /\ torn' = torn /\ ~Busy(p)
      /\ seen'[p] = edits
      /\ \A q \in Procs : q # p =>
           /\ pc'[q] = pc[q] /\ block'[q] = block[q] /\ lead'[q] = lead[q] /\ seen'[q] = seen[q]
           /\ Busy(q)' <=> Busy(q)
<1>1. Read0
  BY ReadOutcome
<1>2. Busy(p)' => /\ WellFormed(file) /\ WholeBlock(block'[p])
                  /\ Patterns \subseteq Range(file) \cup Range(block'[p])
                  /\ ~(Patterns \subseteq Range(file))
                  /\ lead'[p] <=> file # <<>> /\ ~newline
  BY ReadOutcome
<1>3. TypeOK'
  <2>1. \A q \in Procs : block'[q] \in Seq(Line)
    <3>1. block'[p] = <<>> \/ Busy(p)'
      BY DEF Read, ReadWith, Busy, TypeOK
    <3>2. block'[p] \in Seq(Line)
      BY <1>2, <3>1, EmptySeq DEF WholeBlock
    <3>3. QED
      BY <1>1, <3>2 DEF TypeOK
  <2>2. block' \in [Procs -> Seq(Line)]
    <3>1. \E v : block' = [block EXCEPT ![p] = v]
      BY DEF Read, ReadWith
    <3>2. QED
      BY <2>1, <3>1 DEF TypeOK
  <2>3. lead' \in [Procs -> BOOLEAN]
    BY DEF Read, ReadWith, TypeOK
  <2>4. pc' \in [Procs -> {"idle", "append", "done", "refused", "dead"}]
    BY DEF Read, ReadWith, TypeOK
  <2>5. seen' \in [Procs -> 0 .. MaxEdits] /\ overlap' \in BOOLEAN
    BY DEF Read, ReadWith, TypeOK
  <2>6. calls' \in 0 .. MaxCalls
    BY BoundsAssumption DEF Read, ReadWith, TypeOK
  <2>7. QED
    BY <1>1, <2>2, <2>3, <2>4, <2>5, <2>6 DEF TypeOK
<1>4. Bookkeeping'
  <2>1. ASSUME NEW q \in Procs PROVE seen'[q] <= edits'
    <3>1. edits \in Nat /\ seen[q] <= edits
      BY BoundsAssumption DEF Bookkeeping, TypeOK
    <3>2. CASE q = p
      BY <1>1, <3>1, <3>2
    <3>3. CASE q # p
      BY <1>1, <3>1, <3>3
    <3>4. QED
      BY <3>2, <3>3
  <2>2. ASSUME NEW q \in Procs, Busy(q)'
        PROVE  /\ Len(block'[q]) >= 2 /\ block'[q][1] = START
               /\ block'[q][Len(block'[q])] = END
               /\ \A i \in 2 .. Len(block'[q]) - 1 : block'[q][i] \in Patterns
    <3>1. CASE q = p
      BY <1>2, <2>2, <3>1 DEF WholeBlock
    <3>2. CASE q # p
      <4>1. block'[q] = block[q] /\ Busy(q)
        BY <1>1, <2>2, <3>2
      <4>2. QED
        BY <4>1, Zenon DEF Bookkeeping, BlockForm
    <3>3. QED
      BY <3>1, <3>2
  <2>3. QED
    BY <1>1, <2>1, <2>2 DEF Bookkeeping, BlockForm
<1>5. ~newline /\ AllLead => AllLead'
  BY <1>1, <1>2 DEF AllLead, Bookkeeping
<1>6. LeadKnown'
  BY <1>1, <1>5 DEF LeadKnown, Last0
<1>7. Loose' <=> Loose
  BY <1>1, <1>2 DEF Loose, Bookkeeping
<1>8. Secure' = Secure
  BY <1>1, <1>7 DEF Secure
<1>9. ASSUME torn < 2, WellFormed(file)
      PROVE  \A l \in Patterns : l \in Range(file) => l \in Secure
  <2>1. CASE ~Loose
    BY <2>1 DEF Secure
  <2>2. CASE Loose
    <3>1. file # <<>> /\ file \in Seq(Line) /\ Last0 \notin Patterns /\ Len(file) \in Nat
      BY <1>9, <2>2, LenProperties DEF Loose, Bookkeeping, LeadKnown, AllLead, TypeOK
    <3>2. Secure = {file[i] : i \in 1 .. Len(file) - 1}
      BY <2>2, <3>1, FrontLines DEF Secure
    <3>3. Range(file) = {file[i] : i \in 1 .. Len(file)}
      BY <3>1, RangeLines
    <3>4. \A i \in 1 .. Len(file) : i = Len(file) \/ i \in 1 .. Len(file) - 1
      BY <3>1
    <3>5. QED
      BY <3>1, <3>2, <3>3, <3>4 DEF Last0
  <2>3. QED
    BY <2>1, <2>2
<1>10. Covering'
  <2> SUFFICES ASSUME torn < 2, NEW q \in Procs, seen'[q] = edits
               PROVE  /\ Busy(q)' => Patterns \subseteq Secure \cup Range(block'[q])
                      /\ pc'[q] = "done" => Patterns \subseteq Secure
    BY <1>1, <1>8 DEF Covering
  <2>1. CASE q = p
    <3>1. pc'[p] = "done" => WellFormed(file) /\ Patterns \subseteq Range(file)
      BY ReadOutcome
    <3>2. QED
      BY <1>2, <1>9, <2>1, <3>1
  <2>2. CASE q # p
    BY <1>1, <2>2 DEF Covering
  <2>3. QED
    BY <2>1, <2>2
<1>11. Alone'
  <2> SUFFICES ASSUME ~overlap', edits = 0
               PROVE  /\ \A i, j \in DOMAIN file : file[i] = START /\ file[j] = START => i = j
                      /\ START \in Range(file) /\ WellFormed(file) => Patterns \subseteq Range(file)
                      /\ \A q \in Procs : Busy(q)' =>
                           /\ \A r \in Procs : Busy(r)' => r = q
                           /\ START \notin Range(file)
                           /\ Patterns \subseteq Range(file) \cup Range(block'[q])
                           /\ file # <<>> /\ ~newline => lead'[q]
    BY <1>1 DEF Alone
  <2>1. overlap' <=> overlap \/ (Busy(p)' /\ \E q \in Procs : q # p /\ Busy(q))
    BY ReadOutcome
  <2>2. ~overlap
    BY <2>1
  <2>3. /\ \A i, j \in DOMAIN file : file[i] = START /\ file[j] = START => i = j
        /\ START \in Range(file) /\ WellFormed(file) => Patterns \subseteq Range(file)
    BY <2>2 DEF Alone
  <2>4. ASSUME NEW q \in Procs, Busy(q)'
        PROVE  /\ \A r \in Procs : Busy(r)' => r = q
               /\ START \notin Range(file)
               /\ Patterns \subseteq Range(file) \cup Range(block'[q])
               /\ file # <<>> /\ ~newline => lead'[q]
    <3>1. CASE q = p
      <4>1. \A r \in Procs : Busy(r)' => r = q
        BY <1>1, <2>1, <2>4, <3>1
      <4>2. START \notin Range(file)
        BY <1>2, <2>3, <2>4, <3>1
      <4>3. QED
        BY <1>2, <2>4, <3>1, <4>1, <4>2
    <3>2. CASE q # p
      <4>1. Busy(q) /\ block'[q] = block[q] /\ lead'[q] = lead[q]
        BY <1>1, <2>4, <3>2
      <4>2. ~Busy(p)'
        BY <2>1, <3>2, <4>1
      <4>3. \A r \in Procs : Busy(r)' => Busy(r)
        BY <1>1, <4>2
      <4>4. QED
        BY <2>2, <4>1, <4>3 DEF Alone
    <3>3. QED
      BY <3>1, <3>2
  <2>5. QED
    BY <2>3, <2>4
<1>12. Sound'
  BY <1>1 DEF Sound
<1>13. QED
  BY <1>3, <1>4, <1>6, <1>10, <1>11, <1>12

(* So does a person, after whose edit no earlier read is current.            *)
LEMMA EditKeeps ==
  ASSUME IInv, PersonEdits
  PROVE  IInv'
<1> USE DEF IInv
<1>1. /\ newline' = TRUE /\ edits' = edits + 1
      /\ UNCHANGED <<pc, block, lead, seen, calls, overlap, torn>>
  BY DEF PersonEdits
<1>2. file' \in Seq(Line)
  <2>1. file \in Seq(Line) /\ DOMAIN file = 1 .. Len(file) /\ Len(file) \in Nat
    BY LenProperties DEF TypeOK
  <2>2. ASSUME NEW i \in 1 .. Len(file) PROVE RemoveAt(file, i) \in Seq(Line)
    <3>1. SubSeq(file, 1, i - 1) \in Seq(Line)
      <4>1. i - 1 \in 0 .. Len(file)
        BY <2>1
      <4>2. QED
        BY <2>1, <4>1, PrefixLines
    <3>2. SubSeq(file, i + 1, Len(file)) \in Seq(Line)
      <4>1. \A k \in i + 1 .. Len(file) : file[k] \in Line
        BY <2>1, ElementOfSeq
      <4>2. i + 1 \in Int /\ Len(file) \in Int
        BY <2>1
      <4>3. QED
        BY <4>1, <4>2, SubSeqProperties
    <3>3. QED
      BY <3>1, <3>2, ConcatProperties DEF RemoveAt
  <2>3. ASSUME NEW l \in {Note, PatternList[1]} PROVE Append(file, l) \in Seq(Line)
    <3>1. PatternList[1] \in Patterns
      <4>1. Len(PatternList) \in Nat /\ Len(PatternList) # 0
        BY LinesDiffer, LenProperties, EmptySeq
      <4>2. 1 \in 1 .. Len(PatternList)
        BY <4>1
      <4>3. QED
        BY <4>2, LinesDiffer, ElementOfSeq
    <3>2. l \in Line
      BY <3>1 DEF Line
    <3>3. QED
      BY <2>1, <3>2, AppendProperties
  <2>4. QED
    BY <2>1, <2>2, <2>3 DEF PersonEdits
<1>3. edits < MaxEdits
  BY DEF PersonEdits
<1>4. TypeOK'
  BY <1>1, <1>2, <1>3, BoundsAssumption DEF TypeOK
<1>5. \A q \in Procs : seen'[q] < edits'
  BY <1>1 DEF Bookkeeping, TypeOK
<1>6. Bookkeeping'
  <2>1. \A q \in Procs : seen'[q] <= edits'
    BY <1>4, <1>5 DEF TypeOK
  <2>2. BlockForm'
    BY <1>1 DEF Bookkeeping, BlockForm, Busy
  <2>3. QED
    BY <1>1, <2>1, <2>2 DEF Bookkeeping
<1>7. LeadKnown'
  BY <1>1 DEF LeadKnown
<1>8. Covering'
  <2>1. \A q \in Procs : seen'[q] # edits'
    BY <1>4, <1>5 DEF TypeOK
  <2>2. QED
    BY <2>1 DEF Covering
<1>9. edits' # 0
  BY <1>1 DEF TypeOK
<1>10. QED
  BY <1>4, <1>6, <1>7, <1>8, <1>9 DEF Alone, Sound

(* The file before the first run holds no marker.                            *)
LEMMA InitKeeps ==
  ASSUME Init
  PROVE  IInv
<1>1. PatternList[1] \in Patterns
  <2>1. Len(PatternList) \in Nat /\ Len(PatternList) # 0
    BY LinesDiffer, LenProperties, EmptySeq
  <2>2. 1 \in 1 .. Len(PatternList)
    BY <2>1
  <2>3. QED
    BY <2>2, LinesDiffer, ElementOfSeq
<1>2. \/ file = <<>> /\ newline = TRUE
      \/ \E l \in {Note, PatternList[1]} : file = <<l>> /\ newline \in BOOLEAN
  BY DEF Init
<1>3. file \in Seq(Line) /\ newline \in BOOLEAN /\ (~newline => file # <<>>)
  <2>1. Note \in Line /\ PatternList[1] \in Line
    BY <1>1 DEF Line
  <2>2. CASE file = <<>> /\ newline = TRUE
    BY <2>2
  <2>3. ASSUME NEW l \in {Note, PatternList[1]}, file = <<l>>, newline \in BOOLEAN
        PROVE  file \in Seq(Line) /\ newline \in BOOLEAN /\ file # <<>>
    BY <2>1, <2>3
  <2>4. QED
    BY <1>2, <2>2, <2>3
<1>4. \A i \in 1 .. Len(file) : file[i] # START /\ file[i] # END
  <2>1. \A l \in {Note, PatternList[1]} : l # START /\ l # END
    BY <1>1, DistinctLines, LinesDiffer
  <2>2. CASE file = <<>>
    BY <2>2
  <2>3. ASSUME NEW l \in {Note, PatternList[1]}, file = <<l>>
        PROVE  \A i \in 1 .. Len(file) : file[i] = l
    BY <2>3
  <2>4. QED
    BY <1>2, <2>1, <2>2, <2>3
<1>5. DOMAIN file = 1 .. Len(file)
  BY <1>3, LenProperties
<1>6. \A q \in Procs : ~Busy(q) /\ pc[q] = "idle" /\ seen[q] = 0
  BY DEF Init, Busy
<1>7. TypeOK
  <2>1. <<>> \in Seq(Line)
    BY EmptySeq
  <2>2. pc \in [Procs -> {"idle", "append", "done", "refused", "dead"}]
        /\ block \in [Procs -> Seq(Line)] /\ lead \in [Procs -> BOOLEAN]
    <3>1. pc \in [Procs -> {"idle", "append", "done", "refused", "dead"}]
      BY DEF Init
    <3>2. block \in [Procs -> Seq(Line)]
      BY <2>1 DEF Init
    <3>3. lead \in [Procs -> BOOLEAN]
      BY DEF Init
    <3>4. QED
      BY <3>1, <3>2, <3>3
  <2>3. edits \in 0 .. MaxEdits /\ calls \in 0 .. MaxCalls /\ seen \in [Procs -> 0 .. MaxEdits]
    <3>1. 0 \in 0 .. MaxEdits /\ 0 \in 0 .. MaxCalls
      BY BoundsAssumption
    <3>2. seen = [q \in Procs |-> 0] /\ edits = 0 /\ calls = 0
      BY DEF Init
    <3>3. QED
      BY <3>1, <3>2
  <2>4. overlap \in BOOLEAN /\ torn \in 0 .. 2
    <3>1. overlap = FALSE /\ torn = 0
      BY DEF Init
    <3>2. 0 \in 0 .. 2
      OBVIOUS
    <3>3. QED
      BY <3>1, <3>2
  <2>5. QED
    BY <1>3, <2>2, <2>3, <2>4 DEF TypeOK
<1>8. Bookkeeping
  BY <1>3, <1>6 DEF Bookkeeping, BlockForm, Init
<1>9. LeadKnown
  BY <1>6 DEF LeadKnown, AllLead
<1>10. Covering
  BY <1>6 DEF Covering
<1>11. Alone
  <2>1. START \notin Range(file)
    BY <1>4, <1>5 DEF Range
  <2>2. QED
    BY <1>4, <1>5, <1>6, <2>1 DEF Alone
<1>12. Sound
  BY <1>4, <1>5 DEF Sound, WellFormed
<1>13. QED
  BY <1>7, <1>8, <1>9, <1>10, <1>11, <1>12 DEF IInv

-----------------------------------------------------------------------------
(* Nothing changes in a stuttering step.                                    *)
LEMMA StutterKeeps ==
  ASSUME IInv, UNCHANGED vars
  PROVE  IInv'
<1> USE DEF IInv, vars
<1>1. TypeOK' /\ Bookkeeping'
  BY DEF TypeOK, Bookkeeping, BlockForm, Busy
<1>2. LeadKnown' /\ Sound'
  BY DEF LeadKnown, AllLead, Last0, Busy, Sound
<1>3. Secure' = Secure
  BY DEF Secure, Loose, Busy
<1>4. Covering'
  BY <1>3 DEF Covering, Busy
<1>5. Alone'
  BY DEF Alone, Busy
<1>6. QED
  BY <1>1, <1>2, <1>4, <1>5

(* The inductive invariant.                                                  *)
THEOREM Inductive == Spec => []IInv
<1>1. Init => IInv
  BY InitKeeps
<1>2. IInv /\ [Next]_vars => IInv'
  <2> SUFFICES ASSUME IInv, [Next]_vars PROVE IInv'
    OBVIOUS
  <2>1. ASSUME NEW p \in Procs, Read(p) PROVE IInv'
    BY <2>1, ReadKeeps
  <2>2. ASSUME NEW p \in Procs, WriteBlock(p) \/ Interrupted(p) PROVE IInv'
    <3>1. PICK new \in Seq(Line) : Appends(p, new)
      BY <2>2, AppendIsAppends DEF IInv
    <3>2. QED
      BY <3>1, AppendsType, AppendsLead, AppendsCover, AppendsAlone, AppendsSound DEF IInv
  <2>3. CASE PersonEdits
    BY <2>3, EditKeeps
  <2>4. CASE UNCHANGED vars
    BY <2>4, StutterKeeps
  <2>5. QED
    BY <2>1, <2>2, <2>3, <2>4 DEF Next
<1>3. QED
  BY <1>1, <1>2, PTL DEF Spec

(* A run that validated the file and a run that reads it today agree: the    *)
(* one-pass scan accepts exactly the files whose markers pair up.            *)
THEOREM ScanCorrect == Spec => []ScanAgrees
<1>1. IInv => ScanAgrees
  BY ScanIsPairing DEF IInv, TypeOK, ScanAgrees
<1>2. QED
  BY <1>1, Inductive, PTL

(* Every pattern is in the file when a call has returned, whatever the other *)
(* writers and one torn append did.                                          *)
THEOREM Covered == Spec => []CoveredWhenDone
<1>1. IInv => CoveredWhenDone
  <2> SUFFICES ASSUME IInv, NEW p \in Procs, pc[p] = "done", seen[p] = edits, torn < 2
               PROVE  Patterns \subseteq Range(file)
    BY DEF CoveredWhenDone
  <2>1. Patterns \subseteq Secure /\ file \in Seq(Line) /\ Len(file) \in Nat
    BY LenProperties DEF IInv, Covering, TypeOK
  <2>2. CASE ~Loose
    BY <2>1, <2>2 DEF Secure
  <2>3. CASE Loose
    <3>1. file # <<>>
      BY <2>3 DEF Loose, IInv, Bookkeeping
    <3>2. Secure = {file[i] : i \in 1 .. Len(file) - 1}
      BY <2>1, <2>3, <3>1, FrontLines DEF Secure
    <3>3. \A i \in 1 .. Len(file) - 1 : i \in 1 .. Len(file)
      BY <2>1
    <3>4. Secure \subseteq Range(file)
      BY <2>1, <3>2, <3>3, RangeLines
    <3>5. QED
      BY <2>1, <3>4
  <2>4. QED
    BY <2>2, <2>3
<1>2. QED
  BY <1>1, Inductive, PTL

(* Runs one after the other leave one block, torn or not, in a file no       *)
(* person edits.                                                             *)
THEOREM NoSecondBlock == Spec => []OneBlock
<1>1. IInv => OneBlock
  <2> SUFFICES ASSUME IInv, ~overlap, edits = 0
               PROVE  Cardinality({i \in DOMAIN file : file[i] = START}) <= 1
    BY DEF OneBlock
  <2> DEFINE S == {i \in DOMAIN file : file[i] = START}
  <2>1. \A i, j \in S : i = j
    BY DEF IInv, Alone
  <2> HIDE DEF S
  <2>2. CASE S = {}
    <3>1. Cardinality(S) = 0
      BY <2>2, FS_EmptySet, Zenon
    <3>2. QED
      BY <3>1 DEF S
  <2>3. CASE S # {}
    <3>1. PICK i : S = {i}
      BY <2>1, <2>3
    <3>2. Cardinality(S) = 1
      BY <3>1, FS_Singleton, Zenon
    <3>3. QED
      BY <3>2 DEF S
  <2>4. QED
    BY <2>2, <2>3
<1>2. QED
  BY <1>1, Inductive, PTL

(* Whole appends, overlapping or not, never leave a file that the next run   *)
(* refuses.                                                                  *)
THEOREM OnlyTornUnsound == Spec => []SoundUnlessTorn
<1>1. IInv => SoundUnlessTorn
  BY ScanIsPairing DEF IInv, TypeOK, Sound, SoundUnlessTorn
<1>2. QED
  BY <1>1, Inductive, PTL

(* No writer touches a line of the person's own.                             *)
THEOREM NotesSafe == Spec => NotesKept
<1>1. IInv /\ [Next]_vars =>
        [edits' = edits =>
           \A i \in DOMAIN file : file[i] = Note => i \in DOMAIN file' /\ file'[i] = Note]_vars
  <2> SUFFICES ASSUME IInv, Next, edits' = edits, NEW i \in DOMAIN file, file[i] = Note
               PROVE  i \in DOMAIN file' /\ file'[i] = Note
    OBVIOUS
  <2>1. CASE PersonEdits
    BY <2>1 DEF PersonEdits, IInv, TypeOK
  <2>2. ASSUME NEW p \in Procs, Read(p) PROVE file' = file
    BY <2>2, ReadOutcome DEF IInv
  <2>3. ASSUME NEW p \in Procs, WriteBlock(p) \/ Interrupted(p)
        PROVE  i \in DOMAIN file' /\ file'[i] = Note
    <3>1. PICK new \in Seq(Line) : Appends(p, new)
      BY <2>3, AppendIsAppends DEF IInv
    <3>2. /\ file \in Seq(Line) /\ Len(file) \in Nat
          /\ file' \in Seq(Line) /\ Len(file') \in Nat /\ Len(file') >= Len(file)
          /\ \A k \in 1 .. Len(file) - 1 : file'[k] = file[k]
      BY <3>1, AppendedFile DEF IInv, TypeOK
    <3>3. i \in 1 .. Len(file) /\ DOMAIN file' = 1 .. Len(file')
      BY <3>2, LenProperties
    <3>4. CASE newline \/ lead[p] \/ new = <<>>
      <4>1. file'[i] = file[i]
        BY <3>1, <3>3, <3>4, AppendedFile DEF IInv
      <4>2. QED
        BY <3>2, <3>3, <4>1
    <3>5. CASE ~(newline \/ lead[p] \/ new = <<>>)
      <4>1. Last0 # Note
        BY <3>1, <3>5 DEF IInv, LeadKnown, AllLead, Appends
      <4>2. i \in 1 .. Len(file) - 1
        BY <3>2, <3>3, <4>1 DEF Last0
      <4>3. QED
        BY <3>2, <3>3, <4>2
    <3>6. QED
      BY <3>4, <3>5
  <2>4. QED
    BY <2>1, <2>2, <2>3 DEF Next
<1>2. QED
  BY <1>1, Inductive, PTL DEF Spec, NotesKept

(* Every step of a writer is a step the promise allows, and so is every edit *)
(* of a person: the detailed module implements LayerExclude.                 *)
THEOREM Implements == Spec => KeepsExcluded
<1> DEFINE excluded == Patterns \subseteq Range(file)
           broken == ~Accepts(file) \/ torn = 2
<1>1. Init => Exclude!ExcludeInit
  BY DEF Init, Exclude!ExcludeInit
<1>2. IInv /\ [Next]_vars => [Exclude!Writers \/ Exclude!Editor]_<<excluded, broken, edits>>
  <2> SUFFICES ASSUME IInv, [Next]_vars
               PROVE  \/ Exclude!Writers \/ Exclude!Editor
                      \/ UNCHANGED <<excluded, broken, edits>>
    OBVIOUS
  <2>1. CASE PersonEdits
    BY <2>1 DEF PersonEdits, Exclude!Editor
  <2>2. ASSUME NEW p \in Procs, Read(p) PROVE Exclude!Writers
    BY <2>2, ReadOutcome DEF IInv, Exclude!Writers
  <2>3. ASSUME NEW p \in Procs, WriteBlock(p) \/ Interrupted(p) PROVE Exclude!Writers
    <3>1. PICK new \in Seq(Line) : Appends(p, new)
      BY <2>3, AppendIsAppends DEF IInv
    <3>2. SUFFICES ASSUME excluded, WellFormed(file), torn # 2 PROVE excluded'
      BY <3>1, ScanIsPairing DEF Appends, IInv, TypeOK, Exclude!Writers
    <3>3. /\ file \in Seq(Line) /\ Len(file) \in Nat
          /\ file' \in Seq(Line) /\ Len(file') \in Nat /\ Len(file') >= Len(file)
          /\ \A k \in 1 .. Len(file) - 1 : file'[k] = file[k]
      BY <3>1, AppendedFile DEF IInv, TypeOK
    <3>4. CASE newline \/ lead[p] \/ new = <<>>
      BY <3>1, <3>2, <3>4, AppendedFile DEF IInv
    <3>5. CASE ~(newline \/ lead[p] \/ new = <<>>)
      <4>1. Last0 \notin Patterns
        BY <3>1, <3>2, <3>5 DEF IInv, TypeOK, LeadKnown, AllLead, Appends
      <4>2. \A k \in 1 .. Len(file) : k = Len(file) \/ k \in 1 .. Len(file) - 1
        BY <3>3
      <4>3. \A k \in 1 .. Len(file) - 1 : k \in 1 .. Len(file')
        BY <3>3
      <4>4. Range(file) = {file[k] : k \in 1 .. Len(file)}
            /\ Range(file') = {file'[k] : k \in 1 .. Len(file')}
        BY <3>3, RangeLines
      <4>5. \A l \in Patterns : l \in Range(file')
        BY <3>2, <3>3, <4>1, <4>2, <4>3, <4>4 DEF Last0
      <4>6. QED
        BY <4>5
    <3>6. QED
      BY <3>4, <3>5
  <2>4. CASE UNCHANGED vars
    BY <2>4 DEF vars, Accepts
  <2>5. QED
    BY <2>1, <2>2, <2>3, <2>4 DEF Next
<1>3. QED
  BY <1>1, <1>2, Inductive, PTL DEF Spec, KeepsExcluded, Exclude!ExcludePromise
=============================================================================
