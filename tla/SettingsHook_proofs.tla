-------------------------- MODULE SettingsHook_proofs --------------------------
(***************************************************************************)
(* Proofs about SettingsHook.  A mark in stable[p] is put there by a step   *)
(* of p and taken away by anyone else who changes the file, so an invariant *)
(* can say what each mark means: how far p is (Marks), what it carries in   *)
(* memory (Carries) and what of that is still true of the file (Sees).  The *)
(* entries that a removal leaves come from a recursive function, about      *)
(* which the first lemmas reason by the least element of a set of numbers.  *)
(***************************************************************************)
EXTENDS SettingsHook, SequenceTheorems, FiniteSetTheorems, WellFoundedInduction, TLAPS

(* A set of naturals has a least element: what a proof by induction needs.  *)
LEMMA LeastNat ==
  ASSUME NEW T, T \subseteq Nat, T # {}
  PROVE  \E m \in T : \A n \in T : m <= n
<1>1. \E m \in T : \A n \in T : <<n, m>> \notin OpToRel(<, Nat)
  BY NatLessThanWellFounded, WFMin
<1>2. \A m, n \in Nat : n < m => <<n, m>> \in OpToRel(<, Nat)
  BY DEF OpToRel
<1>3. PICK m \in T : \A n \in T : ~(n < m)
  BY <1>1, <1>2
<1>4. QED
  BY <1>3

KeptUpTo(entries, drop, m, kept) ==
  [n \in 0 .. m |->
     IF n = 0 THEN <<>>
     ELSE IF entries[n] \in drop THEN kept[n-1] ELSE Append(kept[n-1], entries[n])]

(* The function that _merge_remove's filter runs through exists.            *)
LEMMA KeptExists ==
  ASSUME NEW entries, NEW drop, NEW m \in Nat
  PROVE  \E kept : kept = KeptUpTo(entries, drop, m, kept)
<1> DEFINE Has(n) == \E kept : kept = KeptUpTo(entries, drop, n, kept)
           Lacking == {n \in Nat : ~Has(n)}
<1> SUFFICES Lacking = {}
  OBVIOUS
<1>1. SUFFICES ASSUME NEW n \in Lacking, \A k \in Lacking : n <= k PROVE FALSE
  <2>1. Lacking \subseteq Nat
    OBVIOUS
  <2>2. QED
    BY <2>1, LeastNat
<1>2. CASE n = 0
  <2> DEFINE kept == [k \in 0 .. 0 |-> <<>>]
  <2>1. kept = KeptUpTo(entries, drop, 0, kept)
    BY DEF KeptUpTo
  <2>2. QED
    BY <1>1, <1>2, <2>1
<1>3. CASE n # 0
  <2>1. n - 1 \in Nat /\ n - 1 \notin Lacking
    BY <1>1, <1>3
  <2>2. PICK shorter : shorter = KeptUpTo(entries, drop, n - 1, shorter)
    BY <2>1
  <2> DEFINE last == IF entries[n] \in drop THEN shorter[n-1] ELSE Append(shorter[n-1], entries[n])
             kept == [k \in 0 .. n |-> IF k = n THEN last ELSE shorter[k]]
  <2>3. ASSUME NEW k \in 0 .. n
        PROVE  kept[k] = KeptUpTo(entries, drop, n, kept)[k]
    <3>1. CASE k = n
      BY <1>3, <3>1, <2>1 DEF KeptUpTo
    <3>2. CASE k # n
      <4>1. k \in 0 .. n - 1 /\ kept[k] = shorter[k] /\ (k # 0 => kept[k-1] = shorter[k-1])
        BY <3>2, <2>1
      <4>2. shorter[k] = KeptUpTo(entries, drop, n - 1, shorter)[k]
        BY <2>2
      <4>3. QED
        BY <4>1, <4>2 DEF KeptUpTo
    <3>3. QED
      BY <3>1, <3>2
  <2>4. kept = KeptUpTo(entries, drop, n, kept)
    <3> HIDE DEF last
    <3>1. KeptUpTo(entries, drop, n, kept) = [k \in 0 .. n |-> KeptUpTo(entries, drop, n, kept)[k]]
      BY DEF KeptUpTo
    <3>2. QED
      BY <2>3, <3>1
  <2>5. QED
    BY <1>1, <2>4
<1>4. QED
  BY <1>2, <1>3

(* Without is what that function gives for the whole sequence.             *)
LEMMA WithoutIsKept ==
  ASSUME NEW S, NEW entries \in Seq(S), NEW drop
  PROVE  \E kept : /\ kept = KeptUpTo(entries, drop, Len(entries), kept)
                   /\ Without(entries, drop) = kept[Len(entries)]
<1> DEFINE kept == CHOOSE kept : kept = KeptUpTo(entries, drop, Len(entries), kept)
<1>1. kept = KeptUpTo(entries, drop, Len(entries), kept)
  <2>1. Len(entries) \in Nat
    BY LenProperties
  <2>2. QED
    BY <2>1, KeptExists
<1>2. Without(entries, drop) = kept[Len(entries)]
  BY DEF Without, KeptUpTo
<1>3. QED
  BY <1>1, <1>2

(* Nothing is left of nothing.                                             *)
LEMMA WithoutEmpty ==
  ASSUME NEW drop
  PROVE  Without(<<>>, drop) = <<>>
<1>1. <<>> \in Seq({}) /\ Len(<<>>) = 0
  BY EmptySeq
<1>2. PICK kept : /\ kept = KeptUpTo(<<>>, drop, 0, kept)
                  /\ Without(<<>>, drop) = kept[0]
  BY <1>1, WithoutIsKept
<1>3. QED
  BY <1>2 DEF KeptUpTo

(* The last entry is dropped or kept, after what is left of the others.     *)
LEMMA WithoutAppend ==
  ASSUME NEW S, NEW entries \in Seq(S), NEW entry \in S, NEW drop
  PROVE  Without(Append(entries, entry), drop) =
           IF entry \in drop THEN Without(entries, drop)
           ELSE Append(Without(entries, drop), entry)
<1> DEFINE longer == Append(entries, entry)
           len == Len(entries)
<1>1. /\ longer \in Seq(S) /\ len \in Nat /\ Len(longer) = len + 1
      /\ longer[len + 1] = entry /\ \A n \in 1 .. len : longer[n] = entries[n]
  BY AppendProperties, LenProperties
<1>2. PICK f : f = KeptUpTo(entries, drop, len, f) /\ Without(entries, drop) = f[len]
  BY WithoutIsKept
<1>3. PICK g : g = KeptUpTo(longer, drop, len + 1, g) /\ Without(longer, drop) = g[len + 1]
  BY <1>1, WithoutIsKept
<1> HIDE DEF longer, len
<1>4. \A n \in 0 .. len : f[n] = g[n]
  <2> DEFINE Differ == {n \in Nat : n <= len /\ f[n] # g[n]}
  <2> SUFFICES Differ = {}
    BY <1>1
  <2>1. SUFFICES ASSUME NEW n \in Differ, \A k \in Differ : n <= k PROVE FALSE
    <3>1. Differ \subseteq Nat
      OBVIOUS
    <3>2. QED
      BY <3>1, LeastNat
  <2>2. n # 0 => n - 1 \in Nat /\ n - 1 \notin Differ /\ n - 1 <= len
    BY <2>1, <1>1
  <2>3. n # 0 => f[n-1] = g[n-1] /\ longer[n] = entries[n]
    BY <2>2, <1>1
  <2>4. n \in 0 .. len /\ n \in 0 .. len + 1
    BY <1>1
  <2>5. /\ f[n] = KeptUpTo(entries, drop, len, f)[n]
        /\ g[n] = KeptUpTo(longer, drop, len + 1, g)[n]
    BY <1>2, <1>3
  <2>6. QED
    BY <2>3, <2>4, <2>5 DEF KeptUpTo
<1>5. g[len + 1] = KeptUpTo(longer, drop, len + 1, g)[len + 1]
  BY <1>3
<1>6. /\ len + 1 \in 0 .. len + 1 /\ len + 1 # 0 /\ (len + 1) - 1 = len /\ len \in 0 .. len
  BY <1>1
<1>7. QED
  BY <1>1, <1>2, <1>3, <1>4, <1>5, <1>6 DEF KeptUpTo, longer

(* What is left are entries, and none that was to be dropped.              *)
LEMMA WithoutType ==
  ASSUME NEW S, NEW drop
  PROVE  \A entries \in Seq(S) : Without(entries, drop) \in Seq(S \ drop)
<1> DEFINE Bad == {n \in Nat : \E entries \in Seq(S) :
                      Len(entries) = n /\ Without(entries, drop) \notin Seq(S \ drop)}
<1> SUFFICES Bad = {}
  BY LenProperties
<1>1. SUFFICES ASSUME NEW n \in Bad, \A k \in Bad : n <= k PROVE FALSE
  <2>1. Bad \subseteq Nat
    OBVIOUS
  <2>2. QED
    BY <2>1, LeastNat
<1>2. PICK entries \in Seq(S) : Len(entries) = n /\ Without(entries, drop) \notin Seq(S \ drop)
  BY <1>1
<1>3. entries # <<>>
  BY <1>2, WithoutEmpty, EmptySeq
<1>4. PICK shorter \in Seq(S), entry \in S : entries = Append(shorter, entry)
  BY <1>3, SequenceEmptyOrAppend
<1>5. Len(shorter) \in Nat /\ n = Len(shorter) + 1
  BY <1>2, <1>4, AppendProperties, LenProperties
<1>6. Len(shorter) \notin Bad
  BY <1>1, <1>5
<1>7. Without(shorter, drop) \in Seq(S \ drop)
  BY <1>5, <1>6
<1>8. Without(entries, drop) = IF entry \in drop THEN Without(shorter, drop)
                               ELSE Append(Without(shorter, drop), entry)
  BY <1>4, WithoutAppend
<1>9. entry \notin drop => Append(Without(shorter, drop), entry) \in Seq(S \ drop)
  <2>1. entry \notin drop => entry \in S \ drop
    OBVIOUS
  <2>2. QED
    BY <1>7, <2>1, AppendProperties
<1>10. QED
  BY <1>2, <1>7, <1>8, <1>9

(* Dropping the same entries twice changes nothing more.                   *)
LEMMA WithoutTwice ==
  ASSUME NEW S, NEW drop
  PROVE  \A entries \in Seq(S) :
           Without(Without(entries, drop), drop) = Without(entries, drop)
<1> DEFINE Same(entries) == Without(Without(entries, drop), drop) = Without(entries, drop)
           Bad == {n \in Nat : \E entries \in Seq(S) : Len(entries) = n /\ ~Same(entries)}
<1> SUFFICES Bad = {}
  BY LenProperties
<1>1. SUFFICES ASSUME NEW n \in Bad, \A k \in Bad : n <= k PROVE FALSE
  <2>1. Bad \subseteq Nat
    OBVIOUS
  <2>2. QED
    BY <2>1, LeastNat
<1>2. PICK entries \in Seq(S) : Len(entries) = n /\ ~Same(entries)
  BY <1>1
<1>3. entries # <<>>
  BY <1>2, WithoutEmpty, EmptySeq
<1>4. PICK shorter \in Seq(S), entry \in S : entries = Append(shorter, entry)
  BY <1>3, SequenceEmptyOrAppend
<1>5. Len(shorter) \in Nat /\ n = Len(shorter) + 1
  BY <1>2, <1>4, AppendProperties, LenProperties
<1>6. Same(shorter)
  <2>1. Len(shorter) \notin Bad
    BY <1>1, <1>5
  <2>2. QED
    BY <2>1, <1>5
<1>7. Without(entries, drop) = IF entry \in drop THEN Without(shorter, drop)
                               ELSE Append(Without(shorter, drop), entry)
  BY <1>4, WithoutAppend
<1>8. entry \notin drop =>
        Without(Append(Without(shorter, drop), entry), drop)
          = Append(Without(Without(shorter, drop), drop), entry)
  <2>1. SUFFICES ASSUME entry \notin drop
        PROVE  Without(Append(Without(shorter, drop), entry), drop)
                 = Append(Without(Without(shorter, drop), drop), entry)
    OBVIOUS
  <2>2. PICK left \in Seq(S) : left = Without(shorter, drop)
    <3>1. Seq(S \ drop) \subseteq Seq(S)
      BY SeqMonotonic
    <3>2. QED
      BY <3>1, WithoutType
  <2>3. Without(Append(left, entry), drop)
          = IF entry \in drop THEN Without(left, drop) ELSE Append(Without(left, drop), entry)
    BY WithoutAppend
  <2>4. QED
    BY <2>1, <2>2, <2>3
<1>9. QED
  BY <1>2, <1>6, <1>7, <1>8

-----------------------------------------------------------------------------
(* What was made the document: the text it parsed, {} where there was none. *)
Base(p) == IF mem[p].loaded = Absent THEN Empty ELSE mem[p].loaded
Late == {"load", "backup", "check", "replace"}
Held(text, e) == text # Absent /\ HasGuild(text, e)

(* A mark of a step is there only after the step, and goes with the others. *)
Marks(p) ==
  /\ pc[p] \in Late \cup {"read"} /\ "begin" \in stable[p] => "plan" \in stable[p]
  /\ pc[p] \in Late /\ "plan" \in stable[p] => "read" \in stable[p]
  /\ pc[p] \in {"read", "load", "backup", "check"} => "check" \notin stable[p]

(* What a process carries from one step to the next. *)
Carries(p) ==
  /\ pc[p] \in {"idle", "plan", "read"} => mem[p] = Nothing
  /\ pc[p] = "load" => mem[p].loaded = Absent
  /\ pc[p] \in {"backup", "check"} => mem[p].loaded # Absent
  /\ pc[p] = "backup" => mem[p].doc = mem[p].loaded
  /\ pc[p] \in {"check", "replace"} => mem[p].doc = Merged(Base(p), event[p], remove[p])
  /\ pc[p] = "replace" /\ mem[p].loaded = Absent => "check" \notin stable[p]

(* What a mark says of the file. *)
Sees(p) ==
  /\ pc[p] \in Late \cup {"read"} /\ "plan" \in stable[p] => file # Garbled /\ ToDo(p)
  /\ pc[p] \in {"backup", "check", "replace"} /\ "read" \in stable[p] => file = mem[p].loaded
  /\ pc[p] \in {"check", "replace"} /\ "read" \in stable[p] /\ file # Absent => file \in backups
  /\ pc[p] = "replace" /\ "check" \in stable[p] => file = mem[p].original
  /\ Running(p) /\ event[p] = "UserPromptSubmit" /\ "begin" \in stable[p] =>
       file # Garbled /\ Held(file, "SessionStart") = ~remove[p]

Agrees(p) ==
  outcome[p] = "done" /\ "begin" \in stable[p] =>
    \A e \in Events : (file # Absent /\ GuildEntries(file, e) # {}) = ~remove[p]

Sound(p) == Marks(p) /\ Carries(p) /\ Sees(p) /\ Agrees(p)
IInv == TypeOK /\ \A p \in Procs : Sound(p)

-----------------------------------------------------------------------------
GuildOnes == {entry \in Entry : IsGuild(entry)}

(* A merged text is a settings document: only the one event's entries differ. *)
LEMMA MergedText ==
  ASSUME NEW text \in Settings, NEW e \in Events, NEW removing \in BOOLEAN
  PROVE  /\ Merged(text, e, removing) \in Settings
         /\ Merged(text, e, removing).keys = text.keys
         /\ \A d \in Events \ {e} : Merged(text, e, removing).hooks[d] = text.hooks[d]
         /\ Merged(text, e, removing).hooks[e] =
              IF removing THEN Without(text.hooks[e], GuildOnes)
              ELSE Append(text.hooks[e], "guild")
<1> DEFINE entries == IF removing THEN Without(text.hooks[e], GuildOnes)
                      ELSE Append(text.hooks[e], "guild")
           hooks == [text.hooks EXCEPT ![e] = entries]
<1>1. /\ text = [keys |-> text.keys, hooks |-> text.hooks]
      /\ text.keys \in Keys /\ text.hooks \in [Events -> Seq(Entry)]
  BY DEF Settings
<1>2. text.hooks[e] \in Seq(Entry)
  BY <1>1
<1>3. Without(text.hooks[e], GuildOnes) \in Seq(Entry)
  <2>1. Without(text.hooks[e], GuildOnes) \in Seq(Entry \ GuildOnes)
    BY <1>2, WithoutType
  <2>2. QED
    BY <2>1, SeqMonotonic
<1>4. Append(text.hooks[e], "guild") \in Seq(Entry)
  BY <1>2, AppendProperties DEF Entry
<1>5. entries \in Seq(Entry)
  BY <1>3, <1>4
<1>6. Merged(text, e, removing) = [text EXCEPT !.hooks = hooks]
  BY <1>1 DEF Merged, GuildOnes
<1> HIDE DEF entries
<1>7. hooks \in [Events -> Seq(Entry)] /\ hooks[e] = entries
      /\ \A d \in Events \ {e} : hooks[d] = text.hooks[d]
  BY <1>1, <1>5
<1> HIDE DEF hooks
<1>8. Merged(text, e, removing) = [keys |-> text.keys, hooks |-> hooks]
  BY <1>1, <1>6
<1>9. QED
  BY <1>1, <1>7, <1>8 DEF Settings, entries

(* After a merge the event holds a guild entry exactly if it was added.     *)
LEMMA MergedHasGuild ==
  ASSUME NEW text \in Settings, NEW e \in Events, NEW removing \in BOOLEAN
  PROVE  /\ HasGuild(Merged(text, e, removing), e) <=> ~removing
         /\ \A d \in Events \ {e} :
              HasGuild(Merged(text, e, removing), d) <=> HasGuild(text, d)
<1>1. text.hooks[e] \in Seq(Entry)
  BY DEF Settings
<1>2. removing => ~HasGuild(Merged(text, e, removing), e)
  <2> SUFFICES ASSUME removing = TRUE PROVE ~HasGuild(Merged(text, e, removing), e)
    OBVIOUS
  <2> DEFINE left == Without(text.hooks[e], GuildOnes)
  <2>1. left \in Seq(Entry \ GuildOnes)
    BY <1>1, WithoutType
  <2>2. Merged(text, e, removing).hooks[e] = left
    BY MergedText
  <2> HIDE DEF left
  <2>3. \A i \in DOMAIN left : left[i] \in Entry \ GuildOnes
    BY <2>1
  <2>4. QED
    BY <2>2, <2>3 DEF HasGuild, GuildOnes
<1>3. ~removing => HasGuild(Merged(text, e, removing), e)
  <2> SUFFICES ASSUME ~removing PROVE HasGuild(Merged(text, e, removing), e)
    OBVIOUS
  <2> DEFINE longer == Append(text.hooks[e], "guild")
  <2>1. Merged(text, e, removing).hooks[e] = longer
    BY MergedText
  <2>2. Len(longer) \in DOMAIN longer /\ longer[Len(longer)] = "guild"
    BY <1>1, AppendProperties DEF Entry
  <2> HIDE DEF longer
  <2>3. QED
    BY <2>1, <2>2 DEF HasGuild, IsGuild
<1>4. QED
  BY <1>2, <1>3, MergedText DEF HasGuild

(* {} is a settings document without a guild entry.                        *)
LEMMA EmptyText ==
  Empty \in Settings /\ \A e \in Events : ~HasGuild(Empty, e)
<1>1. <<>> \in Seq(Entry)
  BY EmptySeq
<1>2. NoHooks \in [Events -> Seq(Entry)] /\ \A e \in Events : NoHooks[e] = <<>>
  BY <1>1 DEF NoHooks
<1>3. Empty.hooks = NoHooks
  BY DEF Empty
<1>4. QED
  BY <1>2, <1>3, SettingsAssumption DEF Empty, Settings, HasGuild

-----------------------------------------------------------------------------
Points == {"idle", "plan", "read", "load", "backup", "check", "replace"}
Texts == Settings \cup {Absent, Garbled}
Memory == [original : Texts, loaded : Settings \cup {Absent}, doc : Settings]
Outcomes == {"none", "running", "failed", "done"}
SeenSteps == {"begin", "plan", "read", "check"}

(* One process ends its run, or goes on to the second event. *)
LEMMA EndsType ==
  ASSUME TypeOK, NEW p \in Procs, NEW how \in {"failed", "done"}, Ends(p, how)
  PROVE  /\ pc' \in [Procs -> Points] /\ mem' \in [Procs -> Memory]
         /\ outcome' \in [Procs -> Outcomes]
         /\ \A q \in Procs : (outcome'[q] = "running") <=> (pc'[q] # "idle")
<1>1. Nothing \in Memory
  BY EmptyText DEF Nothing, Memory, Texts
<1>2. QED
  BY <1>1 DEF TypeOK, Ends, Running, Points, Memory, Texts, Outcomes

(* The session event is followed by the prompt event, that one by the end.   *)
LEMMA NextEventType ==
  ASSUME TypeOK, NEW p \in Procs, Running(p), NextEvent(p)
  PROVE  /\ pc' \in [Procs -> Points] /\ mem' \in [Procs -> Memory]
         /\ outcome' \in [Procs -> Outcomes] /\ event' \in [Procs -> Events]
         /\ \A q \in Procs : (outcome'[q] = "running") <=> (pc'[q] # "idle")
<1>1. CASE event[p] = "SessionStart"
  <2>1. Nothing \in Memory
    BY EmptyText DEF Nothing, Memory, Texts
  <2>2. QED
    BY <1>1, <2>1
    DEF NextEvent, TypeOK, Running, Points, Memory, Texts, Outcomes, Events
<1>2. CASE event[p] # "SessionStart"
  BY <1>2, EndsType DEF NextEvent, TypeOK
<1>3. QED
  BY <1>1, <1>2

(* What a person makes of the file is a text again.                        *)
LEMMA EditedType ==
  ASSUME TypeOK
  PROVE  Edited \subseteq Texts
<1> SUFFICES ASSUME NEW text \in Edited PROVE text \in Texts
  OBVIOUS
<1>1. backups \subseteq Texts /\ Empty \in Texts
  BY EmptyText DEF TypeOK, Texts
<1>2. CASE ~IsSettings(file)
  BY <1>1, <1>2 DEF Edited, Texts
<1>3. CASE IsSettings(file)
  <2>1. /\ file \in Settings
        /\ file = [keys |-> file.keys, hooks |-> file.hooks]
        /\ file.keys \in Keys /\ file.hooks \in [Events -> Seq(Entry)]
    BY <1>3 DEF TypeOK, IsSettings, Settings
  <2>2. ASSUME NEW entries \in Seq(Entry), NEW e \in Events,
               text = [file EXCEPT !.hooks[e] = entries]
        PROVE  text \in Settings
    <3> DEFINE hooks == [file.hooks EXCEPT ![e] = entries]
    <3>1. hooks \in [Events -> Seq(Entry)]
      BY <2>1
    <3>2. text = [file EXCEPT !.hooks = hooks]
      BY <2>1, <2>2
    <3> HIDE DEF hooks
    <3>3. text = [keys |-> file.keys, hooks |-> hooks]
      BY <2>1, <3>2
    <3>4. QED
      BY <2>1, <3>1, <3>3 DEF Settings
  <2>3. CASE \E k \in Keys : text = [file EXCEPT !.keys = k]
    BY <2>1, <2>3 DEF Settings, Texts
  <2>4. CASE \E e \in Events : text = [file EXCEPT !.hooks[e] = Append(file.hooks[e], "other")]
    <3>1. PICK e \in Events : text = [file EXCEPT !.hooks[e] = Append(file.hooks[e], "other")]
      BY <2>4
    <3>2. Append(file.hooks[e], "other") \in Seq(Entry)
      BY <2>1, AppendProperties DEF Entry
    <3>3. QED
      BY <2>2, <3>1, <3>2 DEF Texts
  <2>5. CASE \E e \in Events : \E i \in DOMAIN file.hooks[e] :
               text = [file EXCEPT !.hooks[e] = [file.hooks[e] EXCEPT ![i] = "shared"]]
    <3>0. PICK e \in Events :
             \E i \in DOMAIN file.hooks[e] :
               text = [file EXCEPT !.hooks[e] = [file.hooks[e] EXCEPT ![i] = "shared"]]
      BY <2>5
    <3>1. PICK i \in DOMAIN file.hooks[e] :
             text = [file EXCEPT !.hooks[e] = [file.hooks[e] EXCEPT ![i] = "shared"]]
      BY <3>0
    <3>2. file.hooks[e] \in Seq(Entry) /\ i \in 1 .. Len(file.hooks[e])
      BY <2>1, <3>1
    <3>3. [file.hooks[e] EXCEPT ![i] = "shared"] \in Seq(Entry)
      BY <3>2, ExceptSeq DEF Entry
    <3>4. QED
      BY <2>2, <3>1, <3>3 DEF Texts
  <2>6. CASE \E e \in Events :
               file.hooks[e] # <<>> /\ text = [file EXCEPT !.hooks[e] = Tail(file.hooks[e])]
    <3>1. PICK e \in Events : /\ file.hooks[e] # <<>>
                              /\ text = [file EXCEPT !.hooks[e] = Tail(file.hooks[e])]
      BY <2>6
    <3>2. Tail(file.hooks[e]) \in Seq(Entry)
      BY <2>1, <3>1, HeadTailProperties
    <3>3. QED
      BY <2>2, <3>1, <3>2 DEF Texts
  <2>7. CASE text \in backups \cup {Absent, Garbled}
    BY <1>1, <2>7 DEF Texts
  <2>8. QED
    BY <1>3, <2>3, <2>4, <2>5, <2>6, <2>7 DEF Edited
<1>4. QED
  BY <1>2, <1>3

(* Every step keeps the types.                                             *)
LEMMA TypeStep ==
  ASSUME TypeOK, [Next]_vars
  PROVE  TypeOK'
<1> USE SettingsAssumption
<1>1. ASSUME NEW p \in Procs, NEW removing \in BOOLEAN, Begin(p, removing)
      PROVE  TypeOK'
  BY <1>1 DEF TypeOK, Begin, Running, Events
<1>2. ASSUME NEW p \in Procs, Plan(p) PROVE TypeOK'
  <2>1. stable' \in [Procs -> SUBSET SeenSteps] /\ Running(p)
    BY <1>2 DEF TypeOK, Plan, SeenSteps, Running
  <2>2. CASE Ends(p, "failed") /\ UNCHANGED event
    BY <1>2, <2>1, <2>2, EndsType
    DEF TypeOK, Plan, SeenSteps, Running, Points, Memory, Texts, Outcomes
  <2>3. CASE pc' = [pc EXCEPT ![p] = "read"] /\ UNCHANGED <<event, outcome, mem>>
    BY <1>2, <2>1, <2>3 DEF TypeOK, Plan, SeenSteps, Running
  <2>4. CASE NextEvent(p)
    BY <1>2, <2>1, <2>4, NextEventType
    DEF TypeOK, Plan, SeenSteps, Running, Points, Memory, Texts, Outcomes
  <2>5. QED
    BY <1>2, <2>2, <2>3, <2>4 DEF Plan
<1>3. ASSUME NEW p \in Procs, Read(p) PROVE TypeOK'
  <2>1. mem' \in [Procs -> Memory]
    <3>1. Merged(Empty, event[p], remove[p]) \in Settings /\ file \in Texts
      BY EmptyText, MergedText DEF TypeOK, Texts
    <3>2. mem \in [Procs -> Memory]
      BY DEF TypeOK, Memory, Texts
    <3>3. \/ mem' = [mem EXCEPT ![p].doc = Merged(Empty, event[p], remove[p])]
          \/ mem' = [mem EXCEPT ![p].original = file]
      BY <1>3 DEF Read
    <3>4. QED
      BY <3>1, <3>2, <3>3 DEF Memory
  <2>2. pc' \in [Procs -> Points] /\ Running(p)
    BY <1>3 DEF TypeOK, Read, Running, Points
  <2>3. stable' \in [Procs -> SUBSET SeenSteps]
    BY <1>3 DEF TypeOK, Read, Notes, SeenSteps
  <2>4. QED
    BY <1>3, <2>1, <2>2, <2>3 DEF TypeOK, Read, Running, Points, SeenSteps, Memory, Texts
<1>4. ASSUME NEW p \in Procs, Load(p) PROVE TypeOK'
  <2>1. CASE Parses(file)
    <3>1. mem' \in [Procs -> Memory]
      BY <1>4, <2>1 DEF Load, TypeOK, Memory, Texts, Parses, IsSettings
    <3>2. QED
      BY <1>4, <2>1, <3>1 DEF TypeOK, Load, Running, Memory, Texts
  <2>2. CASE ~Parses(file)
    BY <1>4, <2>2, EndsType
    DEF TypeOK, Load, Running, Points, Memory, Texts, Outcomes
  <2>3. QED
    BY <2>1, <2>2
<1>5. ASSUME NEW p \in Procs, BackUp(p) PROVE TypeOK'
  <2>1. stable' \in [Procs -> SUBSET SeenSteps]
    BY <1>5 DEF TypeOK, BackUp, BackUpOf, Notes, SeenSteps
  <2>2. CASE file = Absent
    BY <1>5, <2>1, <2>2, EndsType
    DEF TypeOK, BackUp, BackUpOf, SeenSteps, Running, Points, Memory, Texts, Outcomes
  <2>3. CASE file # Absent
    <3>1. Merged(mem[p].doc, event[p], remove[p]) \in Settings
      BY MergedText DEF TypeOK
    <3>2. mem' \in [Procs -> Memory]
      BY <1>5, <2>3, <3>1 DEF BackUp, BackUpOf, TypeOK, Memory, Texts
    <3>3. QED
      BY <1>5, <2>1, <2>3, <3>2
      DEF TypeOK, BackUp, BackUpOf, SeenSteps, Running, Memory, Texts
  <2>4. QED
    BY <2>2, <2>3
<1>6. ASSUME NEW p \in Procs, Check(p) PROVE TypeOK'
  <2>1. stable' \in [Procs -> SUBSET SeenSteps]
    BY <1>6 DEF TypeOK, Check, Notes, SeenSteps
  <2>2. CASE Unchanged(p)
    BY <1>6, <2>1, <2>2, ZenonT(40) DEF TypeOK, Check, SeenSteps, Running
  <2>3. CASE ~Unchanged(p)
    BY <1>6, <2>1, <2>3, EndsType
    DEF TypeOK, Check, SeenSteps, Running, Points, Memory, Texts, Outcomes
  <2>4. QED
    BY <2>2, <2>3
<1>7. ASSUME NEW p \in Procs, Replace(p) PROVE TypeOK'
  <2>1. stable' \in [Procs -> SUBSET SeenSteps] /\ Running(p) /\ NextEvent(p)
    BY <1>7 DEF TypeOK, Replace, Disturbs, SeenSteps, Running
  <2>2. QED
    BY <1>7, <2>1, NextEventType
    DEF TypeOK, Replace, SeenSteps, Running, Points, Memory, Texts, Outcomes
<1>8. ASSUME NEW p \in Procs, Dies(p) PROVE TypeOK'
  <2>1. Ends(p, "failed")
    BY <1>8 DEF Dies
  <2>2. QED
    BY <1>8, <2>1, EndsType
    DEF TypeOK, Dies, Running, Points, Memory, Texts, Outcomes
<1>9. ASSUME PersonEdits PROVE TypeOK'
  BY <1>9, EditedType DEF TypeOK, PersonEdits, Running, Texts
<1>10. CASE UNCHANGED vars
  BY <1>10 DEF vars, TypeOK, Running
<1>11. QED
  BY <1>1, <1>2, <1>3, <1>4, <1>5, <1>6, <1>7, <1>8, <1>9, <1>10 DEF Next, Guild

-----------------------------------------------------------------------------
(* The two ways of asking for a guild entry agree (_is_guild_entry).        *)
LEMMA GuildEntriesHeld ==
  ASSUME NEW text, NEW e
  PROVE  GuildEntries(text, e) # {} <=> HasGuild(text, e)
BY DEF GuildEntries, HasGuild, IsGuild

(* A step of someone else is seen only through the file, and forgets the     *)
(* marks if it changes it.                                                   *)
LEMMA Bystander ==
  ASSUME NEW q \in Procs, Sound(q),
         pc'[q] = pc[q], event'[q] = event[q], remove'[q] = remove[q],
         mem'[q] = mem[q], outcome'[q] = outcome[q],
         \/ stable'[q] = {}
         \/ stable'[q] = stable[q] /\ file' = file /\ backups \subseteq backups'
  PROVE  Sound(q)'
<1>1. Base(q)' = Base(q)
  BY DEF Base
<1>2. Marks(q)' /\ Carries(q)'
  BY <1>1 DEF Sound, Marks, Carries, Late
<1>3. CASE stable'[q] = {}
  BY <1>2, <1>3 DEF Sound, Sees, Agrees
<1>4. CASE stable'[q] = stable[q] /\ file' = file /\ backups \subseteq backups'
  <2>1. ToDo(q)' <=> ToDo(q)
    BY <1>4 DEF ToDo
  <2>2. QED
    BY <1>2, <1>4, <2>1 DEF Sound, Sees, Agrees, Late, Running
<1>5. QED
  BY <1>3, <1>4

(* A process whose run has just ended, for better or worse. *)
LEMMA Ended ==
  ASSUME TypeOK, NEW p \in Procs, NEW how, Ends(p, how),
         how = "failed" \/ Agrees(p)'
  PROVE  Sound(p)'
<1>1. pc'[p] = "idle" /\ mem'[p] = Nothing /\ outcome'[p] = how
  BY DEF Ends, TypeOK
<1>2. QED
  BY <1>1 DEF Sound, Marks, Carries, Sees, Agrees, Late, Running

(* One lemma per action of a process: the action leaves its own marks,      *)
(* memory and claims in order.                                              *)
LEMMA BeginSound ==
  ASSUME IInv, NEW p \in Procs, NEW removing \in BOOLEAN, Begin(p, removing)
  PROVE  Sound(p)'
<1>1. /\ pc'[p] = "plan" /\ event'[p] = "SessionStart" /\ mem'[p] = mem[p]
      /\ outcome'[p] = "running" /\ pc[p] = "idle"
  BY DEF IInv, TypeOK, Begin, Running
<1>2. mem'[p] = Nothing
  BY <1>1 DEF IInv, Sound, Carries
<1>3. QED
  BY <1>1, <1>2 DEF Sound, Marks, Carries, Sees, Agrees, Late

(* What a step to the next event makes true, once the event's own hook is as *)
(* the run wants it.                                                         *)
LEMMA NextEventSound ==
  ASSUME IInv, NEW p \in Procs, Running(p), NextEvent(p), remove' = remove,
         "begin" \in stable'[p] =>
           /\ file' # Garbled
           /\ Held(file', event[p]) <=> ~remove[p]
           /\ event[p] = "UserPromptSubmit" => (Held(file', "SessionStart") <=> ~remove[p])
  PROVE  Sound(p)'
<1> USE DEF IInv
<1>1. remove[p] \in BOOLEAN /\ event[p] \in Events
  BY DEF TypeOK
<1>2. CASE event[p] = "SessionStart"
  <2>1. /\ pc'[p] = "plan" /\ event'[p] = "UserPromptSubmit" /\ mem'[p] = Nothing
        /\ outcome'[p] = "running"
    BY <1>2 DEF NextEvent, TypeOK
  <2>2. "begin" \in stable'[p] => file' # Garbled /\ Held(file', "SessionStart") = ~remove'[p]
    BY <1>1, <1>2 DEF Held
  <2>3. QED
    BY <2>1, <2>2 DEF Sound, Marks, Carries, Sees, Agrees, Late, Held
<1>3. CASE event[p] = "UserPromptSubmit"
  <2>1. Ends(p, "done")
    BY <1>3 DEF NextEvent
  <2>2. "begin" \in stable'[p] =>
          \A e \in Events : (file' # Absent /\ GuildEntries(file', e) # {}) <=> ~remove[p]
    BY <1>3, GuildEntriesHeld DEF Events, Held
  <2>3. Agrees(p)'
    BY <1>1, <2>2 DEF Agrees
  <2>4. QED
    BY <2>1, <2>3, Ended
<1>4. QED
  BY <1>1, <1>2, <1>3 DEF Events

(* plan_hook: what the plan found is still so.                              *)
LEMMA PlanSound ==
  ASSUME IInv, NEW p \in Procs, Plan(p)
  PROVE  Sound(p)'
<1> USE DEF IInv
<1>1. /\ pc[p] = "plan" /\ file' = file /\ remove' = remove
      /\ stable'[p] = (stable[p] \cap {"begin"}) \cup {"plan"}
      /\ remove[p] \in BOOLEAN /\ event[p] \in Events
  BY DEF Plan, TypeOK
<1>2. CASE file = Garbled
  BY <1>2, Ended DEF Plan
<1>3. CASE file # Garbled /\ ToDo(p)
  <2>1. /\ pc'[p] = "read" /\ event' = event /\ outcome' = outcome /\ mem' = mem
    BY <1>3 DEF Plan, TypeOK
  <2>2. ToDo(p)'
    BY <1>1, <1>3, <2>1 DEF ToDo
  <2>3. outcome[p] = "running"
    BY <1>1 DEF TypeOK, Running
  <2>4. QED
    BY <1>1, <1>3, <2>1, <2>2, <2>3
    DEF Sound, Marks, Carries, Sees, Agrees, Late, Running, Held
<1>4. CASE file # Garbled /\ ~ToDo(p)
  <2>1. NextEvent(p) /\ Running(p)
    BY <1>1, <1>4 DEF Plan, Running
  <2>2. Held(file, event[p]) <=> ~remove[p]
    BY <1>1, <1>4 DEF ToDo, Held, HasGuild
  <2>3. "begin" \in stable'[p] /\ event[p] = "UserPromptSubmit" =>
          (Held(file, "SessionStart") <=> ~remove[p])
    BY <1>1, <2>1 DEF Sound, Sees, Held
  <2>4. QED
    BY <1>1, <1>4, <2>1, <2>2, <2>3, NextEventSound
<1>5. QED
  BY <1>2, <1>3, <1>4

(* The first read: no file means {} is what gets merged.                   *)
LEMMA ReadSound ==
  ASSUME IInv, NEW p \in Procs, Read(p)
  PROVE  Sound(p)'
<1> USE DEF IInv
<1>1. /\ pc[p] = "read" /\ file' = file /\ remove' = remove /\ event' = event
      /\ outcome' = outcome /\ stable'[p] = stable[p] \cup {"read"}
      /\ mem[p] = Nothing /\ outcome[p] = "running"
  BY DEF Read, Notes, TypeOK, Running, Sound, Carries
<1>2. ToDo(p)' <=> ToDo(p)
  BY <1>1 DEF ToDo
<1>3. CASE file = Absent
  <2>1. pc'[p] = "replace" /\ mem'[p] = [mem[p] EXCEPT !.doc = Merged(Empty, event[p], remove[p])]
    BY <1>3 DEF Read, TypeOK
  <2>2. mem'[p].loaded = Absent /\ mem'[p].doc = Merged(Empty, event[p], remove[p])
    BY <1>1, <2>1 DEF Nothing
  <2>3. Base(p)' = Empty
    BY <2>2 DEF Base
  <2>4. "check" \notin stable'[p]
    BY <1>1 DEF Sound, Marks
  <2>5. QED
    BY <1>1, <1>2, <1>3, <2>1, <2>2, <2>3, <2>4
    DEF Sound, Marks, Carries, Sees, Agrees, Late, Running
<1>4. CASE file # Absent
  <2>1. pc'[p] = "load" /\ mem'[p] = [mem[p] EXCEPT !.original = file]
    BY <1>4 DEF Read, TypeOK
  <2>2. mem'[p].loaded = Absent
    BY <1>1, <2>1 DEF Nothing
  <2>3. QED
    BY <1>1, <1>2, <2>1, <2>2 DEF Sound, Marks, Carries, Sees, Agrees, Late, Running
<1>5. QED
  BY <1>3, <1>4

(* The second read: the document is what the file held.                     *)
LEMMA LoadSound ==
  ASSUME IInv, NEW p \in Procs, Load(p)
  PROVE  Sound(p)'
<1> USE DEF IInv
<1>1. CASE Parses(file)
  <2>1. /\ pc[p] = "load" /\ pc'[p] = "backup" /\ file' = file /\ remove' = remove
        /\ event' = event /\ outcome' = outcome /\ stable' = stable
        /\ mem'[p] = [mem[p] EXCEPT !.doc = file, !.loaded = file] /\ outcome[p] = "running"
    BY <1>1 DEF Load, TypeOK, Running
  <2>2. mem'[p].loaded = file /\ mem'[p].doc = file
    BY <2>1 DEF TypeOK
  <2>3. ToDo(p)' <=> ToDo(p)
    BY <2>1 DEF ToDo
  <2>4. QED
    BY <1>1, <2>1, <2>2, <2>3
    DEF Sound, Marks, Carries, Sees, Agrees, Late, Running, Parses, IsSettings
<1>2. CASE ~Parses(file)
  BY <1>2, Ended DEF Load
<1>3. QED
  BY <1>1, <1>2

(* The third read: the file is in a backup, and the document is merged.     *)
LEMMA BackUpSound ==
  ASSUME IInv, NEW p \in Procs, BackUp(p)
  PROVE  Sound(p)'
<1> USE DEF IInv
<1>1. CASE file # Absent
  <2>1. /\ pc[p] = "backup" /\ pc'[p] = "check" /\ file' = file /\ remove' = remove
        /\ event' = event /\ outcome' = outcome /\ stable' = stable
        /\ mem'[p] = [mem[p] EXCEPT !.doc = Merged(@, event[p], remove[p])]
        /\ outcome[p] = "running" /\ file \in backups'
    BY <1>1 DEF BackUp, BackUpOf, Notes, TypeOK, Running
  <2>2. mem'[p].loaded = mem[p].loaded /\ mem'[p].doc = Merged(mem[p].doc, event[p], remove[p])
    BY <2>1 DEF TypeOK
  <2>3. /\ mem[p].loaded # Absent /\ mem[p].doc = mem[p].loaded
        /\ Base(p)' = mem[p].doc
    BY <2>1, <2>2 DEF Sound, Carries, Base
  <2>4. ToDo(p)' <=> ToDo(p)
    BY <2>1 DEF ToDo
  <2>5. QED
    BY <2>1, <2>2, <2>3, <2>4 DEF Sound, Marks, Carries, Sees, Agrees, Late, Running
<1>2. CASE file = Absent
  BY <1>2, Ended DEF BackUp, BackUpOf
<1>3. QED
  BY <1>1, <1>2

(* The last look: the file is what was read first.                          *)
LEMMA CheckSound ==
  ASSUME IInv, NEW p \in Procs, Check(p)
  PROVE  Sound(p)'
<1> USE DEF IInv
<1>1. CASE Unchanged(p)
  <2>1. /\ pc[p] = "check" /\ pc'[p] = "replace" /\ file' = file /\ remove' = remove
        /\ event' = event /\ outcome' = outcome /\ stable'[p] = stable[p] \cup {"check"}
        /\ mem' = mem /\ outcome[p] = "running" /\ backups' = backups
        /\ file = mem[p].original
    BY <1>1 DEF Check, Notes, TypeOK, Running, Unchanged
  <2>2. ToDo(p)' <=> ToDo(p)
    BY <2>1 DEF ToDo
  <2>3. Base(p)' = Base(p)
    BY <2>1 DEF Base
  <2>4. QED
    BY <2>1, <2>2, <2>3 DEF Sound, Marks, Carries, Sees, Agrees, Late, Running
<1>2. CASE ~Unchanged(p)
  BY <1>2, Ended DEF Check
<1>3. QED
  BY <1>1, <1>2

(* What a run writes: what it parsed, with its own hook in or out.           *)
LEMMA Written ==
  ASSUME IInv, NEW p \in Procs, Replace(p)
  PROVE  /\ Base(p) \in Settings /\ file' = Merged(Base(p), event[p], remove[p])
         /\ file' \in Settings
         /\ "plan" \in stable[p] => file = mem[p].loaded /\ file # Garbled /\ ToDo(p)
<1>1. pc[p] = "replace" /\ file' = mem[p].doc
  BY DEF Replace
<1>2. Base(p) \in Settings
  BY EmptyText DEF Base, IInv, TypeOK
<1>3. file' = Merged(Base(p), event[p], remove[p])
  BY <1>1 DEF IInv, Sound, Carries
<1>4. "plan" \in stable[p] => file = mem[p].loaded /\ file # Garbled /\ ToDo(p)
  BY <1>1 DEF IInv, Sound, Marks, Sees, Late
<1>5. QED
  BY <1>2, <1>3, <1>4, MergedText DEF IInv, TypeOK

(* The replacement: the event is as the run wants it, and the earlier one   *)
(* stays as it was.                                                         *)
LEMMA ReplaceSound ==
  ASSUME IInv, NEW p \in Procs, Replace(p)
  PROVE  Sound(p)'
<1>1. /\ pc[p] = "replace" /\ Running(p) /\ NextEvent(p) /\ remove' = remove
      /\ stable'[p] = stable[p] /\ remove[p] \in BOOLEAN /\ event[p] \in Events
  BY DEF Replace, Disturbs, IInv, TypeOK, Running
<1>2. file' # Garbled /\ file' # Absent
  BY Written, SettingsAssumption
<1>3. /\ HasGuild(file', event[p]) <=> ~remove[p]
      /\ \A d \in Events \ {event[p]} : HasGuild(file', d) <=> HasGuild(Base(p), d)
  BY <1>1, Written, MergedHasGuild
<1>4. "begin" \in stable[p] /\ event[p] = "UserPromptSubmit" =>
        (Held(file', "SessionStart") <=> ~remove[p])
  <2> SUFFICES ASSUME "begin" \in stable[p], event[p] = "UserPromptSubmit"
               PROVE  HasGuild(file', "SessionStart") <=> ~remove[p]
    BY <1>2 DEF Held
  <2>1. "plan" \in stable[p]
    BY <1>1 DEF IInv, Sound, Marks, Late
  <2>2. Held(file, "SessionStart") <=> ~remove[p]
    BY <1>1 DEF IInv, Sound, Sees, Held
  <2>3. HasGuild(file', "SessionStart") <=> HasGuild(Base(p), "SessionStart")
    BY <1>3 DEF Events
  <2>4. CASE file = Absent
    <3>1. ~remove[p]
      BY <2>1, <2>4, Written DEF ToDo
    <3>2. remove[p]
      BY <1>1, <2>2, <2>4 DEF Held
    <3>3. QED
      BY <3>1, <3>2
  <2>5. CASE file # Absent
    <3>1. Base(p) = file
      BY <2>1, <2>5, Written DEF Base
    <3>2. QED
      BY <2>2, <2>3, <2>5, <3>1 DEF Held
  <2>6. QED
    BY <2>4, <2>5
<1>5. QED
  BY <1>1, <1>2, <1>3, <1>4, NextEventSound DEF Held

-----------------------------------------------------------------------------
(* The invariant holds at first, every step keeps it, so it always holds.   *)
LEMMA InitSound == Init => IInv
<1> SUFFICES ASSUME Init PROVE IInv
  OBVIOUS
<1>1. TypeOK
  <2>1. ASSUME NEW entries \in {<<>>, <<"other">>, <<"guild">>, <<"shared">>}
        PROVE  [keys |-> Bare, hooks |-> [e \in Events |-> entries]] \in Settings
    <3>1. entries \in Seq(Entry)
      <4>1. <<>> \in Seq(Entry)
        BY EmptySeq
      <4>2. \A entry \in Entry : <<entry>> \in Seq(Entry)
        OBVIOUS
      <4>3. {"guild", "other", "shared"} = Entry
        BY DEF Entry
      <4>4. QED
        BY <4>1, <4>2, <4>3
    <3>2. QED
      BY <3>1, SettingsAssumption DEF Settings
  <2>2. Nothing \in [original : Texts, loaded : Settings \cup {Absent}, doc : Settings]
    BY EmptyText DEF Nothing, Texts
  <2>3. QED
    BY <2>1, <2>2, SettingsAssumption DEF Init, TypeOK, Texts, Events, Running
<1>2. ASSUME NEW p \in Procs PROVE Sound(p)
  BY DEF Init, Sound, Marks, Carries, Sees, Agrees, Late, Running
<1>3. QED
  BY <1>1, <1>2 DEF IInv

(* Every step of anyone keeps it.                                          *)
LEMMA NextSound == IInv /\ [Next]_vars => IInv'
<1> SUFFICES ASSUME IInv, [Next]_vars PROVE IInv'
  OBVIOUS
<1>1. TypeOK /\ TypeOK'
  BY TypeStep DEF IInv
<1>2. ASSUME NEW q \in Procs PROVE Sound(q)'
  <2>1. CASE UNCHANGED vars
    BY <2>1, Bystander DEF vars, IInv
  <2>2. CASE PersonEdits
    <3>1. stable'[q] = {}
      BY <2>2 DEF PersonEdits
    <3>2. QED
      BY <2>2, <3>1, Bystander DEF PersonEdits, IInv
  <2>3. ASSUME NEW p \in Procs, p # q,
               \/ \E removing \in BOOLEAN : Begin(p, removing)
               \/ Plan(p) \/ Read(p) \/ Load(p) \/ BackUp(p) \/ Check(p) \/ Replace(p) \/ Dies(p)
        PROVE  Sound(q)'
    <3>1. /\ pc'[q] = pc[q] /\ event'[q] = event[q] /\ remove'[q] = remove[q]
          /\ mem'[q] = mem[q] /\ outcome'[q] = outcome[q]
      BY <1>1, <2>3
      DEF TypeOK, Begin, Plan, Read, Load, BackUp, BackUpOf, Check, Replace, Dies, Ends, NextEvent
    <3>2. \/ stable'[q] = {}
          \/ stable'[q] = stable[q] /\ file' = file /\ backups \subseteq backups'
      BY <1>1, <2>3
      DEF TypeOK, Begin, Plan, Read, Load, BackUp, BackUpOf, Check, Replace, Dies, Notes, Disturbs
    <3>3. QED
      BY <3>1, <3>2, Bystander DEF IInv
  <2>4. ASSUME \/ \E removing \in BOOLEAN : Begin(q, removing)
               \/ Plan(q) \/ Read(q) \/ Load(q) \/ BackUp(q) \/ Check(q) \/ Replace(q) \/ Dies(q)
        PROVE  Sound(q)'
    <3>1. Dies(q) => Sound(q)'
      BY <1>1, Ended DEF Dies
    <3>2. QED
      BY <2>4, <3>1, BeginSound, PlanSound, ReadSound, LoadSound, BackUpSound, CheckSound,
         ReplaceSound
  <2>5. QED
    BY <2>1, <2>2, <2>3, <2>4 DEF Next, Guild
<1>3. QED
  BY <1>1, <1>2 DEF IInv

(* It holds in every state of every behaviour.                             *)
LEMMA Inductive == Spec => []IInv
BY InitSound, NextSound, PTL DEF Spec

(* Every value a variable takes is of its type: what is merged and written   *)
(* is always a settings document.                                            *)
THEOREM TypeCorrect == Spec => []TypeOK
<1>1. IInv => TypeOK
  BY DEF IInv
<1>2. QED
  BY <1>1, Inductive, PTL

(* A run that reports success and that nobody interfered with has put both   *)
(* hooks in, or taken both out (_run_hook's two events).                     *)
THEOREM BothHooks == Spec => []BothOrNeither
<1>1. IInv => BothOrNeither
  BY DEF IInv, Sound, Agrees, BothOrNeither
<1>2. QED
  BY <1>1, Inductive, PTL

(* A replacement is the Replace of the process whose pc it moves. *)
LEMMA WhoReplaces ==
  ASSUME IInv, Next, NEW p \in Procs, Replaces(p)
  PROVE  Replace(p)
<1>1. PICK q \in Procs : Replace(q)
  BY DEF Replaces, Next, Guild, Begin, Plan, Read, Load, BackUp, BackUpOf, Check, Dies, PersonEdits
<1>2. q = p
  BY <1>1 DEF Replaces, Replace, NextEvent, Ends, IInv, TypeOK
<1>3. QED
  BY <1>1, <1>2

(* A backup holds what a run replaces, if nobody changed the file since the  *)
(* run first read it: it is what _backup read, too.                          *)
THEOREM BackedUp == Spec => ReplacedIsBackedUp
<1>1. ASSUME IInv, [Next]_vars, NEW p \in Procs, Replaces(p), "read" \in stable[p],
             file # Absent
      PROVE  file \in backups
  BY <1>1 DEF Replaces, IInv, Sound, Sees
<1>2. IInv /\ [Next]_vars =>
        \A p \in Procs : Replaces(p) /\ "read" \in stable[p] /\ file # Absent => file \in backups
  BY <1>1
<1>3. QED
  BY <1>2, Inductive, PTL DEF Spec, ReplacedIsBackedUp

(* Adding the guild's entry where there was none leaves one.                *)
LEMMA OneAfterAdding ==
  ASSUME NEW text \in Settings, NEW e \in Events, ~HasGuild(text, e)
  PROVE  Cardinality(GuildEntries(Merged(text, e, FALSE), e)) <= 1
<1> DEFINE entries == text.hooks[e]
           longer == Append(entries, "guild")
<1>1. entries \in Seq(Entry)
  BY DEF Settings
<1>2. /\ longer \in Seq(Entry) /\ Len(longer) = Len(entries) + 1 /\ Len(entries) \in Nat
      /\ \A i \in 1 .. Len(entries) : longer[i] = entries[i]
      /\ DOMAIN longer = 1 .. Len(longer) /\ DOMAIN entries = 1 .. Len(entries)
  BY <1>1, AppendProperties, LenProperties DEF Entry
<1>3. \A i \in DOMAIN entries : entries[i] \notin {"guild", "shared"}
  BY DEF HasGuild, IsGuild
<1>4. Merged(text, e, FALSE).hooks[e] = longer
  BY MergedText
<1> HIDE DEF entries, longer
<1> DEFINE found == GuildEntries(Merged(text, e, FALSE), e)
<1>5. ASSUME NEW i \in found
      PROVE  i = Len(entries) + 1
  <2>1. i \in DOMAIN longer /\ longer[i] \in {"guild", "shared"}
    BY <1>4 DEF GuildEntries
  <2>2. i \notin DOMAIN entries
    BY <1>2, <1>3, <2>1
  <2>3. QED
    BY <1>2, <2>1, <2>2
<1> SUFFICES Cardinality(found) <= 1
  OBVIOUS
<1> HIDE DEF found
<1>6. found = {} \/ found = {Len(entries) + 1}
  BY <1>5
<1>7. Cardinality({}) = 0 /\ Cardinality({Len(entries) + 1}) = 1
  BY FS_EmptySet, FS_Singleton
<1>8. Cardinality(found) = 0 \/ Cardinality(found) = 1
  BY <1>6, <1>7, Zenon
<1>9. QED
  BY <1>8

(* "Idempotent": a run that finds the file as it planned for leaves no event *)
(* with a second entry of the guild's that was not there before.             *)
THEOREM Idempotent == Spec => NoSecondEntry
<1>1. ASSUME IInv, [Next]_vars, NEW p \in Procs, Replaces(p), "plan" \in stable[p],
             NEW e \in Events
      PROVE  Cardinality(GuildEntries(file', e)) <= 1 \/ file'.hooks[e] = file.hooks[e]
  <2>1. Replace(p) /\ event[p] \in Events /\ remove[p] \in BOOLEAN
    BY <1>1, WhoReplaces DEF IInv, TypeOK, Replaces, vars
  <2>2. /\ Base(p) \in Settings /\ file' = Merged(Base(p), event[p], remove[p])
        /\ file = mem[p].loaded /\ ToDo(p)
    BY <1>1, <2>1, Written
  <2>3. CASE ~HasGuild(file', e)
    <3>1. GuildEntries(file', e) = {}
      BY <2>3, GuildEntriesHeld
    <3>2. QED
      BY <3>1, FS_EmptySet
  <2>4. CASE HasGuild(file', e) /\ e # event[p]
    <3>1. HasGuild(Base(p), e)
      BY <2>1, <2>2, <2>4, MergedHasGuild
    <3>2. Base(p) = file
      BY <2>2, <3>1, EmptyText DEF Base
    <3>3. QED
      BY <2>1, <2>2, <2>4, <3>2, MergedText
  <2>5. CASE HasGuild(file', e) /\ e = event[p]
    <3>1. remove[p] = FALSE
      BY <2>1, <2>2, <2>5, MergedHasGuild
    <3>2. ~HasGuild(Base(p), e)
      BY <2>2, <2>5, <3>1, EmptyText DEF Base, ToDo
    <3>3. QED
      BY <2>2, <2>5, <3>1, <3>2, OneAfterAdding
  <2>6. QED
    BY <2>3, <2>4, <2>5
<1>2. IInv /\ [Next]_vars =>
        \A p \in Procs : Replaces(p) /\ "plan" \in stable[p] =>
          \A e \in Events : \/ Cardinality(GuildEntries(file', e)) <= 1
                            \/ file'.hooks[e] = file.hooks[e]
  BY <1>1
<1>3. QED
  BY <1>2, Inductive, PTL DEF Spec, NoSecondEntry

(* Putting the guild's hook in or out of a text leaves what others have in   *)
(* it, but for what shares an entry that is taken out.                       *)
LEMMA MergedKeepsOthers ==
  ASSUME NEW text \in Settings, NEW e \in Events, NEW removing \in BOOLEAN, NEW d \in Events
  PROVE  LET drop == {"guild"} \cup IF removing /\ d = e THEN {"shared"} ELSE {}
         IN  Without(Merged(text, e, removing).hooks[d], drop) = Without(text.hooks[d], drop)
<1> DEFINE drop == {"guild"} \cup IF removing /\ d = e THEN {"shared"} ELSE {}
<1> SUFFICES Without(Merged(text, e, removing).hooks[d], drop) = Without(text.hooks[d], drop)
  OBVIOUS
<1>1. text.hooks[d] \in Seq(Entry)
  BY DEF Settings
<1>2. CASE d # e
  BY <1>2, MergedText
<1>3. CASE d = e /\ removing = TRUE
  <2>1. drop = GuildOnes
    BY <1>3 DEF GuildOnes, IsGuild, Entry
  <2>2. Merged(text, e, removing).hooks[d] = Without(text.hooks[d], GuildOnes)
    BY <1>3, MergedText
  <2>3. QED
    BY <1>1, <2>1, <2>2, WithoutTwice
<1>4. CASE d = e /\ removing = FALSE
  <2>1. Merged(text, e, removing).hooks[d] = Append(text.hooks[d], "guild")
    BY <1>4, MergedText
  <2>2. "guild" \in Entry /\ "guild" \in drop
    BY DEF Entry
  <2> HIDE DEF drop
  <2>3. QED
    BY <1>1, <2>1, <2>2, WithoutAppend
<1>5. QED
  BY <1>2, <1>3, <1>4

(* Other keys and others' hooks survive a replacement by a run that looked   *)
(* and saw no concurrent edit ("must abort rather than have its edit         *)
(* silently overwritten").                                                   *)
THEOREM KeepsOthers == Spec => OthersKept
<1>1. ASSUME IInv, [Next]_vars, NEW p \in Procs, Replaces(p), "check" \in stable[p],
             mem[p].loaded = mem[p].original
      PROVE  IsSettings(file) /\ file'.keys = file.keys /\ Others(file', p) = Others(file, p)
  <2>1. Replace(p) /\ event[p] \in Events /\ remove[p] \in BOOLEAN /\ pc[p] = "replace"
    BY <1>1, WhoReplaces DEF IInv, TypeOK, Replaces, vars
  <2>2. mem[p].loaded # Absent /\ file = mem[p].loaded
    BY <1>1, <2>1 DEF IInv, Sound, Carries, Sees
  <2>3. file \in Settings
    <3>1. mem[p].loaded \in Settings \cup {Absent}
      BY <1>1 DEF IInv, TypeOK
    <3>2. QED
      BY <2>2, <3>1
  <2>4. file' = Merged(file, event[p], remove[p])
    <3>1. file' = Merged(Base(p), event[p], remove[p])
      BY <1>1, <2>1, Written
    <3>2. Base(p) = file
      BY <2>2 DEF Base
    <3>3. QED
      BY <3>1, <3>2
  <2>5. IsSettings(file)
    BY <2>3, SettingsAssumption DEF IsSettings
  <2>6. Others(file', p) = Others(file, p)
    BY <2>1, <2>3, <2>4, MergedKeepsOthers DEF Others
  <2>7. QED
    BY <2>1, <2>3, <2>4, <2>5, <2>6, MergedText
<1>2. IInv /\ [Next]_vars =>
        \A p \in Procs :
          /\ Replaces(p) /\ "check" \in stable[p] /\ mem[p].loaded = mem[p].original
          => /\ IsSettings(file) /\ file'.keys = file.keys
             /\ Others(file', p) = Others(file, p)
  BY <1>1
<1>3. QED
  BY <1>2, Inductive, PTL DEF Spec, OthersKept
=============================================================================
