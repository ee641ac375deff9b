----------------------------- MODULE ExcludeFile -----------------------------
(***************************************************************************)
(* core/exclude.py: exclude_ai_layer() appends the AI-layer patterns that   *)
(* info/exclude does not hold yet, inside a marker block, with one append   *)
(* and no lock, temporary file or rename.  The file belongs to the          *)
(* repository, so drunken-init runs in two worktrees write the same one.    *)
(***************************************************************************)
EXTENDS Naturals, Sequences, FiniteSets, SequencesExt

CONSTANTS Procs,        \* drunken-init processes
          PatternList,  \* default_ai_layer_patterns(), in order
          START, END,   \* MARKER_START, MARKER_END
          Note,         \* a line of the person's own
          Junk,         \* an unfinished line, or two lines run together
          MaxEdits,     \* bound: person's edits of the file
          MaxCalls      \* bound: calls of exclude_ai_layer

Patterns == Range(PatternList)
Line == Patterns \cup {START, END, Note, Junk}

ASSUME LinesDiffer ==
  /\ START # END /\ Note \notin {START, END} /\ Junk \notin {START, END, Note}
  /\ PatternList \in Seq(Patterns) /\ PatternList # <<>>
  /\ Patterns \cap {START, END, Note, Junk} = {}

ASSUME BoundsAssumption == MaxEdits \in Nat /\ MaxCalls \in Nat

VARIABLES file,     \* the lines of info/exclude
          newline,  \* its last line is terminated
          pc,       \* where each process is
          block,    \* the lines a process decided to append
          lead,     \* that process saw no final newline and writes one first
          seen,     \* the person's edits when it read the file
          edits, calls,
          overlap,  \* two processes have been between read and append at once
          torn      \* appends cut short, counted to two

vars == <<file, newline, pc, block, lead, seen, edits, calls, overlap, torn>>

-----------------------------------------------------------------------------
\* slip: comparing the counts of the two markers, which the docstring rules out
CountMarkers(text) ==
  IF Cardinality({i \in DOMAIN text : text[i] = START}) =
     Cardinality({i \in DOMAIN text : text[i] = END})
  THEN "closed" ELSE "malformed"

(* _validate_marker_lines(): one pass over the lines, open or closed. *)
Turned(state, line) ==
  CASE line = START -> IF state = "closed" THEN "open" ELSE "malformed"
    [] line = END   -> IF state = "open" THEN "closed" ELSE "malformed"
    [] OTHER        -> state

Verdict(text) ==
  LET state[n \in 0 .. Len(text)] ==
        IF n = 0 THEN "closed" ELSE Turned(state[n-1], text[n])
  IN  state[Len(text)]

Accepts(text) == Verdict(text) = "closed"

(* What a well-formed file is, without a scan: the markers pair up. *)
MarkerAt(text, i) == text[i] \in {START, END}
WellFormed(text) ==
  \A i \in DOMAIN text :
    /\ text[i] = START =>
         \E j \in DOMAIN text :
            j > i /\ text[j] = END /\ \A k \in i+1 .. j-1 : ~MarkerAt(text, k)
    /\ text[i] = END =>
         \E j \in DOMAIN text :
            j < i /\ text[j] = START /\ \A k \in j+1 .. i-1 : ~MarkerAt(text, k)

\* slips: taking any marker for a complete block; the forgotten * in (START, *missing, END)
BlockUnspread(text) == <<START, PatternList, END>>
MissingByMarker(text) == IF START \in Range(text) THEN <<>> ELSE PatternList
Missing(text) ==
  LET missing[n \in 0 .. Len(PatternList)] ==
        IF n = 0 THEN <<>>
        ELSE IF PatternList[n] \in Range(text) THEN missing[n-1]
        ELSE Append(missing[n-1], PatternList[n])
  IN  missing[Len(PatternList)]
Block(text) == <<START>> \o Missing(text) \o <<END>>

(* What the append leaves when the last line may be unterminated: without   *)
(* the leading newline the first new line runs into it.                     *)
Glued(text, new) == Front(text) \o <<Junk>> \o Tail(new)
Joined(text, terminated, leading, new) ==
  IF new = <<>> \/ text = <<>> \/ terminated \/ leading THEN text \o new ELSE Glued(text, new)

Busy(p) == pc[p] = "append"

-----------------------------------------------------------------------------
Init ==
  /\ \/ file = <<>> /\ newline = TRUE
     \/ file = <<Note>> /\ newline \in BOOLEAN
     \/ file = <<PatternList[1]>> /\ newline = FALSE
  /\ pc = [p \in Procs |-> "idle"]
  /\ block = [p \in Procs |-> <<>>]
  /\ lead = [p \in Procs |-> FALSE]
  /\ seen = [p \in Procs |-> 0]
  /\ edits = 0 /\ calls = 0
  /\ overlap = FALSE /\ torn = 0

(* Read the whole file, validate it, decide what is missing. *)
ReadWith(p, accepted) ==
  /\ ~Busy(p) /\ calls < MaxCalls
  /\ calls' = calls + 1
  /\ seen' = [seen EXCEPT ![p] = edits]
  /\ pc' = [pc EXCEPT ![p] = IF ~accepted THEN "refused"
                             ELSE IF Missing(file) = <<>> THEN "done" ELSE "append"]
  /\ block' = [block EXCEPT ![p] = IF pc'[p] = "append" THEN Block(file) ELSE <<>>]
  /\ lead' = [lead EXCEPT ![p] = pc'[p] = "append" /\ file # <<>> /\ ~newline]
  /\ overlap' = (overlap \/ (pc'[p] = "append" /\ \E q \in Procs \ {p} : Busy(q)))
  /\ UNCHANGED <<file, newline, edits, torn>>

\* slip: no validation before the append
ReadUnvalidated(p) == ReadWith(p, TRUE)
Read(p) == ReadWith(p, Accepts(file))

(* The call ends; what it meant to write ends with it. *)
Leaves(p, how) ==
  /\ pc' = [pc EXCEPT ![p] = how]
  /\ block' = [block EXCEPT ![p] = <<>>]
  /\ lead' = [lead EXCEPT ![p] = FALSE]

(* The append reaches the file, which then holds the lines given. *)
Lands(p, lines) ==
  /\ Busy(p)
  /\ file' = lines
  /\ newline' = TRUE
  /\ Leaves(p, "done")
  /\ UNCHANGED <<seen, edits, calls, overlap, torn>>

\* slips: no leading newline; open(..., "w") instead of "a"
WriteNoLead(p) == Lands(p, Joined(file, newline, FALSE, block[p]))
WriteOver(p) == Lands(p, block[p])
WriteBlock(p) == Lands(p, Joined(file, newline, lead[p], block[p]))

(* The process is killed, or the write fails, with a prefix of the block in *)
(* the file: some whole lines, then perhaps part of the next one.           *)
Interrupted(p) ==
  /\ Busy(p)
  /\ \E n \in 0..Len(block[p]) : \E rest \in {<<>>, <<Junk>>} :
       LET new == SubSeq(block[p], 1, n) \o rest
       IN  /\ n = Len(block[p]) => rest = <<>>
           /\ file' = Joined(file, newline, lead[p], new)
           /\ IF new = <<>> THEN newline' \in {newline, newline \/ lead[p]}
              ELSE newline' \in IF rest = <<>> THEN BOOLEAN ELSE {FALSE}
  /\ Leaves(p, "dead")
  /\ torn' = IF torn = 0 THEN 1 ELSE 2
  /\ UNCHANGED <<seen, edits, calls, overlap>>

(* A person's editor drops a line or adds one, and ends the file properly. *)
PersonEdits ==
  /\ edits < MaxEdits
  /\ \/ \E i \in DOMAIN file : file' = RemoveAt(file, i)
     \/ \E l \in {Note, PatternList[1]} : file' = Append(file, l)
  /\ newline' = TRUE
  /\ edits' = edits + 1
  /\ UNCHANGED <<pc, block, lead, seen, calls, overlap, torn>>

Next ==
  \/ \E p \in Procs : Read(p) \/ WriteBlock(p) \/ Interrupted(p)
  \/ PersonEdits

Spec == Init /\ [][Next]_vars

-----------------------------------------------------------------------------
TypeOK ==
  /\ file \in Seq(Line) /\ newline \in BOOLEAN
  /\ pc \in [Procs -> {"idle", "append", "done", "refused", "dead"}]
  /\ block \in [Procs -> Seq(Line)] /\ lead \in [Procs -> BOOLEAN]
  /\ edits \in 0..MaxEdits /\ calls \in 0..MaxCalls /\ seen \in [Procs -> 0..MaxEdits]
  /\ overlap \in BOOLEAN /\ torn \in 0..2

(* The open/closed pass of _validate_marker_lines accepts exactly the files  *)
(* whose markers pair up, on every file the writers and the person can make. *)
ScanAgrees == Accepts(file) <=> WellFormed(file)

(* A call that returned leaves every pattern in the file, for as long as no  *)
(* person has edited it since the call read it, whatever any number of other *)
(* writers did in between, a torn append included.  Two of them are too      *)
(* many: the second runs into the first, its start marker is gone, its last  *)
(* pattern has no newline, the file is accepted, and a third, which read it  *)
(* while it was empty, runs into that pattern.                               *)
CoveredWhenDone ==
  \A p \in Procs :
    pc[p] = "done" /\ seen[p] = edits /\ torn < 2 => Patterns \subseteq Range(file)

(* "Instead of the file slowly accumulating duplicate blocks": reruns that   *)
(* do not overlap never put a second start marker in the file, torn appends  *)
(* or not, unless a person edited it.                                        *)
OneBlock ==
  ~overlap /\ edits = 0 => Cardinality({i \in DOMAIN file : file[i] = START}) <= 1

(* Only a torn append or a person leaves a file the next run will refuse:    *)
(* two writers that both saw the same file produce two complete blocks.      *)
SoundUnlessTorn == torn = 0 /\ edits = 0 => Accepts(file)

(* "Existing content is preserved": no writer, whole or torn, alone or late, *)
(* removes or alters a line of the person's own.                             *)
NotesKept ==
  [][edits' = edits =>
       \A i \in DOMAIN file : file[i] = Note => i \in DOMAIN file' /\ file'[i] = Note]_vars

(* Writers keep the promise the copy-in and the migration are built on.  A   *)
(* file two torn appends have been at is no better than a refused one.       *)
Exclude == INSTANCE LayerExclude
             WITH excluded <- Patterns \subseteq Range(file),
                  broken <- ~Accepts(file) \/ torn = 2
KeepsExcluded == Exclude!ExcludePromise
=============================================================================
