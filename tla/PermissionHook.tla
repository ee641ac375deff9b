---------------------------- MODULE PermissionHook ----------------------------
(***************************************************************************)
(* core/hook.py and core/permission_rules.py: the PreToolUse hook judges   *)
(* one call of a tool.  It denies what a deny rule of the tracked settings *)
(* matches, what it cannot read, and what would disable the git hooks; of  *)
(* everything else it says nothing.                                        *)
(* A command is a sequence of tokens: operators, blanks, and commands of   *)
(* the kinds below, each standing for the spellings the hook takes alike.  *)
(***************************************************************************)
EXTENDS Integers, Sequences, FiniteSets, Functions

CONSTANTS CommandKinds, \* the kinds of command that are typed
          Joints,       \* the operators that join them
          Policy,       \* what the deny rules of the settings match
          MaxTokens     \* bound: what is typed in one call

ASSUME KindsKnown == CommandKinds \subseteq {"ls", "git", "commit -n", "export", "cd hooks", "cd custom",
                                    "cd ..", "rm", "rm hooks", "rm custom", "cat hooks",
                                    "xargs rm", "git path"}
ASSUME JointsKnown == Joints \subseteq {";", "|"}

VARIABLES call,      \* [tool, path, settings, resolves]; resolves: git tells the hooks directory
          typed,     \* what is typed, token by token
          decision

hookVars == <<call, typed, decision>>

-----------------------------------------------------------------------------
(* Splitting a command. *)
Operators == {"(", "$(", ")"} \cup Joints
Blank == " "
AtStart == [segments |-> <<>>, operator |-> <<>>, current |-> <<>>]
IsText(token) == token # Blank
Kept(text) == \E i \in DOMAIN text : IsText(text[i])
(* A segment of blanks is dropped, and with it the operator that led it.    *)
Word(text) == CHOOSE token \in Range(text) : IsText(token)
WithSegment(scan) ==
  IF Kept(scan.current)
  THEN Append(scan.segments, [operator |-> scan.operator, kind |-> Word(scan.current)])
  ELSE scan.segments
CloseOut(scan, operator) ==
  IF scan.current = <<>> THEN [scan EXCEPT !.operator = Append(@, operator)]
  ELSE [segments |-> WithSegment(scan), operator |-> <<operator>>, current |-> <<>>]
TakesIn(scan, token) ==
  IF token \in Operators THEN CloseOut(scan, token)
  ELSE [scan EXCEPT !.current = Append(@, token)]
ScannedOf(tokens) ==
  LET after[i \in 0..Len(tokens)] ==
        IF i = 0 THEN AtStart ELSE TakesIn(after[i-1], tokens[i])
  IN  after[Len(tokens)]
Segments(tokens) == WithSegment(ScannedOf(tokens))

-----------------------------------------------------------------------------
(* What the hook reads off one command. *)
GitWord == {"git", "commit -n", "cd hooks", "rm hooks", "cat hooks", "git path"}
SkipsHooks == {"commit -n"}
ChangingVerbs == {"rm", "rm hooks", "rm custom", "xargs rm"}\* names a verb that changes files
Custom == IF call.resolves THEN {"cd custom", "rm custom"} ELSE {}
NamesHooksDir == {"cd hooks", "rm hooks", "cat hooks"} \cup Custom
MutatesHooksDir == NamesHooksDir \cap ChangingVerbs
ChangesDirectory == {"cd hooks", "cd custom", "cd .."}
EntersHooksDir == ChangesDirectory \cap NamesHooksDir
Substituted(tokens) ==
  /\ \E i \in 1..Len(tokens)-1 : tokens[i] = "$(" /\ tokens[i+1] = "git path"
  /\ \E i \in 1..Len(tokens) : tokens[i] \in ChangingVerbs

(* The scan carries three flags from one segment to the next. *)
Has(operator, token) == \E i \in DOMAIN operator : operator[i] = token
NothingCarried == [exported |-> FALSE, inHooks |-> FALSE, named |-> FALSE, denied |-> FALSE]
Stays(flags, s) == flags.inHooks /\ ~Has(s.operator, ")")
InHooksOnceEntered(flags, s) ==      \* slip of an earlier round: set and never reset
  s.kind \in EntersHooksDir \/ Stays(flags, s)
InHooksAfter(flags, s) ==
  IF s.kind \in ChangesDirectory THEN s.kind \in EntersHooksDir ELSE Stays(flags, s)
Carried(flags, s) ==
  LET exported == flags.exported \/ s.kind = "export"
  IN  [exported |-> exported, inHooks |-> InHooksAfter(flags, s),
       named |-> s.kind \in NamesHooksDir,
       denied |-> \/ flags.denied
                  \/ s.kind \in SkipsHooks \cup MutatesHooksDir
                  \/ exported /\ s.kind \in GitWord
                  \/ Stays(flags, s) /\ s.kind \in ChangingVerbs
                  \/ flags.named /\ s.operator = <<"|">> /\ s.kind = "xargs rm"]
FlagsAfter(segments) ==
  LET after[i \in 0..Len(segments)] ==
        IF i = 0 THEN NothingCarried ELSE Carried(after[i-1], segments[i])
  IN  after[Len(segments)]
BypassesByCommand(tokens) == Substituted(tokens) \/ FlagsAfter(Segments(tokens)).denied

(* Everything else a decision looks at. *)
Writers == {"Write", "NotebookEdit"}
NoPath == "none"
HooksFiles == {"hooks file"} \cup IF call.resolves THEN {"custom file"} ELSE {}
BypassesHookFloor ==
  \/ call.tool = "Bash" /\ BypassesByCommand(typed)
  \/ call.tool \in Writers /\ call.path \in HooksFiles
IsUnreadable ==
  IF call.tool = "Bash" THEN ~Kept(typed)
  ELSE call.tool \in Writers \cup {"Read"} /\ call.path = NoPath
Parts ==
  IF call.tool # "Bash" THEN {call.path}
  ELSE LET segments == Segments(typed) IN {segments[i].kind : i \in DOMAIN segments}
IsDenied ==
  CASE call.settings = "unparseable rule" -> TRUE
    [] call.settings = "rules" -> Parts \cap Policy # {}
    [] OTHER -> FALSE
Decide == IF IsDenied \/ IsUnreadable \/ BypassesHookFloor THEN "deny" ELSE "silent"

-----------------------------------------------------------------------------
(* A session makes a call; one with a command types it first, well formed or *)
(* not.  A blank is typed where it stands alone between two operators or at  *)
(* the end (beside a command it is stripped with the command); a joint `;`   *)
(* also stands for a new line.                                               *)
Places(tokens, those) == {i \in DOMAIN tokens : tokens[i] \in those}
Depth(tokens) == Cardinality(Places(tokens, {"(", "$("})) - Cardinality(Places(tokens, {")"}))
LastToken == IF typed = <<>> THEN "start" ELSE typed[Len(typed)]
LastButBlank == IF LastToken = Blank THEN typed[Len(typed) - 1] ELSE LastToken
Ended == LastToken \in CommandKinds \cup {")", Blank}
MayFollow(token) ==
  CASE token \in CommandKinds ->
         /\ LastToken \in {"start", "(", "$("} \cup Joints
         /\ (token = "git path") = (LastToken = "$(")
    [] token \in Joints -> Ended /\ LastToken # "git path"
    [] token = "(" -> LastButBlank \in {"start"} \cup Joints /\ Depth(typed) = 0
    [] token = "$(" -> LastToken \in {"ls", "rm"} /\ Depth(typed) = 0 /\ "git path" \in CommandKinds
    [] token = ")" -> Depth(typed) > 0 /\ Ended
    [] OTHER -> LastToken \in {")"} \cup Joints
Type(token) ==
  /\ call.tool = "Bash" /\ decision = "pending" /\ Len(typed) < MaxTokens /\ MayFollow(token)
  /\ typed' = Append(typed, token)
  /\ UNCHANGED <<call, decision>>

Main ==
  /\ decision = "pending" /\ Depth(typed) = 0 /\ (typed = <<>> \/ Ended)
  /\ decision' = IF call.tool = "garbled" THEN "silent" ELSE Decide
  /\ UNCHANGED <<call, typed>>

ToolCalls == [tool : {"Bash"}, path : {NoPath},
          settings : {"absent", "rules", "unparseable rule"}, resolves : BOOLEAN]
         \cup [tool : {"garbled", "Read", "Agent"} \cup Writers,
               path : {NoPath, "hooks file", "custom file", "other file"},
               settings : {"absent", "rules", "unparseable rule"}, resolves : BOOLEAN]
HookInit == call \in ToolCalls /\ typed = <<>> /\ decision = "pending"
HookNext == Main \/ \E token \in CommandKinds \cup Operators \cup {Blank} : Type(token)
HookSpec == HookInit /\ [][HookNext]_hookVars

-----------------------------------------------------------------------------
HookTypeOK ==
  /\ call \in ToolCalls /\ decision \in {"pending", "deny", "silent"}
  /\ typed \in Seq(CommandKinds \cup Operators \cup {Blank})

(* A shell that runs what was typed, one command after another: one inside  *)
(* parentheses is run by a copy of the shell, whose directory is gone when  *)
(* the parenthesis closes.  An export is taken to last.                     *)
Login == [dirs |-> <<FALSE>>, exported |-> FALSE, piped |-> FALSE, named |-> FALSE]
Runs(before, token) ==
  LET depth == Len(before.dirs)
  IN  CASE token \in {"(", "$("} -> [before EXCEPT !.dirs = Append(@, @[depth])]
        [] token = ")" -> [before EXCEPT !.dirs = SubSeq(@, 1, depth - 1)]
        [] token \in Joints -> [before EXCEPT !.piped = token = "|"]
        [] token \in CommandKinds ->
             [dirs |-> IF token \in ChangesDirectory
                         THEN [before.dirs EXCEPT ![depth] = token \in EntersHooksDir]
                         ELSE before.dirs,
              exported |-> before.exported \/ token = "export",
              piped |-> FALSE, named |-> token \in NamesHooksDir]
        [] OTHER -> before
Ran ==
  LET after[i \in 0..Len(typed)] == IF i = 0 THEN Login ELSE Runs(after[i-1], typed[i])
  IN  after
WouldHarm(i) ==
  LET before == Ran[i-1]
  IN  \/ before.exported /\ typed[i] \in GitWord
      \/ before.dirs[Len(before.dirs)] /\ typed[i] \in ChangingVerbs
      \/ before.piped /\ before.named /\ typed[i] = "xargs rm"
Typed == {i \in DOMAIN typed : typed[i] \in CommandKinds}
BySelf(i) ==
  \/ typed[i] \in SkipsHooks \cup MutatesHooksDir
  \/ call.settings = "rules" /\ typed[i] \in Policy
Justified ==
  \/ IsUnreadable \/ call.settings = "unparseable rule" \/ Substituted(typed)
  \/ \E i \in Typed : BySelf(i) \/ WouldHarm(i)
BashDenied == call.tool = "Bash" /\ decision = "deny"

(* "A false positive is a lockout": a command is denied only if one of its  *)
(* commands is forbidden wherever it stands, or would meet the hooks        *)
(* directory, the exported variable or the path on its input when a shell   *)
(* runs them - unless a closing parenthesis is lost: a blank that stands     *)
(* alone behind it is dropped with the operators since the last segment.    *)
(* And what is forbidden wherever it stands is denied wherever it stands.   *)
CloseLost ==
  \E i \in DOMAIN typed : \E k \in 1..i-1 :
    /\ typed[i] = Blank /\ typed[k] = ")"
    /\ \A j \in k..i-1 : typed[j] \in Operators
JudgedAsRun ==
  /\ BashDenied => Justified \/ CloseLost
  /\ call.tool = "Bash" /\ decision # "pending" =>
       ((\E i \in Typed : BySelf(i)) => decision = "deny")

(* "cwd reverts the moment it closes, before whatever comes next even runs",*)
(* and "`); `, `) ; `, `))`" are taken alike: the same of every command.    *)
SubshellReverts == BashDenied => Justified
=============================================================================
