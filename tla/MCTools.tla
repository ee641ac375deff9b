------------------------------- MODULE MCTools -------------------------------
(***************************************************************************)
(* The commands and servers that share no state with one another, on small *)
(* instances: reap, the Jira server, the installer of skills and agents,   *)
(* the doctor, the permission hook.                                        *)
(* One of them runs in a behaviour; the others stay in one state of theirs.*)
(***************************************************************************)
EXTENDS MCReap, JiraFlow, SkillInstall, Doctor, PermissionHook
CONSTANTS c1, c2    \* two calls of the Jira server
VARIABLE tool

-----------------------------------------------------------------------------
(* The Jira server: one project, two Jira project keys, one user whose name  *)
(* "alex" fits and a name that fits two.                                     *)
Call(name, keys, what) ==
  [tool |-> name, project |-> "dg", keys |-> keys, what |-> what, add |-> {}, remove |-> {}]
Relabel(add, remove) ==
  [Call("labels", <<"DG-1">>, Nothing) EXCEPT !.add = add, !.remove = remove]
CallArguments == {
  Call("search", <<>>, Nothing), Call("details", <<"DG-1">>, Nothing),
  Call("snapshot", <<>>, Nothing), Call("info", <<>>, Nothing),
  Call("create", <<"DG-1">>, "dated"),
  Call("create", <<"BETA-1">>, Nothing),
  Call("to_backlog", <<"DG-1", "DG-1">>, Nothing), Call("to_board", <<"DG-1", "BETA-1">>, Nothing),
  Call("start", <<"DG-1">>, Nothing), Call("submit", <<"DG-1">>, Nothing),
  Call("transition", <<"DG-1", "DG-1">>, "To Do"), Call("comment", <<"DG-1">>, Nothing),
  Call("edit", <<"DG-1">>, "valid"), Call("edit", <<Nothing>>, "valid"),
  Call("assign", <<"DG-1">>, "me"),
  Call("assign", <<"DG-1">>, "alex"), Call("assign", <<"DG-1">>, "a"),
  Relabel({"b"}, {"a"}), Relabel({"a"}, {"a"}),
  [Call("search", <<>>, Nothing) EXCEPT !.project = Nothing] }
FlowOf == [s \in {"To Do", "In Progress", "In Review"} |->
             CASE s = "To Do" -> {"In Progress"}
               [] s = "In Progress" -> {"To Do", "In Review"}
               [] OTHER -> {"To Do"}]
ProjectOf == [i \in {"DG-1", "BETA-1"} |-> IF i = "BETA-1" THEN "BETA" ELSE "DG"]
FitsOf == [w \in {"alex", "a"} |->
             [u \in {"u1", "u2"} |-> IF w = "a" \/ u = "u1" THEN "part" ELSE "no"]]
Symmetric == Permutations({c1, c2})

(* The registry holds one project with its token; a board of the other key   *)
(* has a backlog.                                                            *)
SmallJira ==
  /\ registry = [p \in Projects |-> [key |-> "DG", credential |-> "r1"]]
  /\ boards["BETA"] = "backlog" /\ vault["r1"] = 1

(* The installer: one packaged skill, one optional, one retired; an agent    *)
(* that needs the packaged one and an optional agent.                        *)
NeedsOf == [r \in {"dev"} |-> "git"]
SmallSkills ==
  /\ folder \in {f \in [Names -> {"absent", "dir", "link"}] : f["git"] # "link" /\ f["old"] = "dir"}
  /\ text \in [Names -> [Files -> {"earlier", "own", NoFile}]]
  /\ text["old"] = [f \in Files |-> "earlier"]
  /\ \A f \in Files : text["git"][f] # "own"
  /\ text["uml"] \in {[f \in Files |-> what] : what \in {NoFile, "own"}}
  /\ agent = [r \in Roles \cup ExtraRoles |-> IF r = "dev" THEN "earlier" ELSE NoFile]
  /\ index = NoFile

-----------------------------------------------------------------------------
(* A component that does not run is in one state that it can be in. *)
ReapRests == procs = Desktop /\ includeHeld = FALSE
SkillsRest == folder = [n \in Names |-> IF n = "old" THEN "dir" ELSE "absent"]

DoctorRests == ~world.source /\ ~world.own

(* Of commands only those typed in a repository whose hooks git tells, with *)
(* rules for the settings; of calls of other tools all.                     *)
SmallHook == call.tool = "Bash" => call.settings = "rules" /\ call.resolves
HookRests == call.tool = "Agent" /\ call.settings = "absent" /\ call.path = NoPath /\ ~call.resolves

toolsVars == <<tool, reapVars, jiraVars, skillVars, doctorVars, hookVars>>
ToolsInit ==
  /\ SmallSkills /\ SkillInit /\ JiraInit /\ SmallJira /\ ReapInit /\ DoctorInit
  /\ tool \in {"reap", "jira", "skills", "doctor", "hook"}
  /\ tool # "reap" => ReapRests
  /\ tool # "jira" => boards["DG"] = "none"
  /\ tool # "skills" => SkillsRest
  /\ tool # "doctor" => DoctorRests
  /\ HookInit /\ SmallHook /\ (tool # "hook" => HookRests)
ToolsNext ==
  \/ tool = "reap" /\ ReapNext /\ UNCHANGED <<tool, jiraVars, skillVars, doctorVars, hookVars>>
  \/ tool = "jira" /\ JiraNext /\ UNCHANGED <<tool, reapVars, skillVars, doctorVars, hookVars>>
  \/ tool = "skills" /\ SkillNext /\ UNCHANGED <<tool, reapVars, jiraVars, doctorVars, hookVars>>
  \/ tool = "doctor" /\ DoctorNext /\ UNCHANGED <<tool, reapVars, jiraVars, skillVars, hookVars>>
  \/ tool = "hook" /\ HookNext /\ UNCHANGED <<tool, reapVars, jiraVars, skillVars, doctorVars>>
ToolsSpec == ToolsInit /\ [][ToolsNext]_toolsVars

(* The types of all five. *)
ToolsTypeOK == ReapTypeOK /\ JiraTypeOK /\ SkillTypeOK /\ DoctorTypeOK /\ HookTypeOK
=============================================================================
