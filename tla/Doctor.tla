-------------------------------- MODULE Doctor --------------------------------
(***************************************************************************)
(* core/doctor.py and core/git_hooks.py: `drunken-doctor` looks at the     *)
(* machine, the registry, one registered project and the checkout it runs  *)
(* from, and names a remedy for most of what it finds.  A person follows   *)
(* the remedies one at a time; what they do is the code of the commands    *)
(* they name.  The native pre-push hook is installed in two steps, and     *)
(* `pre-commit install` works on the same files.                           *)
(***************************************************************************)
EXTENDS Naturals, FiniteSets

CONSTANT MaxDefects     \* bound: changes by which the machine goes wrong
ASSUME DoctorAssumption == MaxDefects \in Nat

(* What there is to be seen.  Of a version 0 stands for "none known".       *)
Values == [
  source |-> BOOLEAN,      \* the doctor runs from a checkout, not an installed package
  own |-> BOOLEAN,         \* the registered project is this repository itself
  declared |-> 0..2, tagged |-> 0..2, mcp |-> 0..2,
  \* "granted": open by an entry of its own in the access list of Windows
  home |-> {"absent", "private", "open", "granted"},
  authDb |-> {"absent", "private", "open", "granted"},
  registry |-> {"absent", "malformed", "empty", "v1", "v2"},   \* "empty": no projects in it
  path |-> {"none", "missing", "plain", "wrapper", "repo"},    \* "wrapper": around the repository
  jira |-> {"none", "unresolved", "bad token", "no such key", "good"},
  notify |-> {"none", "channel", "webhook"},
  git |-> {"absent", "silent", "answers"},
  tracked |-> {"nothing", "something"},    \* of the AI layer, by git
  leak |-> {"none", "layer", "dependency"},   \* where a credential lies in its AI layer
  worktrees |-> {"unreadable", "missing", "different", "same"},
  config |-> {"none", "unguarded", "odd", "guarded", "guards push"},
  commitHook |-> {"absent", "inert", "runs"},
  pushHook |-> {"absent", "packaged", "stale", "foreign", "shim"}, pushRuns |-> BOOLEAN,
  legacy |-> BOOLEAN,      \* pre-push.legacy is there
  env |-> {"absent", "old name", "behind", "stale", "current"},
  pin |-> {"unknown", "other", "same"},
  skills |-> {"absent", "missing", "drifted", "same"},
  \* another skill's folder
  stray |-> {"none", "external", "moved", "retired", "retired link", "unknown"},
  \* "stubborn": cannot be terminated, or belongs to the session that would
  processes |-> {"unreadable", "none", "orphan", "held", "stubborn"},
  agentsMd |-> {"absent", "undecodable", "no block", "dead route", "routes"},
  reached |-> {"undecodable", "by itself", "named"},
  settings |-> {"unreadable", "absent", "object"},
  session |-> {"none", "elsewhere", "broken", "works"},
  prompt |-> {"none", "elsewhere", "broken", "works"},
  host |-> {"absent", "garbled", "empty", "unresolved", "rival", "stale project", "fine"} ]

Healthy(source, own) == [
  source |-> source, own |-> own, declared |-> 1, tagged |-> 1, mcp |-> 1,
  home |-> "private", authDb |-> "private", registry |-> "v2", path |-> "repo",
  jira |-> "good", notify |-> "webhook", git |-> "answers", tracked |-> "nothing", leak |-> "none",
  worktrees |-> "same", config |-> "guarded", commitHook |-> "runs", pushHook |-> "packaged",
  pushRuns |-> TRUE, legacy |-> FALSE, env |-> "current", pin |-> "same", skills |-> "same",
  stray |-> "none", processes |-> "none", agentsMd |-> "routes", reached |-> "named",
  settings |-> "object", session |-> "works", prompt |-> "works", host |-> "fine"]

VARIABLES world,
          report,        \* what the last drunken-doctor said, as long as nothing changed
          installing,    \* --install-git-hooks has written the hook
          followed,      \* history: the remedies that have been done, as their commands
                         \* say (they exit with 0), since anything went wrong
          defects

doctorVars == <<world, report, installing, followed, defects>>

-----------------------------------------------------------------------------
(* The checks: a finding names its check, a status and a remedy, if any.    *)
None == "none"
Finding(check, status, remedy) == [check |-> check, status |-> status, remedy |-> remedy]
Says(check, status) == {Finding(check, status, None)}
Asks(check, status, remedy) == {Finding(check, status, remedy)}

(* version_verdict.  An installed package sees no declaration. *)
VersionVerdict(declared, tagged) ==
  CASE 0 \in {declared, tagged} -> "skip"
    [] 0 \notin {declared, tagged} /\ declared < tagged -> "fail"
    [] OTHER -> "ok"
CheckEnvironment(w) ==
  LET verdict == VersionVerdict(IF w.source THEN w.declared ELSE 0, w.tagged)
  IN  (IF verdict = "fail" THEN Asks("version.declared", "fail", "bump")
       ELSE Says("version.declared", verdict))
      \cup IF w.mcp = 1 THEN Says("version.mcp", "ok")
           ELSE Asks("version.mcp", "fail", "install mcp<2")

(* is_group_or_world_accessible. *)
Reachable(mode) == mode \in {"open", "granted"}
CheckPaths(w) ==
  (IF w.home = "absent" THEN Says("paths.home", "warn") ELSE Says("paths.home", "ok"))
  \cup (IF Reachable(w.home) THEN Asks("paths.home.permissions", "warn", "secure home") ELSE {})
  \cup (IF Reachable(w.authDb)
        THEN Asks("paths.auth_db.permissions", "fail", "secure auth_db") ELSE {})

(* _check_registry: what is not readable has no projects. *)
HasProject(w) == w.registry \in {"v1", "v2"}
CheckRegistry(w) ==
  CASE w.registry = "absent" -> Asks("registry.file", "fail", "register")
    [] w.registry \in {"malformed", "empty"} -> Asks("registry.file", "fail", "edit registry")
    [] w.registry = "v1" -> Says("registry.file", "ok") \cup
                            Asks("registry.schema", "warn", "upgrade registry")
    [] OTHER -> Says("registry.file", "ok")

CheckProjectPaths(w) ==
  CASE w.path = "none" -> Says("project.path", "skip")
    [] w.path = "missing" -> Asks("project.path", "fail", "register")
    [] OTHER -> Says("project.path", "ok") \cup
         IF w.path = "repo" THEN Says("project.git", "ok")
         ELSE Asks("project.git", "warn", "git root")
CheckJira(w, offline) ==
  CASE w.jira = "none" \/ offline -> Says("project.jira", "skip")
    [] w.jira = "good" /\ ~offline -> Says("project.jira", "ok")
    [] OTHER -> Says("project.jira", "fail")
CheckNotifications(w) ==
  CASE w.notify = "webhook" -> Says("project.notify", "ok")
    [] w.notify = "channel" -> Asks("project.notify", "warn", "set webhook")
    [] OTHER -> Says("project.notify", "skip")

(* _check_project.  A reference that does not resolve fails all of it. *)
CheckProject(w, offline) ==
  IF ~HasProject(w) \/ w.jira = "unresolved" THEN Says("project", "fail")
  ELSE CheckProjectPaths(w) \cup CheckJira(w, offline) \cup CheckNotifications(w) \cup
       IF w.jira # "none" THEN Says("project.credential", "ok") ELSE {}

(* The checks of a registered checkout.  This repository's own is exempt,   *)
(* by two different rules: from the first two because it is registered as   *)
(* itself, from the other two only if the doctor runs from it.              *)
OfCheckout(w, check, exempt, verdict) ==
  CASE ~HasProject(w) -> Says(check, "fail")
    [] HasProject(w) /\ w.path = "none" -> Says(check, "skip")
    [] HasProject(w) /\ w.path # "none" /\ exempt -> Says(check, "skip")
    [] OTHER -> verdict

(* tracked_ai_layer_paths: what git does not say is not "nothing". *)
NoAnswer == "no answer"
TrackedOr(w, orElse) ==
  IF w.git = "answers" /\ w.path = "repo" THEN w.tracked ELSE orElse
TrackedNone(w) == TrackedOr(w, "nothing")  \* slip: no answer reads as an empty list
TrackedPaths(w) == TrackedOr(w, NoAnswer)

(* Without git one skip stands for all projects. *)
CheckProjectLayering(w) ==
  OfCheckout(w, "layering.tracked", w.own,
    CASE w.path # "repo" -> Says("layering.tracked", "skip")
      [] w.path = "repo" /\ TrackedPaths(w) = NoAnswer -> Says("layering.tracked", "skip")
      [] w.path = "repo" /\ TrackedPaths(w) = "something" ->
           Asks("layering.tracked", "fail", "migrate")
      [] OTHER -> Says("layering.tracked", "ok"))
CheckLayering(w, some) ==
  CASE w.git = "absent" -> Says("layering.tracked", "skip")
    [] w.git # "absent" /\ some -> CheckProjectLayering(w)
    [] OTHER -> {}

CheckWorktreeLayers(w) ==
  OfCheckout(w, "worktrees.ai_layer", w.own /\ w.source,
    CASE w.path # "repo" -> Says("worktrees.ai_layer", "skip")
      [] w.path = "repo" /\ (w.worktrees = "unreadable" \/ w.git # "answers") ->
           Says("worktrees.ai_layer", "fail")
      [] w.path = "repo" /\ w.worktrees \in {"missing", "different"} /\ w.git = "answers" ->
           Asks("worktrees.ai_layer", "warn", "sync")
      [] OTHER -> Says("worktrees.ai_layer", "ok"))

(* _check_project_content_scan: folders of dependencies are left out when   *)
(* it is known what is tracked, or that there is no repository.             *)
CheckContentScan(w) ==
  LET leftOut == IF TrackedPaths(w) # NoAnswer \/ w.path # "repo" THEN {"dependency"} ELSE {}
  IN  OfCheckout(w, "content_scan", w.own,
        CASE w.path = "missing" -> Says("content_scan", "skip")
          [] w.path # "missing" /\ w.leak \notin {"none"} \cup leftOut ->
               Asks("content_scan", "fail", "replace value")
          [] OTHER -> Says("content_scan", "ok"))

-----------------------------------------------------------------------------
(* git_hooks.py and the guard check.                                       *)

IsOurs(w) == w.pushHook \in {"packaged", "stale"}

(* _native_pre_push_status.  Its text is compared if there is a template.   *)
NativeByMarker(w) == ~w.legacy /\ IsOurs(w) /\ w.pushRuns     \* slip: gap A of round 2
NativePrePush(w) ==
  /\ ~w.legacy /\ IsOurs(w) /\ w.pushRuns
  /\ w.source => w.pushHook = "packaged"

(* declared_hook_types: default_install_hook_types, or what stands for "a    *)
(* list it cannot read"; a file without the guard is not asked.              *)
Declared(w) ==
  CASE w.config = "guarded" -> {"pre-commit"}
    [] w.config = "guards push" -> {"pre-commit", "pre-push"}
    [] OTHER -> {}
(* missing_hook_types: a hook that is not there, or that git cannot run. *)
MissingHookTypes(w) ==
  {t \in Declared(w) : IF t = "pre-commit" THEN w.commitHook # "runs"
                       ELSE w.pushHook = "absent" \/ ~w.pushRuns}

CheckGuard(w) ==
  CASE w.config \in {"none", "unguarded"} -> Says("guard.git_hooks", "skip")
    [] w.config \notin {"none", "unguarded"} /\ w.git # "answers" ->
         Says("guard.git_hooks", "skip")
    [] w.config = "odd" /\ w.git = "answers" -> Asks("guard.git_hooks", "fail", "rewrite config")
    [] OTHER ->
         LET missing == MissingHookTypes(w) # {}
             asked == (IF missing THEN {"pre-commit install"} ELSE {}) \cup
                      (IF NativePrePush(w) THEN {} ELSE {"install-git-hooks"})
         IN  IF asked = {} THEN Says("guard.git_hooks", "ok")
             ELSE {Finding("guard.git_hooks", "fail", r) : r \in asked}
(* Of the checkout the doctor runs from, with or without a project, and of  *)
(* the registered one if it is another.  Hooks are looked at in the world   *)
(* of the registered one.                                                   *)
CheckOwnHooks(w) ==
  CASE ~w.source -> Says("guard.git_hooks.own", "skip")
    [] w.source /\ w.own -> CheckGuard(w)
    [] OTHER -> {}
CheckProjectHooks(w) ==
  OfCheckout(w, "guard.git_hooks.project", w.own /\ w.source,
    IF w.path = "repo" THEN CheckGuard(w) ELSE Says("guard.git_hooks.project", "skip"))
CheckGitHooks(w, some) == CheckOwnHooks(w) \cup IF some THEN CheckProjectHooks(w) ELSE {}

-----------------------------------------------------------------------------
(* tool_env_root: an environment of the tool's name, or of the one before.  *)
(* compare_deployment: modules it lacks.  compare_deployed_content: files   *)
(* that are not the checkout's, if there is one to compare with.            *)
NoEnvironment(w) == w.env \in {"absent", "old name"}
LacksModules(w) == w.env = "behind"
DiffersFromSource(w) == w.source /\ w.env = "stale"
(* compare_pin of deployed_version and _locked_version. *)
PinStatus(w) ==
  CASE w.pin = "unknown" -> "skip"
    [] w.pin = "same" -> "ok"
    [] OTHER -> "warn"
CheckDeployment(w) ==
  IF NoEnvironment(w)
  THEN Asks("deployment.tool_env", IF w.env = "absent" THEN "skip" ELSE "warn", "reinstall")
  ELSE Says("deployment.mcp_pin", PinStatus(w)) \cup
       IF LacksModules(w) \/ DiffersFromSource(w)
       THEN Asks("deployment.tool_env", "warn", "reinstall") ELSE Says("deployment.tool_env", "ok")

(* _check_ai_layer.  compare_ai_layer goes by SKILL.md; an extra folder, or  *)
(* a link to one, is passed over only if its name is listed as one's own.   *)
Drifted(w) == w.skills \in {"missing", "drifted"}
Stray(w) == w.stray \in {"moved", "retired", "retired link", "unknown"}
CheckAiLayer(w) ==
  CASE ~w.source \/ w.skills = "absent" -> Says("ai_layer", "skip")
    [] w.source /\ w.skills = "same" /\ ~Stray(w) -> Says("ai_layer", "ok")
    [] w.source /\ (Drifted(w) \/ (w.skills = "same" /\ Stray(w))) ->
         Asks("ai_layer", "warn", "install skills")

CheckOrphansSwapped(w) ==      \* slip: the text where the status belongs
  Says("processes.orphans", w.processes)
CheckOrphans(w) ==
  CASE w.processes = "unreadable" -> Says("processes.orphans", "skip")
    [] w.processes = "none" -> Says("processes.orphans", "ok")
    [] OTHER -> Asks("processes.orphans", "warn", "reap")

(* unresolved_routes of the guild block's targets; unreachable_skills, where *)
(* a skill's own text does not count.                                       *)
DeadRoute(w) == w.agentsMd = "dead route"
Unreached(w) == w.reached = "by itself"
CheckRoutes(w) ==
  CASE ~w.source \/ w.agentsMd \in {"absent", "no block"} -> Says("routes.guild_block", "skip")
    [] w.source /\ w.agentsMd = "undecodable" -> Says("routes.guild_block", "fail")
    [] OTHER ->
         (IF DeadRoute(w) THEN Asks("routes.targets", "fail", "fix route")
          ELSE Says("routes.targets", "ok"))
         \cup CASE w.reached = "undecodable" -> Says("routes.reachable", "fail")
                [] Unreached(w) -> Asks("routes.reachable", "fail", "name skill")
                [] OTHER -> Says("routes.reachable", "ok")

(* _check_session_hook and _check_prompt_hook: the entry is looked for, its *)
(* program compared with this installation's, and only then run.            *)
CheckHook(w, check, entry) ==
  CASE w.settings = "unreadable" -> Says(check, "skip")
    [] w.settings # "unreadable" /\ w.settings = "object" /\ entry = "works" -> Says(check, "ok")
    [] OTHER -> Asks(check, "warn", "hook --apply")

(* _unresolvable, _rival_jira_servers, _stale_project_servers. *)
Accused(w) == w.host \in {"unresolved", "rival", "stale project"}
CheckHostConfigs(w) ==
  CASE w.host \in {"absent", "empty"} -> Says("host_mcp", "skip")
    [] w.host = "garbled" \/ Accused(w) -> Asks("host_mcp", "warn", "edit host config")
    [] OTHER -> Says("host_mcp", "ok")

(* run_doctor, for every registered project or for one that was named.      *)
CheckProjects(w, offline) ==
  CheckProject(w, offline) \cup CheckWorktreeLayers(w) \cup CheckContentScan(w)
RunDoctor(w, named, offline) ==
  LET some == HasProject(w) \/ named
  IN  CheckEnvironment(w) \cup CheckPaths(w) \cup CheckRegistry(w) \cup
      (IF some THEN CheckProjects(w, offline) ELSE {}) \cup
      CheckLayering(w, some) \cup CheckGitHooks(w, some) \cup
      CheckDeployment(w) \cup CheckAiLayer(w) \cup CheckOrphans(w) \cup CheckRoutes(w) \cup
      CheckHook(w, "routes.session_hook", w.session) \cup
      CheckHook(w, "routes.prompt_hook", w.prompt) \cup CheckHostConfigs(w)

Diagnose ==
  /\ ~installing
  /\ \E named, offline \in BOOLEAN : report' = RunDoctor(world, named, offline)
  /\ UNCHANGED <<world, installing, followed, defects>>

-----------------------------------------------------------------------------
(* What the remedies do.                                                   *)

Done(remedy) == followed' = followed \cup {remedy} /\ report' = {} /\ UNCHANGED <<installing, defects>>
Asked(remedy) == ~installing /\ \E f \in report : f.remedy = remedy

(* A command that refuses, or fails before it has changed anything, has not *)
(* been done; the doctor is asked again.                                    *)
NotDone ==
  /\ ~installing /\ \E f \in report : f.remedy # None
  /\ report' = {} /\ UNCHANGED <<world, installing, followed, defects>>

(* drunken-init, whatever it is asked: the document is read, refused or      *)
(* wrapped, the home made private, the document written.                    *)
RegistryRead(w) == w.registry # "malformed"
Initialised(w) ==
  [w EXCEPT !.home = "private",
            !.registry = IF @ \in {"absent", "empty"} THEN "empty" ELSE "v2"]

(* `drunken-init --project --path`, with or without what the project's entry *)
(* needs for Jira and Discord; the folder has to be there, no more.         *)
Register ==
  /\ Asked("register") /\ RegistryRead(world)
  /\ \E path \in {"plain", "wrapper", "repo"}, jira \in {"none", world.jira},
        notify \in {"none", "webhook"} :
       LET entry == [Initialised(world) EXCEPT !.registry = "v2", !.path = path]
       IN  world' = IF HasProject(world) THEN entry
                    ELSE [entry EXCEPT !.jira = jira, !.notify = notify]
  /\ Done("register")

(* `drunken-init --project --git-root`: a folder that is the repository, if  *)
(* there is one; what is given is not looked at.                            *)
GitRoot ==
  /\ Asked("git root") /\ RegistryRead(world)
  /\ world' = [Initialised(world) EXCEPT !.path = IF @ = "wrapper" THEN "repo" ELSE @]
  /\ Done("git root")

(* `drunken-init --migrate-ai-layer --apply` that reports no refusal and no  *)
(* failure: git tracks nothing of what the doctor and it both list.         *)
Migrate ==
  /\ Asked("migrate") /\ RegistryRead(world)
  /\ world' = [world EXCEPT !.tracked = "nothing"] /\ Done("migrate")

(* install_pre_push_hook: refused, unchanged, or written and then made      *)
(* executable; a new file is not executable yet, and one that is cut short  *)
(* as it is opened carries no marker.  drunken-init has then written the    *)
(* registry already.                                                        *)
ChangedByMarker == ~IsOurs(world)          \* slip: what carries the marker is taken for it
Changed == world.pushHook # "packaged"
MayInstall == world.source /\ world.git = "answers" /\ (world.pushHook = "absent" \/ IsOurs(world))
RefuseHook ==
  /\ Asked("install-git-hooks") /\ RegistryRead(world) /\ ~MayInstall
  /\ world' = Initialised(world)
  /\ report' = {} /\ UNCHANGED <<installing, followed, defects>>
LeaveHook ==
  /\ Asked("install-git-hooks") /\ RegistryRead(world) /\ MayInstall /\ ~Changed
  /\ world' = Initialised(world) /\ Done("install-git-hooks")
WriteHook ==
  /\ Asked("install-git-hooks") /\ RegistryRead(world) /\ MayInstall /\ Changed
  /\ world' = [Initialised(world) EXCEPT !.pushHook = "packaged",
                                         !.pushRuns = @ /\ world.pushHook # "absent"]
  /\ installing' = TRUE /\ report' = {} /\ UNCHANGED <<followed, defects>>
MakeExecutable ==
  /\ installing /\ installing' = FALSE
  /\ world' = [world EXCEPT !.pushRuns = TRUE]
  /\ followed' = followed \cup {"install-git-hooks"} /\ UNCHANGED <<report, defects>>
Dies ==
  /\ installing /\ installing' = FALSE
  /\ \E text \in {"foreign", "packaged"} : world' = [world EXCEPT !.pushHook = text]
  /\ UNCHANGED <<report, followed, defects>>

(* pre-commit installs the stages that are declared; a pre-push hook that   *)
(* is not its own is moved aside, and run by its shim if it is executable.  *)
PreCommitInstall ==
  /\ Asked("pre-commit install") /\ world.git = "answers"
  /\ world' = [world EXCEPT
       !.commitHook = "runs",
       !.legacy = @ \/ (world.config = "guards push" /\ world.pushHook \notin {"absent", "shim"}),
       !.pushHook = IF world.config = "guards push" THEN "shim" ELSE @,
       !.pushRuns = @ \/ world.config = "guards push"]
  /\ Done("pre-commit install")

(* `hook --apply` adds an entry where there is none that looks like one; it *)
(* names its own program, or the bare command, which may not be this        *)
(* installation's or not run at all.                                        *)
EntryAfter(entry) ==
  IF world.settings = "absent" \/ entry = "none" THEN {"works", "elsewhere", "broken"} ELSE {entry}
HookApply ==
  /\ Asked("hook --apply")
  /\ \E session \in EntryAfter(world.session), prompt \in EntryAfter(world.prompt) :
       world' = [world EXCEPT !.settings = "object", !.session = session, !.prompt = prompt]
  /\ Done("hook --apply")

(* install_skills.sh with --prune-apply, which removes no link; a name that *)
(* is not known is listed as one's own or as retired first.  Extras are     *)
(* installed on purpose and are never pruned.                               *)
StrayAfter(stray) ==
  CASE stray = "retired" -> {"none"}
    [] stray = "unknown" -> {"external", "none", "retired link"}
    [] OTHER -> {stray}
InstallSkillsAgain ==
  /\ Asked("install skills")
  /\ \E stray \in StrayAfter(world.stray) :
       world' = [world EXCEPT !.skills = "same", !.stray = stray]
  /\ Done("install skills")

(* `--sync-worktrees --apply`: what differs is never overwritten. *)
SyncWorktrees ==
  /\ Asked("sync") /\ RegistryRead(world)
  /\ world' = [world EXCEPT !.worktrees = IF @ = "missing" THEN "same" ELSE @]
  /\ Done("sync")

(* `reap --apply` exits with 0 whatever it skips: holders whose session     *)
(* lives unless --include-held is given, and what it may not terminate.     *)
ReapLeaves(p) == IF p = "stubborn" THEN {p} ELSE {"none", "held", "stubborn"}
ReapLeftovers ==
  /\ Asked("reap")
  /\ \E p \in ReapLeaves(world.processes) : world' = [world EXCEPT !.processes = p]
  /\ Done("reap")

(* secure_command's text, chmod or icacls: the latter replaces what is      *)
(* inherited and the owner's own entry, and no other.                       *)
Secured(mode) == IF mode = "open" THEN "private" ELSE mode
Secure(fact, remedy) ==
  /\ Asked(remedy) /\ world' = [world EXCEPT ![fact] = Secured(@)] /\ Done(remedy)

(* What another program or the person's own hand does is taken as done. *)
Mended ==
  [r \in {"bump", "install mcp<2", "edit registry", "upgrade registry", "set webhook",
          "replace value", "rewrite config", "reinstall", "fix route", "name skill",
          "edit host config"} |->
     CASE r = "bump" -> [world EXCEPT !.declared = world.tagged]
       [] r = "install mcp<2" -> [world EXCEPT !.mcp = 1]
       [] r \in {"edit registry", "upgrade registry"} -> [world EXCEPT !.registry = "v2"]
       [] r = "set webhook" -> [world EXCEPT !.notify = "webhook"]
       [] r = "replace value" -> [world EXCEPT !.leak = "none"]
       [] r = "rewrite config" -> [world EXCEPT !.config = "guarded"]
       [] r = "reinstall" -> [world EXCEPT !.env = "current"]
       [] r = "fix route" -> [world EXCEPT !.agentsMd = "routes"]
       [] r = "name skill" -> [world EXCEPT !.reached = "named"]
       [] OTHER -> [world EXCEPT !.host = "fine"]]
Mend(r) == Asked(r) /\ world' = Mended[r] /\ Done(r)

-----------------------------------------------------------------------------
(* Something goes wrong, or is changed; a command that breaks off between   *)
(* two of its writes is of that kind.                                       *)
Wrong ==
  /\ ~installing /\ defects < MaxDefects /\ defects' = defects + 1
  /\ report' = {} /\ followed' = {} /\ UNCHANGED installing
GoesWrong(fact) ==
  /\ \E value \in Values[fact] \ {world[fact]} : world' = [world EXCEPT ![fact] = value]
  /\ Wrong
(* drunken-init opens the registry to write it, and cuts it short. *)
CutShort ==
  /\ \E r \in {"register", "git root", "install-git-hooks"} : Asked(r)
  /\ RegistryRead(world)
  /\ world' = [world EXCEPT !.home = "private", !.registry = "malformed"] /\ Wrong
(* hook --apply writes the settings once for each of its two entries. *)
OneHookApplied ==
  /\ Asked("hook --apply")
  /\ \E session \in EntryAfter(world.session) :
       world' = [world EXCEPT !.settings = "object", !.session = session,
                              !.prompt = IF world.settings = "absent" THEN "none" ELSE @]
  /\ Wrong

DoctorInit ==
  /\ \E source, own \in BOOLEAN : world = Healthy(source, own)
  /\ report = {} /\ installing = FALSE /\ followed = {} /\ defects = 0
Remedies ==
  \/ NotDone \/ Register \/ GitRoot \/ Migrate
  \/ RefuseHook \/ LeaveHook \/ WriteHook \/ MakeExecutable \/ Dies \/ PreCommitInstall
  \/ HookApply \/ InstallSkillsAgain \/ SyncWorktrees \/ ReapLeftovers
  \/ Secure("home", "secure home") \/ Secure("authDb", "secure auth_db")
  \/ \E r \in DOMAIN Mended : Mend(r)
DoctorNext ==
  \/ Diagnose \/ Remedies \/ CutShort \/ OneHookApplied
  \/ \E fact \in DOMAIN Values \ {"source", "own"} : GoesWrong(fact)
DoctorSpec == DoctorInit /\ [][DoctorNext]_doctorVars

-----------------------------------------------------------------------------
FindingStatuses == {"ok", "warn", "fail", "skip"}
DoctorTypeOK ==
  /\ DOMAIN world = DOMAIN Values /\ \A fact \in DOMAIN Values : world[fact] \in Values[fact]
  /\ \A f \in report : f.status \in FindingStatuses
  /\ installing \in BOOLEAN /\ defects \in 0..MaxDefects
  /\ followed \subseteq DOMAIN Mended \cup
       {"register", "git root", "migrate", "install-git-hooks", "pre-commit install",
        "hook --apply", "install skills", "sync", "reap", "secure home", "secure auth_db"}

(* "A skip, never a pass": what is reported as ok is so in the world, and   *)
(* what could not be asked is not reported as ok.  What git and the host    *)
(* would do is stated without the checks: a push is scanned if git can run  *)
(* the packaged hook; a session is told if its hook runs.  Without a        *)
(* checkout the doctor has nothing to compare texts with.                   *)
PushIsScanned == world.pushHook = "packaged" /\ world.pushRuns
IsOk(check) == Finding(check, "ok", None) \in report
NoFalseOk ==
  /\ IsOk("layering.tracked") => world.tracked = "nothing" /\ world.git = "answers"
  /\ IsOk("content_scan") => world.leak # "layer"
  /\ IsOk("worktrees.ai_layer") => world.worktrees = "same" /\ world.git = "answers"
  /\ IsOk("guard.git_hooks") => /\ world.commitHook = "runs"
                                /\ PushIsScanned \/ (~world.source /\ world.pushHook = "stale")
                                /\ world.config \in {"guarded", "guards push"}
  /\ IsOk("deployment.tool_env") =>
       world.env = "current" \/ (world.env = "stale" /\ ~world.source)
  /\ IsOk("ai_layer") => world.skills = "same" /\ world.stray \notin {"retired", "retired link", "unknown"}
  /\ IsOk("routes.session_hook") => world.settings = "object" /\ world.session = "works"
  /\ IsOk("routes.prompt_hook") => world.settings = "object" /\ world.prompt = "works"
  /\ IsOk("project.jira") => world.jira = "good"
  /\ IsOk("version.declared") => world.declared >= world.tagged

(* What is asked for again although its command reported success and        *)
(* nothing has gone wrong since.                                            *)
InVain == {f \in report : f.status \in {"warn", "fail"} /\ f.remedy \in followed}

(* "`drunken-install hook --apply` is the fix": a hook of the host that was  *)
(* applied is not reported again.                                           *)
HookApplyFixes == \A f \in InVain : f.remedy # "hook --apply"

(* A remedy whose command succeeded is given again only where the command   *)
(* exits with 0 and leaves alone what it finds: an entry that looks like    *)
(* the guild's but does not run, a pre-push hook that cannot be executed or *)
(* was moved aside before, an extra skill or a link, a file that differs, a *)
(* process that is held or cannot be terminated, an access entry of         *)
(* another, a folder without a repository.                                  *)
Left(f) ==
  CASE f.remedy = "hook --apply" ->
         {world.session, world.prompt} \cap {"elsewhere", "broken"} # {}
    [] f.remedy = "install-git-hooks" ->
         world.legacy \/ (world.pushHook = "packaged" /\ ~world.pushRuns)
    [] f.remedy = "install skills" -> world.stray \in {"moved", "retired link"}
    [] f.remedy = "sync" -> world.worktrees = "different"
    [] f.remedy = "reap" -> world.processes \in {"held", "stubborn"}
    [] f.remedy = "secure home" -> world.home = "granted"
    [] f.remedy = "secure auth_db" -> world.authDb = "granted"
    [] f.remedy = "git root" -> world.path = "plain"
    [] OTHER -> FALSE
InVainOnlyIfLeft == \A f \in InVain : Left(f)
=============================================================================
