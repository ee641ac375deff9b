# Drunken Guild in TLA+

Drunken Guild is a set of command-line tools, a permission hook and an MCP server for people who
work with coding agents. What can do lasting harm is what acts on things it does not own: a project's
checkout, its git index and `info/exclude`, its worktrees, the registry every tool reads, the host's
`settings.json`, a person's skills, other people's Jira issues, and the processes of a running
session. These modules model that. Source paths below are relative to `src/src/core/`
unless they start with `jira_mcp/` (in `src/src/`), `docs/` or `tests/` (in `src/`).

## The system

| Component | State it keeps | Operations | What makes it correct |
|---|---|---|---|
| `exclude.py` | `info/exclude`: lines, marker blocks; shared by all worktrees | `exclude_ai_layer`: read, validate, append | patterns a finished call relies on stay; foreign lines stay; nothing but a torn append makes a file it refuses |
| `layer_migrate.py` | HEAD, index, working files, a backup directory | back up, scan, restore, exclude, untrack in batches | nothing untracked that is not backed up and hidden; no version lost; reruns finish |
| `layer_copy.py` | project files, config-repo files, the run's report | validate all, exclude, copy one by one | tracked and existing files stay; only scanned content; the report is true |
| `worktrees.py` | the layer in each linked worktree, lines of `info/exclude` | plan a worktree, copy what is missing, add lines | existing and tracked files stay; no file left visible; every worktree reached |
| `init.py` (registry) | `projects.json`, its backups | register (truncate, write), remove (backup, swap) | other entries stay; what is removed is backed up; a broken file is refused |
| `install.py` (settings hook) | `settings.json`, backups | plan, read, back up, merge, re-read, replace, per hook | an edit between its reads stays; no second entry; success means both hooks; what is replaced is backed up |
| `install.py`, `install_extras.py` (skills, agents) | folders and files under `~/.claude`, an index | plan, check and swap each file, index, prune | what a finished run says is there; an agent has its skill; only its own files, none through a link |
| `orphans.py`, `install.py` (reap) | process-table snapshots | plan, verify, terminate, confirm, in two stages | only what was planned; not the session it was started from; the report is true |
| `jira_mcp/`, `secrets.py`, `registry.py`, `context.py` | cached clients, secrets, board profiles, field maps; issues on the server | 15 tools, some of several requests, many at a time | one identity per project; only its own issues; replies agree with Jira; "could not ask" is not "no" |
| `doctor.py`, `git_hooks.py` | none; the pre-push hook and its execute bit | look, name remedies; write the hook, make it executable | no "ok" of what is not so; a remedy whose command succeeded is asked for again only where that command leaves things as they are |
| `hook.py`, `permission_rules.py` | none between calls | split a command, carry flags, decide | what is forbidden is denied wherever it stands; nothing else is locked out |
| `content_scan.py`, `ai_layer.py`, `scaffold.py`, `paths.py`, `notify.py`, `usage.py`, `config_gen.py`, prompt routing, text formats | none, or one-step writes | text matching, reports, templates | not modelled (below) |

How they interact: the migration and the copy-in each make one call of `exclude_ai_layer`
and rely on what it promises. The worktree sync writes the same file on its own, without
the marker block. `drunken-init` runs one of migration, sync and removal per invocation, or a
registration, which writes the registry and then performs the copy-in. Worktrees of one
repository share `info/exclude`, so two invocations may be at it at once. The Jira server reads the
registry while `drunken-init` writes it. The doctor looks at what all the others leave behind and
names one of them as the remedy. Nothing takes a lock. A person edits, stages, commits and
repairs files all the while, and other people work in Jira.

What is hard: a run killed between any two of its steps, and the rerun; a write cut short;
checks that are older than the writes they guard; two writers of one file; a request that Jira
acted on and that timed out all the same; a pid that is handed out again; a remedy that leaves
alone what it was asked to mend; paths that are one file under two spellings. `PROJECT.json` lists
each hazard at its line with the properties that watch it.

## Modules

| Module | Code | Notes |
|---|---|---|
| `ExcludeFile` | `exclude.py` 388-562 | the file as a sequence of lines, any number of writers |
| `LayerExclude` | the same call, seen by its callers | the abstract file (`excluded`, `broken`), the promise `ExcludePromise`, and the actions its callers use |
| `LayerPromise` | REQ-019 | abstract: what git may come to make of a layer path |
| `LayerMigrate` | `layer_migrate.py`, `doctor.py` 1996-2044 | EXTENDS `LayerExclude`; implements `LayerPromise` |
| `LayerCopy` | `layer_copy.py` 463-1009, `init.py` 587-646 | EXTENDS `LayerExclude`; implements `LayerPromise` |
| `InitRegistry` | `init.py` 138-284, 468-559, 898-981, 1091-1186 | the registry file and its three writers' steps |
| `WorktreeSync` | `worktrees.py`, `init.py` 1023-1088 | |
| `SettingsHook` | `install.py` 1794-2183, 2427-2450 | both hooks in one run, any number of runs |
| `SkillInstall` | `install.py` 107-609, `install_extras.py` | all three commands on one set of folders |
| `Reap` | `orphans.py`, `install.py` 2487-2663 | |
| `JiraFlow` | `jira_mcp/server.py`, `jira_client.py`, `backlog.py`, `assign.py`, `labels.py`, `secrets.py`, `registry.py`, `context.py` | calls as coroutines; composes the server with the registry's writer and the secret store |
| `Doctor` | `doctor.py`, `git_hooks.py`; `init.py`, `install.py`, `worktrees.py`, `paths.py` and `scripts/install/install_skills.sh` as far as the doctor names them as remedies | |
| `PermissionHook` | `hook.py`, `permission_rules.py` | operators on token sequences, judged beside a shell |
| `*_proofs` (8) | | theorems about `ExcludeFile`, `LayerMigrate`, `LayerCopy`, `InitRegistry`, `WorktreeSync`, `SettingsHook`, `JiraFlow`; `Tools_proofs` about `Reap`, `SkillInstall` and `Doctor` |
| `MCExcludeFile`, `MCLayerCopy`, `MCSettingsHook`, `MCReap`, `MCTools` | | constants that a `.cfg` cannot write, and symmetry; `MCTools` puts five components side by side |

`ExcludeFile` is shown to implement `LayerExclude!ExcludePromise` under the mapping
`excluded <- Patterns \subseteq Range(file)`, `broken <- ~Accepts(file) \/ torn = 2`. `LayerMigrate` and
`LayerCopy` build on the abstract file and are shown to implement `LayerPromise`: a step of the
guild never shows git a new file, never tracks one and never deletes one; only a person may.
So the two halves meet at `LayerExclude`.

### How state and actions correspond to the code

**ExcludeFile.** `file` and `newline` are the text of `info/exclude` as lines, and whether the
last is terminated. `Read` is everything from `read_text` to the block that is about to be
written, `WriteBlock` the single `write` of a file opened for appending, `Interrupted` the same
write cut short: some whole lines of it, perhaps part of the next. `Verdict` is the loop of
`_validate_marker_lines`; `WellFormed` is the reference definition it is compared with.
`Junk` is any unfinished line, or two that ran together.

**LayerMigrate.** `head`, `index` and `disk` give the content of each path, `Absent` or a link.
One turn of each loop is one action (`BackUp`, `Restore`, `Untrack` for one `git rm`), and
the calls between them are `Start`, `BackedUp` and `ExcludeLayer`. `todo` is what is left in the
current loop. `Dies` is a kill, or any operating-system failure, before the next step; in the
append it may leave the block torn. `saved` is every backup directory so far, and `touched`,
a history variable, the paths the person changed since the run started.

**LayerCopy.** `Start` is the whole of `validate_ai_layer_copy`, with every check a guard: a
refused run changes nothing, so it is no step. `Fold` is `casefold` and `Place` the file a path
names on the disk: with `Place = Fold` the disk is case-insensitive, as macOS and Windows disks are.
`Skip` and `Copy` are the two ways through the loop, `CopyFails` is `PartialCopyError`, and
`Torn` the content `copy2` leaves when it is cut short. `Nested` says that the project lies in a
subfolder of its repository, where only the `**/` patterns match.

**InitRegistry.** `Register` is `main` up to `_write`, in one step because nothing is written
before; `Truncate` and `Dump` are the `open(..., "w")` and the writing; `BackUp` and `Swap` belong to
`--remove-project`. `detached` tells a process that its open file is no longer at the path.
An entry is its `jira` block, the only part that the properties tell apart. `base` is the last
complete document at the path.

**WorktreeSync.** `read` is what `_source_files` returned, once for all worktrees; `Plan` is the
classification of one worktree; `CopyFile` copies the checkout's file as it is now; `ExcludeCopied`
adds the lines. `made` is history: the files a run put in a worktree that nobody has touched.

**SettingsHook.** The code reads `settings.json` once to plan and then three times more, and each
read is an action, with `Replace` after the last: `Plan`, `Read` (`original_bytes`), `Load`, `BackUp`,
`Check`. `mem` holds a process's local variables. An entry of an event holds the guild's command,
others' commands or both (`shared`). `stable` is history: the steps of a process after which nobody
else has changed the file.

**SkillInstall.** `folder` says what a skill's name is in `~/.claude/skills`, `text` what its files hold,
`agent` the agent files. `InstallSkills`, `InstallAgents` (behind the gate `Gated`) and `InstallExtras` make
the plan; then each file is two steps, `CheckFile` (`_assert_inside`, `mkdir`) and `SwapIn`
(`os.replace`), with a person between them. `SyncIndex`, `ListOrphans`, `RemoveFile`, `RemoveFolder`
and `FinishSkills` are the rest of `skills --prune-apply`. `Fails` is a death or an error at any
step. `complete`, `installed`, `touched` and `planted` are history: what the last run achieved, and what a
person did since it planned or since a file was checked.

**Reap.** `procs` is the process table; a process names its parent's pid whether or not the
parent lives. `planTable` and `snapshot` are the two readings the command makes, `stage` says which
of its lists it works on, and `Terminate` and `Confirm` are the signal and the look afterwards.
`Verified` is the whole of the second check, `Refused`, `AlreadyGone` and `CannotLook` the failures. Between
any two steps processes exit (`Exits`) and start (`Starts`), also under a pid that became free.
`AncestorChain`, `SessionRoot` and `ProtectedPids` are the functions of those names. `struck` is history.

**JiraFlow.** A call runs alone up to its next request, so each request with what follows it is
one action: `Begin` (arguments, scope, client), then `FetchBoards`, `ProbeBacklog`, `IssueTypes`, `FieldMap`,
`GetTransitions`, `AssignableUsers`, `MyAccountId`, `Read`, `Write`, `CommentOnSubmit`, `MoveIssues`.
`pc` is the stage of a call or its answer. Each request may be answered, fail, or fail after Jira acted
(`Fault`); a token that was rotated fails without a fault. `clients`, `secrets`, `profiles` and
`fieldMaps` are the caches. `Truncate` and `Dump` are the two steps of a registration, `Rotate` and
`Restart` what an administrator and the host do, `PersonTransitions` and `BoardChanges` what people do
in Jira. `did`, `sent` and `boardWas` are history.

**Doctor.** `world` holds one value per fact the checks look at, and each `CheckX` is the function
`_check_x` over these facts: which finding, which status, which remedy. `Diagnose` is
`run_doctor`, for all registered projects or one that is named. The remedies are actions guarded by a
finding that names them, and say what each command does to the facts: `Register` and `GitRoot`
(`drunken-init`, which refuses a registry it cannot read), `Migrate`, `SyncWorktrees`, `HookApply`,
`ReapLeftovers`, `InstallSkillsAgain`, `Secure` (the text of `secure_command`), and `RefuseHook`, `LeaveHook`,
`WriteHook`, `MakeExecutable` for `--install-git-hooks`, with `Dies` between the two steps of
`install_pre_push_hook`. A command may leave things as they are and still exit with 0: `reap --apply` skips a holder
whose session lives and what it cannot terminate, a sync a file that differs. `NotDone` is any
remedy that refuses or fails before it changes anything; `CutShort` and `OneHookApplied` break off
between two writes. `Mend` is what another program or the person's own hand does (an edit, `uv`, `pip`), and is taken as
done. `GoesWrong` changes any fact to any value. `followed` is history: the remedies whose commands have
exited with 0 since anything went wrong.

**PermissionHook.** A command is typed token by token (`Type`) and then judged (`Main`).
`ScannedOf` and `Segments` are `segments_with_leading_operator`, `Carried` one turn of the loop of
`_bypasses_hook_floor_bash` with its flags, `Decide` is `decide`, with the refusals before it. The code
drops segments of blanks when the scan is over, the model when a segment is closed (`WithSegment`), which
comes to the same: the scan does not look at the segments it has. A command is of a kind that stands for
the spellings the hook takes alike, the blanks beside it included; a blank that stands alone, between two
operators or at the end, is a token, since the hook does not take it as nothing. `Ran` is not the code's: it is a shell that runs what was typed, with a stack of
directories for parentheses, and `JudgedAsRun` compares the two.

## Runs

`tlc -workers 2 -config X.cfg M` in this directory.

| Run | Module | What it shows | Bounds |
|---|---|---|---|
| `exclude_file` | `MCExcludeFile` | `CoveredWhenDone`, `OneBlock`, `SoundUnlessTorn`, `NotesKept`, `ScanAgrees`, and the refinement `KeepsExcluded` | 3 processes, 2 patterns, 5 calls, 1 edit |
| `migrate` | `LayerMigrate` | `ReadyToUntrack`, `NothingLost`, refinement `KeepsPromise`, liveness `RerunsFinish` | 2 files, 2 contents, batches of 1, 2 edits, 1 death |
| `copy` | `MCLayerCopy` | `TrackedKept`, `ExistingKept`, `OnlyScanned`, `ReportMatchesDisk`, refinement `KeepsPromise` | 3 paths, two of them one file; 2 clean contents and a secret; 2 edits, 1 fault |
| `registry` | `InitRegistry` | `UnreadableOnlyIfCut`, `OthersKept`, `RemovedIsBackedUp` | 2 processes, 2 projects, 4 runs, 2 deaths, 1 repair |
| `worktrees` | `WorktreeSync` | `LeftUntouched`, `OnlyWhileCopying`, liveness `SyncsFinish` | 2 worktrees, 2 files, 1 edit, 1 fault |
| `settings` | `MCSettingsHook` | `BothOrNeither`, `OthersKept`, `NoSecondEntry`, `ReplacedIsBackedUp` | 2 processes, 2 runs, 2 edits, 1 death |
| `tools` | `MCTools` | reap: `OnlyPlanned`, `SessionSpared`, `ReportIsTrue`. Jira server: `OneIdentity`, `NothingForeign`, `NoInventedLimit`, `OnlyAsAsked`, `RepliesAreTrue`. Installer: `ShippedWhenDone`, `AgentsHaveSkills`, `OnlyOwnFiles`. Doctor: `NoFalseOk`, `InVainOnlyIfLeft`. Hook: `JudgedAsRun`. Types of all five: `ToolsTypeOK` | 2 process tables of 10 pids, 1 exit, 1 start; 2 calls of 20 kinds, 1 project, 2 issues, 1 fault, 1 change, 1 person's step; 3 skills, 2 agents, 2 files, 1 edit, 1 failure; 2 defects; command lines of 8 tokens with commands of 7 kinds |
| `copy_nested` | `MCLayerCopy` | violation of `KeepsPromise` | no edits, no faults |
| `copy_torn` | `MCLayerCopy` | violation of `RerunIdempotent` | 1 failed copy |
| `worktrees_rerun` | `WorktreeSync` | violation of `RerunExcludes` | 1 kill |
| `doctor_remedy` | `Doctor` | violation of `HookApplyFixes` | 1 defect |
| `hook_scope` | `PermissionHook` | violation of `SubshellReverts` | 8 tokens, 3 kinds |

In `tools` the five components share no state, and one of them runs in each behaviour while
the others rest: it is five checks in one run, and what it explores is the sum of their states,
not the product.

Why the bounds are enough to be interesting: each hazard needs at most two actors, two files
and one interruption. Two processes let a read of one fall between the read and the append of the
other, and five calls of three processes let a rerun follow on two torn appends of a file that a third has
read while it was empty. One death and one rerun is the shape of every
recovery hazard; a batch of one path puts a death between two `git rm` calls of a two-file layer.
Two edits by the person suffice to stage one version and save another, which is the only way a
version comes to exist in one place, and to make a change of `settings.json` between two reads
and unmake it. Initial states are not bounded this way: every combination of HEAD, index, disk,
exclude file and registry over the constants is one (`settings.json` starts with the same entries for
both events; that they differ comes of edits and killed runs).

For `tools`: a pid that is taken over needs one exit and one start, between the same two readings.
The two tables have sessions of one app and one right below the Explorer, reap below its own shell,
orphans of three kinds, and lock holders whose parent lives. Two calls suffice for a client, a profile or a label set that is read by
one and changed by the other; one change of the configuration falls between any two requests, and
one fault is any request failing or timing out. A remedy in vain needs two defects where one masks the
other. Eight tokens are three or four commands, or two in parentheses with a blank between them: the
shortest line in which a parenthesis is lost farther on than at the next operator.

`CHECK_DEADLOCK FALSE` everywhere: when the bounds are used up and nothing is left to do the
tools are at rest, which is an end and not a deadlock. Every property has a mutant in
`PROJECT.json`: a plausible slip in the definition, marked `slip` in the module next to it,
for which the same run reports the property violated.

The type invariants are proved and, but for `ToolsTypeOK`, not run again.

Properties of steps quantify over files outside `touched`, because no document promises what
happens to a file a person changes while a run is between its check and its write. The model contains
those behaviours all the same. In the same way `OthersKept` and `RemovedIsBackedUp` except runs that
overlap, which `docs/REFERENCE.md` 158-161 forbids ("There is no lock").

The properties of `SettingsHook` name what the code's re-read does not see. A change after it is
lost, as it must be without a lock. So is a file that somebody creates after a run found none:
then nothing is read again. And the bytes that are compared and the document that is merged come
of two reads, so an edit made before the second and unmade after it passes the comparison and comes
back. Without its conjunct `mem[p].loaded = mem[p].original`, TLC reports `OthersKept` violated in
nine steps. An entry that holds the guild's command beside another's is removed with both.

`OnlyPlanned` and `SessionSpared` of `Reap` speak of processes that had their pid when the table was last
read: a pid that is handed out again between that reading and the signal is struck by any such tool,
and no document promises otherwise. `InVainOnlyIfLeft` is about remedies whose commands exited with 0 and are
asked for again; `Left` lists the states in which that may be. It says nothing of a command that refuses, which
the doctor names again until it succeeds, nor of the remedies in `Mended`, which are taken to
work. `JudgedAsRun` excepts the commands of finding 5 (`CloseLost`): those where a blank stands alone behind a
closing parenthesis with only operators between the two. `NothingForeign` excepts board snapshots, below.
`ReplacedIsBackedUp` is about a file that nobody has written since the run's first read of it.

### Fairness

`migrate` and `worktrees` use `WF_vars(Guild)`: a started run is scheduled (it is an ordinary
process with no lock to wait for), and the person starts the command again for as long as it
has something to do, which is what its error messages ask for. Nothing is assumed of the person's
other actions, nor of deaths. Under it `RerunsFinish` says that the layer ends up untracked or
something needs the person, and `SyncsFinish` that no worktree misses a file. The other runs
assume no fairness: their programs either end after a bounded number of steps or wait for a
request whose time-out is modelled as a fault.

## What the code does against what it says

Five runs are expected to fail; each disagreement was also reproduced with the real program.

1. `copy_nested`: the root-only patterns are anchored at the git root (`exclude.py` 219-222). For a
   project registered with a `git_root` offset the copied files lie lower, are not matched and show
   up in `git status`, against `layer_copy.py` 937-938.
2. `copy_torn`: `copy2` writes in place (`layer_copy.py` 982), so a failed copy leaves a truncated
   file that every rerun keeps as the person's own and reports as different, against
   `layer_copy.py` 940-942.
3. `worktrees_rerun`: a sync killed between copying and excluding (`worktrees.py` 197-198) leaves
   files no rerun excludes, against `tests/test_core_worktrees.py` 64.
4. `doctor_remedy`: the doctor sends for `hook --apply` when a guild entry is there and does not work;
   `hook --apply` answers `already-present` (`install.py` 1965), against `doctor.py` 1323-1324.
5. `hook_scope`: a blank that stands alone makes a segment of its own, dropped with all operators
   since the last command (`permission_rules.py` 222). With a closing parenthesis among them, a command after a
   subshell is judged as if it ran in the subshell's directory, against `hook.py` 1108-1109:
   `(cd .git/hooks) ; rm x` and `(cd .git/hooks); (rm x)` are denied, `(cd .git/hooks); rm x` is not.

Seen on the way, without a run of its own:

- `jira.json` of a config repo replaces the whole `jira` block (`init.py` 1153); an e-mail registered
  earlier is gone, against `init.py` 533-534. `JiraAfter` of `InitRegistry` has it so.
- Of two users with the same display name `pick_user` takes the first (`jira_mcp/assign.py`); a
  `ValueError` in a tool is reported as a bug of the server. `Picked` and the answer `failed` have it so.
- Two calls may ask for a board profile or a field map at once, and a failure that arrives last
  replaces an answer that arrived first. `NoInventedLimit` holds all the same: a failure is kept as
  "not known".
- `get_project_board` hands on what the search returned (`jira_mcp/server.py` 482-492) without the filter that
  `jira_search_issues` applies to the same answer. Its query is scoped, and no document promises more of it,
  so `NothingForeign` speaks of the other tools; `Read` has it as it is.
- `install_pre_push_hook` answers "unchanged" for a hook that has lost its execute bit
  (`git_hooks.py` 111-176), and the doctor goes on reporting it: a case of `Left`. Others are a lock
  holder whose session lives (`install.py` 2603-2618: `reap --apply` leaves it alone without `--include-held` and
  exits with 0), a retired skill that is a link (`install_skills.sh` removes no links), and on Windows a
  home that is open by an access entry of its own, which the printed `icacls` does not take away.
- `hook --apply` may write the bare command where it finds no absolute path (`install.py` 1906-1936), and says
  so; whether that runs, only the next `drunken-doctor` tells.

## What is proved

Eight modules prove the components' specifications right for every value of the constants and of the
bounds, from each module's named assumptions alone.

| Module | Theorem | States |
|---|---|---|
| `ExcludeFile_proofs` | `ScanCorrect`, `Covered`, `NoSecondBlock`, `OnlyTornUnsound`, `NotesSafe`, `Implements` | `[]ScanAgrees`, `[]CoveredWhenDone`, `[]OneBlock`, `[]SoundUnlessTorn`, `NotesKept`, `KeepsExcluded` |
| `LayerMigrate_proofs` | `SafeToUntrack`, `LossFree`, `PromiseKept` | `[]ReadyToUntrack`, `NothingLost`, `KeepsPromise` |
| `LayerCopy_proofs` | `ReportTrue`, `TrackedSafe`, `ExistingSafe`, `ScannedOnly`; `PromiseKept` if `~Nested` | `[]ReportMatchesDisk`, `TrackedKept`, `ExistingKept`, `OnlyScanned`, `KeepsPromise` |
| `InitRegistry_proofs` | `UnreadableCauses`, `EntriesKept`, `RemovedKept` | `[]UnreadableOnlyIfCut`, `OthersKept`, `RemovedIsBackedUp` |
| `WorktreeSync_proofs` | `ShownOnlyWhileCopying`, `NothingOverwritten` | `[]OnlyWhileCopying`, `LeftUntouched` |
| `SettingsHook_proofs` | `BothHooks`, `BackedUp`, `Idempotent`, `KeepsOthers` | `[]BothOrNeither`, `ReplacedIsBackedUp`, `NoSecondEntry`, `OthersKept` |
| `JiraFlow_proofs` | `SameIdentity`, `NoForeignIssue`, `LimitsAreReal`, `AsAskedOnly`, `TrueReplies` | `[]OneIdentity`, `[]NothingForeign`, `[]NoInventedLimit`, `OnlyAsAsked`, `[]RepliesAreTrue` |
| `Tools_proofs` | reap: `ReportTrue`, `PlannedOnly`, `OwnSessionSpared`; installer: `Shipped`, `SkillsBeside`, `OwnFilesOnly`; doctor: `NoFalseHealth`, `VainOnlyIfLeft`; hook: `JudgedAlways`; all five: `ToolsTyped` | `[]ReportIsTrue`, `OnlyPlanned`, `SessionSpared`; `[]ShippedWhenDone`, `[]AgentsHaveSkills`, `OnlyOwnFiles`; `[]NoFalseOk`, `[]InVainOnlyIfLeft`; `[]JudgedAsRun`; `[]ToolsTypeOK` |

Each module has a theorem about types besides. None of these properties is inductive as it stands. What
each proof adds:

- **ExcludeFile.** `ScanAgrees` and `OneBlock` are about files of any length, so the proof is one by
  induction over lines. The library's induction theorems take an operator as a parameter, which no installed
  prover can instantiate; `LeastNat` has the same from well-foundedness, for sets: a non-empty set of
  numbers has a least element, and a counterexample is such a set. `Recursion` then gives a recursive
  function its equations. `SelectSeq`, which no prover unfolds, is a recursive function in `Missing`.
  Beside `TypeOK` the invariant is `LeadKnown`, what the last line may be when the file has no final
  newline, by the number of torn appends; `Covering`: with at most one torn append the patterns of a call
  that got through are in lines that no pending append can run into, or in a block about to be written;
  `Alone`: of runs that do not overlap at most one is busy, and the file has one start marker at most;
  and `Sound`: without a tear or an edit the file is well-formed. The refinement needs `broken` to cover
  two torn appends.
- **LayerMigrate.** `ReadyToUntrack` speaks of the last loop only; that a backup equals the file there
  depends on the two loops before. `IInv` says what a run knows at each step about the planned files
  the person has left alone: the loops work on planned files only (`Planned`); a file the backup loop is
  past has a copy in a backup (`Secured`) and is on disk as backed up, except those that still owe a
  restore (`AsBackedUp`); a file waiting for its restore is not on disk (`NotThere`), which is what makes
  the overwriting `Restore` lose nothing; before the exclude step nothing has left the index
  (`StillTracked`); in the last loop the layer is excluded (`Hidden`). `LossFree` needs one lemma per
  step (`LosesNothing`); `PromiseKept` compares the status of each path before and after a step.
- **LayerCopy.** `Checked`: during the copy loop every planned path the person has left alone is untracked
  under any spelling, and its config file passed the scan. `Hidden`: nothing is copied before the layer
  is excluded. `TrackedSafe` and `ScannedOnly` are then about single steps, and `PromiseKept` needs that the
  project is not nested, as `copy_nested` shows.
- **InitRegistry.** `BaseIsFile`: as long as nobody is writing and no write was cut, the last complete
  document is the file. `Alone`: of runs that do not overlap at most one is active, and what it has
  read or prepared is of that document, changed at its own project only.
- **WorktreeSync.** `StillMissing`: what is left to copy into the current worktree is untracked and not
  there, or was touched. `JustCopied`: what is shown is in that worktree and among this run's candidates.
- **SettingsHook.** The entries of an event are a sequence, and so `Without` needs induction too (what it
  keeps, and that it keeps the order). The invariant says of each run what its two copies of the file,
  the one that is compared and the one that is merged, have in common with the file as long as nobody has
  written it; and that a file nobody has written since the run first read it is in a backup, as it
  is, once the run is past its backup.
- **SkillInstall.** `InOrder` and `Queued` tie the phase to what is left to write; `Covered`: a packaged
  file is on disk, or still to be written, or touched; `LinkPlanted`: a chosen file behind a link has had
  its link planted since it was checked; `Needed`: what the gate of the agents saw is still there,
  or touched.
- **Reap.** `NeverBack`: a process that differs from the plan's never is the plan's again, so one that is
  was so when reap last looked; the typing of start times (`TableBy`) carries it, since a new process
  starts later than everything in a table. `AsPlanned`: what the lists say of the plan's table.
  `Accounted`: every candidate is reported once or still to come. `CountedDead`: what was counted as
  terminated stays so, whoever takes its pid. For `OwnSessionSpared`, two walks over the table must meet:
  the chain of ancestors, which is a `Path` of any length (`ChainIsPath`), and the levels of children below
  the root that `SessionRoot` finds on it (`ProtectedIs`); where the program reap was started from is one of
  several, it is that root (`RootIsOwnSession`), so what hangs on it is in the first level. `SelfRuns`: reap
  itself is in every table it reads.
- **JiraFlow.** `AllAtWork` and `AllVouched`: a call works with the client that is kept, and its token is
  the one in the secret cache; `SentByKept`: every request carried the client its project has now.
  `BoardsSeen` and `LimitsSeen`: what a profile denies was once so of the board. For the replies, `Fine` is
  a table: at which stage a call of which tool may be, and what Jira has done for it by then; `Chosen` and
  `WhoIsMe` say that whom a call found is whom its argument names. `NothingForeign` rests on the filter, since a
  search may answer with anything.
- **Doctor.** `WorldTyped` and `ReportIsOfNow`: a report, as long as there is one, is `RunDoctor` of the
  present world. Then an "ok" comes from the check of its name (`OkComesFrom`), and `OkOfMachine`,
  `OkOfProject` and `OkOfGuard` say what that check had looked at. For `VainOnlyIfLeft`, `Founded`: what a
  check asks for is due in the world it looked at (`Due`); `Settled` and `HooksSettled`: once a command has
  exited with 0 and until something goes wrong, whatever other remedies are done meanwhile, what is due of it is
  in `Left`; `Writing`: between the two steps of an installation the hook is the packaged one. The run has two defects at
  once, the theorems any number.
- **PermissionHook.** `HookInv`: a decision is `Decide` of what was typed, and what was typed obeys
  `Grammar`: a command stands at the start or behind an operator, a blank behind an operator, and what is
  closed is open. The rest is about one sequence of tokens of any length. The scan, the loop over the segments
  and the shell are three recursive functions; `ReadInTurn`, `FlagsTokenwise` and `RanInTurn` bring them to
  one step per token, the shell with a directory for every open parenthesis (`DepthStep`). `Agrees` is then
  what the scan and the shell have in common after every token: the exported variable and the
  named path are the same, and where the scan takes the command to stand in the hooks directory or
  behind a pipe, the shell does. It is kept by operators and commands, and by a blank unless a closing parenthesis
  waits among the operators before it (`Closed`). The first token at which the flags deny is a command, and the one that the property asks for (`DeniedAsRun`). That
  a forbidden command is found wherever it stands (`FoundBySelf`, `KindsTyped`) holds with blanks, too.

The proof that a step preserves an invariant has a case per action.

What attempts at a proof showed of the model, and was mended:

- `CoveredWhenDone` and the refinement of `LayerExclude` are false after two torn appends, which
  needs three processes: three read an empty file; the append of the first is torn after its start marker,
  the second runs into that line and is torn before its newline, so the start marker is gone and the file is
  accepted; the first, rerun, finds all its patterns; the third, which read the empty file, runs into the last of
  them. The run had two processes. It has three now, and the properties say so.
- `SessionSpared` spoke of the nearest session above reap. That is false of a table where a terminal,
  one of several, stands between the shell of reap and the session: `SessionRoot` stops at the terminal
  (`orphans.py` 279-299) and protects what is below it, not what else is below the session. The property
  speaks now of the nearest ancestor that is no shell, which in a session without such a terminal is the
  session. The tables must be finite, which `ReapAssumption` says now, as `JiraAssumption` does of the
  secret references.
- Two `CASE` expressions of `Doctor` had guards that overlap (the version, the Jira credential offline), which
  leaves their value open where TLC takes the first. The code tests in order; the guards say so now.

Only model-checked: liveness (`RerunsFinish`, `SyncsFinish`), since the prover does not reach ENABLED.

## Abstractions

- `ExcludeFile`: a person's editor ends the file with a newline; one process's append is one
  write and other processes' appends do not split it; blank lines, CRLF and negated patterns
  are left out.
- `LayerMigrate`: no link is planted during a run; a backup that does not read back as
  written is a death; intent-to-add entries are left out; batches may be taken in any order.
  `Removable` is git's own rule for `git rm --cached` without `-f`.
- `LayerCopy`: the test that a destination exists and its copy are one step; the set of layer files
  is fixed while their contents change; two paths that name one file are assumed to have the same
  `casefold` (Unicode normalisation on a Mac's disk is outside that); links are there from
  the start.
- `InitRegistry`: wrapping a version-1 document changes no entry and is left out. A registration
  that changes no field still rewrites the file, and is an action.
- `WorktreeSync`: the checkout starts with the whole layer; the lines of `info/exclude` start as
  none or all. In both runs the marker block of `ExcludeFile` is not involved.
- `SettingsHook`: two texts are the same exactly when they hold the same document; the person's
  and the host's writes are atomic; no link is in the path; two backups never share a name (they
  are opened exclusively), so `backups` is a set of contents.
- `SkillInstall`: links stand at the level of a skill's folder or an agent's file; files are written in
  any order; the agents' own index is like another agent's file; temporary files that a kill
  leaves, and what a torn `rmtree` leaves beside the files, are left out.
- `Reap`: as on Windows, which the command is for, a process keeps its parent's pid when the parent is
  gone; one reading of the table is atomic; a pid is not handed out twice within the resolution of a
  start time; candidates are taken in any order. Where an app has one session only, its other
  processes are ordinary candidates, as in `orphans.py` 262-316.
- `JiraFlow`: an issue's text is its last editor; a list is what its query and its filter let through;
  Jira may answer a search, a board snapshot's included, with any issues, and a request for one issue with that
  issue (an issue that Jira has moved to another key is left out); paging, rate limits and the wording of replies are left out. The run has one project, the theorems
  any number. `ValidationError`s of JQL, dates and priorities are one outcome of a call.
- `Doctor`: a remedy is done as a whole or not at all, but for those that break off between two writes;
  a fact is the outcome its reader tells apart (the YAML of the pre-commit config, the
  text of a hook, a skill by its `SKILL.md`); hooks are looked at in the registered checkout. The checks of
  worktrees and guard exempt the doctor's own checkout by another rule than layering and content scan,
  and an installed doctor has no hook text to compare with; the model has both as they are.
  A skill that moved to the extras is a warning for good.
- `PermissionHook`: the shell it is compared with runs every part of a command. A `cd` in a pipeline, a
  part behind `||` and an export inside a subshell are denied by the code more often than a real
  shell would need; that is not held against it. The text `.git/hooks` counts as the word git, as in the
  code. `is_allowed` has no part in a decision.

## Not modelled

- Regular expressions, tokenizers and keyword matching over text: `content_scan.py`, the spellings
  behind a kind of command, prompt routing, redaction, JQL and the document format of comments. They
  keep no state; the interesting inputs are strings.
- `usage.py`, `notify.py`, `http.py` and the reports: they read, send once or print.
- `scaffold.py`, `config_gen.py`: single writers of template text. `ai_layer.py` is a table of paths.
- `scripts/`, `skills/`, `agents/`, `docs/`: maintenance scripts and text shipped to agents.

## What is left

A larger instance of `JiraFlow` with two projects that share a reference, and of `Reap` with two starts,
are beyond the time of a run; the theorems cover both.
