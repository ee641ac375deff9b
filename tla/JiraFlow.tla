------------------------------- MODULE JiraFlow -------------------------------
(***************************************************************************)
(* jira_mcp/: one server process answers the tool calls of several agents, *)
(* for every project of the registry.  A call is a coroutine: it runs      *)
(* alone up to its next request to Jira, and between two requests other    *)
(* calls run, people work in Jira, projects are registered again and       *)
(* credentials are rotated.  A request may fail, or time out after Jira    *)
(* has acted on it.  What the server keeps between calls: a client per     *)
(* project, with its board profile and its field map, and every secret it  *)
(* has resolved.                                                           *)
(***************************************************************************)
EXTENDS Naturals, Sequences, FiniteSets, Functions

CONSTANTS Calls,        \* tool calls, each made once
          Arguments,    \* what a call may be made with (see CallRecord)
          Projects,     \* project ids of the registry
          ProjectKeys,  \* Jira project keys
          Issues, KeyOf,    \* issue keys, and the project key of each
          References,   \* secret references
          Statuses, Workflow,  \* Workflow[s]: the statuses a transition leads to from s
          Labels,
          Users, Fits,  \* Fits[w][u]: how well the name w fits the user u
          Nothing,
          MaxFaults, MaxChanges, MaxMoves   \* bounds: failures, changes of the
                                            \* configuration, people's steps in Jira

SingleKeyTools == {"assign", "transition", "start", "submit", "comment", "labels", "edit",
                   "details", "comments"}
BatchTools == {"to_backlog", "to_board"}
Tools == SingleKeyTools \cup BatchTools \cup {"search", "create", "info", "snapshot"}

CallRecord == [tool : Tools, project : Projects \cup {Nothing}, keys : Seq(Issues \cup {Nothing}),
               what : Statuses \cup DOMAIN Fits \cup {"me", "none", "dated", "valid", Nothing},
               add : SUBSET Labels, remove : SUBSET Labels]
ASSUME JiraAssumption ==
  /\ Arguments \subseteq CallRecord
  /\ KeyOf \in [Issues -> ProjectKeys] /\ Workflow \in [Statuses -> SUBSET Statuses]
  /\ {"In Progress", "In Review"} \subseteq Statuses
  /\ IsFiniteSet(Users) /\ IsFiniteSet(References) /\ DOMAIN Fits \cap {"me", "none"} = {}
  /\ \A w \in DOMAIN Fits : Fits[w] \in [Users -> {"email", "name", "part", "no"}]
  /\ MaxFaults \in Nat /\ MaxChanges \in Nat /\ MaxMoves \in Nat

VARIABLES registry,     \* project id -> its jira block, or Nothing
          readable,     \* the registry file parses
          vault,        \* secret reference -> the number of the token it holds
          clients,      \* _clients: project id -> key and token, or Nothing
          secrets,      \* core.secrets._cache: reference -> token, or Nothing
          profiles,     \* _profile of each client, or Nothing
          fieldMaps,    \* _fields of each client: Nothing, "empty" or "listed"
          issues,       \* Jira's issues
          boards,       \* Jira's board of each project key
          created,      \* the calls an issue was created for, and if it is dated
          pc,           \* where a call is, or what it has answered
          args, mine,   \* a call's arguments and client
          found,        \* what its lookups found
          shown,        \* the issues a call has handed to its agent
          faults, changes, moves,
          did,          \* history: what Jira did for a call
          sent,         \* history: project id, key and token of every request
          boardWas      \* history: each board key's boards so far

cached == <<clients, secrets>>
learnt == <<profiles, fieldMaps>>
config == <<registry, readable, vault, changes>>
jira == <<issues, boards, created, boardWas, moves>>
jiraVars == <<config, cached, learnt, jira, pc, args, mine, found, shown, faults, did, sent>>

Boards == {"none", "no backlog", "backlog"}
Stages == {"idle", "boards", "probe", "types", "fields", "transitions", "users", "whoami",
           "write", "comment", "read"}
(* ok; 207 with entries; ValidationError; an error before any request; a    *)
(* board that cannot do it; JiraHTTPError, a timeout or a ValueError.       *)
Answers == {"ok", "partial", "refused", "unconfigured", "unsupported", "failed"}

(* BoardProfile. *)
Profile(known, board, backlog) == [known |-> known, board |-> board, backlog |-> backlog]
Unknown == Profile(FALSE, FALSE, Nothing)

-----------------------------------------------------------------------------
(* Arguments, and where they lead.                                         *)

(* scope_keys, and "one issue per call".  The parent of an issue to create  *)
(* is scoped too, when there is one.                                        *)
ScopedSome(raw, key) ==            \* slip: one key of the project is enough
  /\ raw # <<>>
  /\ \E k \in Range(raw) : k # Nothing /\ KeyOf[k] = key
Scoped(raw, key) ==
  /\ raw # <<>>
  /\ \A k \in Range(raw) : k # Nothing /\ KeyOf[k] = key
KeysRefused(a, key) ==
  \/ /\ a.tool \in SingleKeyTools \cup BatchTools \/ (a.tool = "create" /\ a.keys # <<>>)
     /\ ~Scoped(a.keys, key)
  \/ a.tool \in SingleKeyTools \cup {"create"} /\ Len(a.keys) > 1

(* update_payload, fields_payload and validate_limit. *)
PayloadRefused(a) ==
  CASE a.tool = "labels" -> a.add \cup a.remove = {} \/ a.add \cap a.remove # {}
    [] a.tool \in {"edit", "comments"} -> a.what # "valid"
    [] OTHER -> FALSE

(* _require_backlog_board: a probe that could not be answered is not a no. *)
Movable(profile) == profile.known /\ profile.board /\ profile.backlog # FALSE

AfterProfile(a, profile) ==
  CASE a.tool = "create" -> "ok"
    [] a.tool = "info" -> "types"
    [] OTHER -> IF Movable(profile) THEN "write" ELSE "unsupported"
WithProfile(a) ==
  IF profiles[a.project] = Nothing THEN "boards" ELSE AfterProfile(a, profiles[a.project])
WithFields(a, next) == IF fieldMaps[a.project] = Nothing THEN "fields" ELSE next

FirstStep(a) ==
  CASE a.tool \in {"search", "details", "comments", "snapshot"} -> "read"
    [] a.tool \in {"transition", "start", "submit"} -> "transitions"
    [] a.tool = "assign" /\ a.what = "me" -> "whoami"
    [] a.tool = "assign" /\ a.what \in DOMAIN Fits -> "users"
    [] a.tool \in BatchTools \cup {"info"} -> WithProfile(a)
    [] a.tool = "create" /\ a.what = "dated" -> WithFields(a, "write")
    [] OTHER -> "write"

(* transition_issue's target_status. *)
Target(a) ==
  CASE a.tool = "start" -> "In Progress"
    [] a.tool = "submit" -> "In Review"
    [] OTHER -> a.what

-----------------------------------------------------------------------------
(* get_client, with ProjectContext.build and secrets.resolve: kept when it  *)
(* was made before, or else made of the registry and the vault as they are. *)
(* A registry that does not parse reads as empty.                           *)
ClientAnew(p) ==                   \* slip: not looked up among those that were made
  IF readable /\ registry[p] # Nothing
  THEN [key |-> registry[p].key, token |-> vault[registry[p].credential]] ELSE Nothing
Resolve(reference) == IF secrets[reference] # Nothing THEN secrets[reference] ELSE vault[reference]
ClientFor(p) ==
  IF clients[p] # Nothing THEN clients[p]
  ELSE IF readable /\ registry[p] # Nothing
       THEN LET token == Resolve(registry[p].credential)
            IN  IF token = Nothing THEN Nothing ELSE [key |-> registry[p].key, token |-> token]
       ELSE Nothing

Proceed(c, next) == pc' = [pc EXCEPT ![c] = next]

Refuse(c, a) ==
  /\ pc[c] = "idle" /\ args' = [args EXCEPT ![c] = a]
  /\ IF a.project = Nothing THEN TRUE ELSE ClientFor(a.project) = Nothing
  /\ Proceed(c, "unconfigured")
  /\ UNCHANGED <<config, cached, learnt, jira, mine, found, shown, faults, did, sent>>

Begin(c, a) ==
  /\ pc[c] = "idle" /\ args' = [args EXCEPT ![c] = a]
  /\ a.project # Nothing
  /\ LET client == ClientFor(a.project)
     IN  /\ client # Nothing
         /\ mine' = [mine EXCEPT ![c] = client]
         /\ clients' = [clients EXCEPT ![a.project] = client]
         /\ secrets' = IF clients[a.project] # Nothing THEN secrets
                       ELSE [secrets EXCEPT ![registry[a.project].credential] = client.token]
         /\ Proceed(c, IF KeysRefused(a, client.key) \/ PayloadRefused(a) THEN "refused"
                       ELSE FirstStep(a))
  /\ UNCHANGED <<config, learnt, jira, found, shown, faults, did, sent>>

-----------------------------------------------------------------------------
(* Requests.  A token is good while the vault holds it.                    *)

Good(c) == \E r \in References : vault[r] = mine[c].token
Sends(c) == sent' = sent \cup {<<args[c].project, mine[c]>>}
Fault == faults < MaxFaults /\ faults' = faults + 1
(* The request fails: of itself, or because the token is no longer good. *)
Unanswered(c) == IF Good(c) THEN Fault ELSE UNCHANGED faults
Answered(c) == Good(c) /\ UNCHANGED faults
Request(c, stage) == pc[c] = stage /\ Sends(c)
local == <<args, mine, shown>>

(* _build_profile, with its two requests.  What it returns is remembered    *)
(* for the life of the server, whatever it is, and whatever another call    *)
(* has remembered in the meantime.                                          *)
Remember(c, profile) ==
  /\ profiles' = [profiles EXCEPT ![args[c].project] = profile]
  /\ Proceed(c, AfterProfile(args[c], profile))
FetchBoards(c) ==
  /\ Request(c, "boards")
  /\ \/ Unanswered(c) /\ Remember(c, Unknown)
     \/ Answered(c) /\ boards[mine[c].key] = "none" /\ Remember(c, Profile(TRUE, FALSE, Nothing))
     \/ Answered(c) /\ boards[mine[c].key] # "none" /\ Proceed(c, "probe") /\ UNCHANGED profiles
  /\ UNCHANGED <<config, cached, fieldMaps, jira, local, found, did>>

ProbeFailedAsNo == FALSE           \* slip: "could not ask" reported as "no backlog"
ProbeFailedAs == Nothing
ProbeBacklog(c) ==
  /\ Request(c, "probe")
  /\ \/ Unanswered(c) /\ Remember(c, Profile(TRUE, TRUE, ProbeFailedAs))
     \/ Answered(c) /\ boards[mine[c].key] = "none" /\ Remember(c, Profile(TRUE, TRUE, ProbeFailedAs))
     \/ /\ Answered(c) /\ boards[mine[c].key] # "none"
        /\ Remember(c, Profile(TRUE, TRUE, boards[mine[c].key] = "backlog"))
  /\ UNCHANGED <<config, cached, fieldMaps, jira, local, found, did>>

(* issue_types: a failure is an empty list. *)
IssueTypes(c) ==
  /\ Request(c, "types")
  /\ Unanswered(c) \/ Answered(c)
  /\ Proceed(c, WithFields(args[c], "ok"))
  /\ UNCHANGED <<config, cached, learnt, jira, local, found, did>>

(* field_map: a failure is an empty map, and is remembered as one. *)
FieldMap(c) ==
  /\ Request(c, "fields")
  /\ \E map \in {"empty", "listed"} :
       /\ IF map = "empty" THEN Unanswered(c) ELSE Answered(c)
       /\ fieldMaps' = [fieldMaps EXCEPT ![args[c].project] = map]
  /\ Proceed(c, IF args[c].tool = "create" THEN "write" ELSE "ok")
  /\ UNCHANGED <<config, cached, profiles, jira, local, found, did>>

TheKey(c) == args[c].keys[1]

(* get_transitions, and the one that leads to the wanted status. *)
GetTransitions(c) ==
  /\ Request(c, "transitions")
  /\ \/ Unanswered(c) /\ Proceed(c, "failed")
     \/ /\ Answered(c)
        /\ Proceed(c, IF Target(args[c]) \in Workflow[issues[TheKey(c)].status]
                      THEN "write" ELSE "failed")
  /\ UNCHANGED <<config, cached, learnt, jira, local, found, did>>

(* pick_user: a full e-mail address, a full name, or the only one it is a   *)
(* part of.                                                                 *)
PickedFirst(name) == {u \in Users : Fits[name][u] # "no"}   \* slip: any that fits at all
Picked(name) ==
  LET fit(how) == {u \in Users : Fits[name][u] = how}
  IN  CASE fit("email") # {} -> fit("email")
        [] fit("email") = {} /\ fit("name") # {} -> fit("name")
        [] OTHER -> IF Cardinality(fit("part")) = 1 THEN fit("part") ELSE {}
AssignableUsers(c) ==
  /\ Request(c, "users")
  /\ \/ Unanswered(c) /\ Proceed(c, "failed") /\ UNCHANGED found
     \/ Answered(c) /\ Picked(args[c].what) = {} /\ Proceed(c, "failed") /\ UNCHANGED found
     \/ /\ Answered(c) /\ Proceed(c, "write")
        /\ \E u \in Picked(args[c].what) : found' = [found EXCEPT ![c] = u]
  /\ UNCHANGED <<config, cached, learnt, jira, local, did>>

(* my_account_id. *)
MyAccountId(c) ==
  /\ Request(c, "whoami")
  /\ \/ Unanswered(c) /\ Proceed(c, "failed") /\ UNCHANGED found
     \/ /\ Answered(c) /\ Proceed(c, "write")
        /\ \E u \in Users : found' = [found EXCEPT ![c] = u]
  /\ UNCHANGED <<config, cached, learnt, jira, local, did>>

(* A search with a token that is no longer good answers 200 and nothing.    *)
(* Jira may answer a search with anything.  filter_foreign_issues drops     *)
(* what is not the project's; get_project_board, whose query names the      *)
(* project, hands on what it gets.                                          *)
FilterNone(answer, key) == answer  \* slip: the answer is handed on as it is
FilterForeign(answer, key) == {i \in answer : KeyOf[i] = key}
Read(c) ==
  LET a == args[c]
      key == mine[c].key
  IN  /\ Request(c, "read")
      /\ \/ /\ Unanswered(c) /\ Proceed(c, "failed") /\ UNCHANGED shown
            /\ Good(c) \/ a.tool \in {"details", "comments"}
         \/ /\ ~Good(c) /\ a.tool \in {"search", "snapshot"}
            /\ Proceed(c, "ok") /\ UNCHANGED <<shown, faults>>
         \/ /\ Answered(c) /\ Proceed(c, "ok")
            /\ \E answer \in SUBSET Issues :
                 shown' = [shown EXCEPT ![c] =
                   CASE a.tool \in {"details", "comments"} -> {TheKey(c)}
                     [] a.tool = "snapshot" -> answer
                     [] OTHER -> FilterForeign(answer, key)]
  /\ UNCHANGED <<config, cached, learnt, jira, args, mine, found, did>>

-----------------------------------------------------------------------------
(* What Jira does with a write.                                            *)

Put(i, field, value) == issues' = [issues EXCEPT ![i][field] = value] /\ UNCHANGED created
Does(c, what) == did' = [did EXCEPT ![c] = @ \cup {what}]

(* update.labels: operations, applied to the labels there are. *)
LabelsReplaced(old, a) == a.add    \* slip: fields.labels, the set as this caller wants it
LabelsAfter(old, a) == (old \cup a.add) \ a.remove

Transitions(c) ==
  /\ args[c].tool \in {"transition", "start", "submit"}
  /\ Target(args[c]) \in Workflow[issues[TheKey(c)].status]
  /\ Put(TheKey(c), "status", Target(args[c])) /\ Does(c, "transition")
Assigns(c) ==
  /\ args[c].tool = "assign"
  /\ Put(TheKey(c), "assignee", found[c]) /\ Does(c, "assign")
EditsLabels(c) ==
  /\ args[c].tool = "labels"
  /\ Put(TheKey(c), "labels", LabelsAfter(issues[TheKey(c)].labels, args[c])) /\ Does(c, "labels")
EditsText(c) ==
  /\ args[c].tool = "edit"
  /\ Put(TheKey(c), "editor", c) /\ Does(c, "edit")
AddsComment(c) ==
  /\ Put(TheKey(c), "comments", issues[TheKey(c)].comments \cup {c}) /\ Does(c, "comment")
Creates(c) ==
  /\ args[c].tool = "create"
  /\ created' = created \cup {<<c, args[c].what = "dated" /\ fieldMaps[args[c].project] = "listed">>}
  /\ Does(c, "create") /\ UNCHANGED issues
Acts(c) ==
  \/ Transitions(c) \/ Assigns(c) \/ EditsLabels(c) \/ EditsText(c) \/ Creates(c)
  \/ args[c].tool = "comment" /\ AddsComment(c)

AfterWrite(c) ==
  CASE args[c].tool = "submit" -> "comment"
    [] args[c].tool = "create" -> WithProfile(args[c])
    [] OTHER -> "ok"

(* One write: it succeeds; its answer is lost; it never arrives; the        *)
(* transition that was found is not there any more.                         *)
jiraElse == <<boards, boardWas, moves>>
Write(c) ==
  /\ Request(c, "write") /\ args[c].tool \notin BatchTools
  /\ \/ Answered(c) /\ Acts(c) /\ Proceed(c, AfterWrite(c))
     \/ Good(c) /\ Fault /\ Acts(c) /\ Proceed(c, "failed")
     \/ Unanswered(c) /\ Proceed(c, "failed") /\ UNCHANGED <<issues, created, did>>
     \/ /\ Answered(c) /\ Proceed(c, "failed") /\ UNCHANGED <<issues, created, did>>
        /\ args[c].tool \in {"transition", "start", "submit"}
        /\ Target(args[c]) \notin Workflow[issues[TheKey(c)].status]
  /\ UNCHANGED <<config, cached, learnt, jiraElse, local, found>>

(* submit_for_review: the comment, once the transition is made. *)
CommentOnSubmit(c) ==
  /\ Request(c, "comment")
  /\ \/ Answered(c) /\ AddsComment(c) /\ Proceed(c, "ok")
     \/ Good(c) /\ Fault /\ AddsComment(c) /\ Proceed(c, "failed")
     \/ Unanswered(c) /\ Proceed(c, "failed") /\ UNCHANGED <<issues, created, did>>
  /\ UNCHANGED <<config, cached, learnt, jiraElse, local, found>>

(* _move_issues: 204 for all of them, or 207 and the entries of those that  *)
(* did not move; 400 from a board without a backlog.                        *)
AfterMoveAny(moved, keys) == "ok"  \* slip: a 207 is a success like any 2xx
AfterMove(moved, keys) == IF moved = keys THEN "ok" ELSE "partial"
MoveSome(c, moved) ==
  /\ boards[mine[c].key] = "backlog"
  /\ issues' = [i \in Issues |->
                  IF i \in moved THEN [issues[i] EXCEPT !.backlog = (args[c].tool = "to_backlog")]
                  ELSE issues[i]]
  /\ IF moved = Range(args[c].keys) THEN Does(c, "move") ELSE UNCHANGED did
  /\ UNCHANGED created
MoveIssues(c) ==
  LET keys == Range(args[c].keys)
  IN  /\ Request(c, "write") /\ args[c].tool \in BatchTools
      /\ \/ \E moved \in SUBSET keys :
              \/ Answered(c) /\ MoveSome(c, moved) /\ Proceed(c, AfterMove(moved, keys))
              \/ Good(c) /\ Fault /\ MoveSome(c, moved) /\ Proceed(c, "failed")
         \/ Unanswered(c) /\ Proceed(c, "failed") /\ UNCHANGED <<issues, created, did>>
         \/ /\ Answered(c) /\ boards[mine[c].key] # "backlog" /\ Proceed(c, "failed")
            /\ UNCHANGED <<issues, created, did>>
      /\ UNCHANGED <<config, cached, learnt, jiraElse, local, found>>

-----------------------------------------------------------------------------
(* The others: people in Jira, whoever registers and rotates, and the host  *)
(* that starts the server again.                                            *)

calls == <<pc, args, mine, found, shown, did, sent>>
Moves == moves < MaxMoves /\ moves' = moves + 1 /\ UNCHANGED <<config, cached, learnt, calls, faults>>
PersonTransitions(i) ==
  /\ Moves /\ \E s \in Workflow[issues[i].status] : Put(i, "status", s)
  /\ UNCHANGED <<boards, boardWas>>
BoardChanges(key) ==
  /\ Moves /\ \E b \in Boards \ {boards[key]} :
       /\ boards' = [boards EXCEPT ![key] = b]
       /\ boardWas' = [boardWas EXCEPT ![key] = @ \cup {b}]
  /\ UNCHANGED <<issues, created>>

Changes == changes < MaxChanges /\ changes' = changes + 1 /\ UNCHANGED <<jira, faults>>
(* drunken-init: the file is cut, then written. *)
Truncate ==
  /\ Changes /\ readable /\ readable' = FALSE
  /\ UNCHANGED <<registry, vault, cached, learnt, calls>>
Dump(p) ==
  /\ ~readable /\ readable' = TRUE
  /\ \E key \in ProjectKeys, reference \in References :
       registry' = [registry EXCEPT ![p] = [key |-> key, credential |-> reference]]
  /\ UNCHANGED <<vault, changes, cached, learnt, calls, jira, faults>>
(* A new token makes the old one useless. *)
Rotate(reference) ==
  /\ Changes /\ vault' = [vault EXCEPT ![reference] = Cardinality(References) + changes']
  /\ UNCHANGED <<registry, readable, cached, learnt, calls>>
Restart ==
  /\ Changes
  /\ clients' = [p \in Projects |-> Nothing] /\ secrets' = [r \in References |-> Nothing]
  /\ profiles' = [p \in Projects |-> Nothing] /\ fieldMaps' = [p \in Projects |-> Nothing]
  /\ pc' = [c \in Calls |-> IF pc[c] \in Stages \ {"idle"} THEN "failed" ELSE pc[c]]
  /\ sent' = {}
  /\ UNCHANGED <<registry, readable, vault, args, mine, found, shown, did>>

-----------------------------------------------------------------------------
Fresh(i) == [status |-> CHOOSE s \in Statuses : TRUE, labels |-> {}, assignee |-> Nothing,
             backlog |-> TRUE, editor |-> Nothing, comments |-> {}]
JiraInit ==
  /\ registry \in [Projects -> [key : ProjectKeys, credential : References] \cup {Nothing}]
  /\ readable = TRUE
  /\ vault \in {v \in [References -> 1..Cardinality(References)] : IsInjective(v)}
  /\ clients = [p \in Projects |-> Nothing] /\ secrets = [r \in References |-> Nothing]
  /\ profiles = [p \in Projects |-> Nothing] /\ fieldMaps = [p \in Projects |-> Nothing]
  /\ issues = [i \in Issues |-> Fresh(i)] /\ boards \in [ProjectKeys -> Boards]
  /\ boardWas = [k \in ProjectKeys |-> {boards[k]}] /\ created = {}
  /\ pc = [c \in Calls |-> "idle"] /\ args = [c \in Calls |-> Nothing]
  /\ mine = [c \in Calls |-> Nothing] /\ found = [c \in Calls |-> Nothing]
  /\ shown = [c \in Calls |-> {}] /\ did = [c \in Calls |-> {}] /\ sent = {}
  /\ faults = 0 /\ changes = 0 /\ moves = 0

Continues(c) ==
  \/ FetchBoards(c) \/ ProbeBacklog(c) \/ IssueTypes(c) \/ FieldMap(c) \/ GetTransitions(c)
  \/ AssignableUsers(c) \/ MyAccountId(c) \/ Read(c)
  \/ Write(c) \/ CommentOnSubmit(c) \/ MoveIssues(c)
JiraNext ==
  \/ \E c \in Calls : Continues(c) \/ \E a \in Arguments : Begin(c, a) \/ Refuse(c, a)
  \/ \E i \in Issues : PersonTransitions(i)
  \/ \E key \in ProjectKeys : BoardChanges(key)
  \/ \E p \in Projects : Dump(p)
  \/ \E r \in References : Rotate(r)
  \/ Truncate \/ Restart

JiraSpec == JiraInit /\ [][JiraNext]_jiraVars

-----------------------------------------------------------------------------
Replies == Stages \cup Answers
Client == [key : ProjectKeys, token : Nat]
JiraTypeOK ==
  /\ registry \in [Projects -> [key : ProjectKeys, credential : References] \cup {Nothing}]
  /\ readable \in BOOLEAN /\ vault \in [References -> Nat]
  /\ clients \in [Projects -> Client \cup {Nothing}]
  /\ secrets \in [References -> Nat \cup {Nothing}]
  /\ profiles \in [Projects -> {Unknown, Profile(TRUE, FALSE, Nothing)} \cup
                     {Profile(TRUE, TRUE, b) : b \in BOOLEAN \cup {Nothing}} \cup {Nothing}]
  /\ fieldMaps \in [Projects -> {Nothing, "empty", "listed"}]
  /\ issues \in [Issues -> [status : Statuses, labels : SUBSET Labels, backlog : BOOLEAN,
                            assignee : Users \cup {Nothing}, editor : Calls \cup {Nothing},
                            comments : SUBSET Calls]]
  /\ boards \in [ProjectKeys -> Boards] /\ boardWas \in [ProjectKeys -> SUBSET Boards]
  /\ created \subseteq Calls \X BOOLEAN
  /\ pc \in [Calls -> Replies] /\ shown \in [Calls -> SUBSET Issues]
  /\ \A c \in Calls : /\ pc[c] # "idle" => args[c] \in Arguments
                      /\ pc[c] \in Stages \ {"idle"} => mine[c] \in Client
                      /\ found[c] \in Users \cup {Nothing}
  /\ faults \in 0..MaxFaults /\ changes \in 0..MaxChanges /\ moves \in 0..MaxMoves

(* "Unscoped, it would reach any issue the shared credential can": a call   *)
(* changes issues that it names, every one of its own project, and of their *)
(* labels only those it names; one foreign key and nothing of the batch     *)
(* moves.  Two agents who label one issue do not drop each other's label.   *)
OnlyAsAsked ==
  [][\A c \in Calls : pc[c] \in {"write", "comment"} /\ pc'[c] # pc[c] =>
       /\ \A i \in Issues : issues'[i] # issues[i] =>
            /\ i \in Range(args[c].keys)
            /\ issues[i].labels \ issues'[i].labels \subseteq args[c].remove
            /\ issues'[i].labels \ issues[i].labels \subseteq args[c].add
       /\ issues' # issues \/ created' # created =>
            \A i \in Range(args[c].keys) : i # Nothing /\ KeyOf[i] = mine[c].key]_jiraVars

(* What a call answers is so.  "ok" is said of what Jira has done, all of   *)
(* it; a validation error, or a call that found no client or no board, has  *)
(* had Jira do nothing; a review is announced in a comment only for an      *)
(* issue that this call has moved to review; and a name that is only a part *)
(* of a user's assigns nobody else's ticket ("refused, not guessed").       *)
Owed(tool) ==
  CASE tool \in {"transition", "start"} -> {"transition"}
    [] tool = "submit" -> {"transition", "comment"}
    [] tool \in BatchTools -> {"move"}
    [] tool \in {"assign", "labels", "edit", "comment", "create"} -> {tool}
    [] OTHER -> {}
RepliesAreTrue ==
  \A c \in Calls :
    /\ pc[c] = "ok" => did[c] = Owed(args[c].tool)
    /\ pc[c] = "partial" => "move" \notin did[c]
    /\ pc[c] \in {"refused", "unconfigured", "unsupported"} => did[c] = {}
    /\ did[c] # {} => did[c] \subseteq Owed(args[c].tool)
    /\ "comment" \in did[c] /\ args[c].tool = "submit" => "transition" \in did[c]
    /\ "assign" \in did[c] /\ args[c].what \in DOMAIN Fits =>
         LET fit == Fits[args[c].what]
         IN  fit[found[c]] = "part" => \A u \in Users \ {found[c]} : fit[u] = "no"

(* "Could not ask must not be reported as no": whatever failed, and         *)
(* whichever of two calls that asked at once is remembered, the profile     *)
(* that is kept denies a board or a backlog only if Jira once did without   *)
(* it, and claims one only if Jira once had it.                             *)
NoInventedLimit ==
  \A p \in Projects : clients[p] # Nothing /\ profiles[p] # Nothing /\ profiles[p].known =>
    LET was == boardWas[clients[p].key]
    IN  /\ ~profiles[p].board => "none" \in was
        /\ profiles[p].backlog # Nothing =>
             (IF profiles[p].backlog THEN "backlog" ELSE "no backlog") \in was

(* "A credential cannot change underneath a running server": as long as it  *)
(* runs, all its requests for a project carry one key and one token,        *)
(* whoever registers the project again and whatever the vault holds by now; *)
(* and two projects with one reference, one token.                          *)
OneIdentity ==
  /\ \A x, y \in sent : x[1] = y[1] => x[2] = y[2]
  /\ \A x \in sent : clients[x[1]] = x[2] /\ \E r \in References : secrets[r] = x[2].token

(* "A foreign key in the response means the scope did not hold": whatever   *)
(* Jira answers, and however often the project is registered again with     *)
(* another key, a call hands its agent no issue of another project than it  *)
(* was scoped to.  Only of the board snapshot this is not so: what it shows *)
(* is what Jira answered.                                                   *)
NothingForeign ==
  \A c \in Calls : \A i \in shown[c] : args[c].tool # "snapshot" => KeyOf[i] = mine[c].key
=============================================================================
