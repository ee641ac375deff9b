---------------------------- MODULE JiraFlow_proofs ----------------------------
(***************************************************************************)
(* What holds of the Jira server for any number of calls, projects, issues *)
(* and credentials, and any failures.                                      *)
(***************************************************************************)
EXTENDS JiraFlow, FiniteSetTheorems, TLAPS

Working == Stages \ {"idle"}

(* What is a function stays one, of the same domain. *)
Fields == {"status", "labels", "assignee", "backlog", "editor", "comments"}
Shape ==
  /\ pc = [c \in Calls |-> pc[c]] /\ args = [c \in Calls |-> args[c]]
  /\ mine = [c \in Calls |-> mine[c]] /\ shown = [c \in Calls |-> shown[c]]
  /\ clients = [p \in Projects |-> clients[p]] /\ profiles = [p \in Projects |-> profiles[p]]
  /\ secrets = [r \in References |-> secrets[r]]
  /\ registry \in [Projects -> [key : ProjectKeys, credential : References] \cup {Nothing}]

(* A call at work has the client that is kept for its project, and has      *)
(* passed the scope check with that client's key.                           *)
AtWork(c) ==
  /\ args[c] \in Arguments /\ args[c].project \in Projects
  /\ clients[args[c].project] = mine[c] /\ mine[c] # Nothing
  /\ ~KeysRefused(args[c], mine[c].key)
AllAtWork == \A c \in Calls : pc[c] \in Working => AtWork(c)

(* A client that is kept has its token among the secrets that are kept. *)
Vouched(p) ==
  /\ clients[p].key \in ProjectKeys /\ clients[p].token # Nothing
  /\ \E r \in References : secrets[r] = clients[p].token
AllVouched == \A p \in Projects : clients[p] # Nothing => Vouched(p)

(* What was sent, was sent by a client that is kept. *)
SentByKept == \A x \in sent : \E p \in Projects : x = <<p, clients[p]>> /\ clients[p] # Nothing

(* Nothing is shown before the client is known. *)
ShownLater == \A c \in Calls : pc[c] = "idle" => shown[c] = {}

JiraInv == Shape /\ AllAtWork /\ AllVouched /\ SentByKept /\ ShownLater /\ NothingForeign

-----------------------------------------------------------------------------
(* The invariant of the server holds when it starts. *)
LEMMA JiraInitHolds == JiraInit => JiraInv
<1> SUFFICES ASSUME JiraInit PROVE JiraInv
  OBVIOUS
<1>1. Shape
  BY DEF JiraInit, Shape
<1>2. AllAtWork /\ AllVouched /\ SentByKept /\ ShownLater /\ NothingForeign
  BY DEF JiraInit, AllAtWork, AllVouched, SentByKept, ShownLater, NothingForeign, Working, Stages
<1> QED
  BY <1>1, <1>2 DEF JiraInv

(* A request is sent by a call at work, and moves on no call but that one. *)
LEMMA OneMovesOn ==
  ASSUME Shape, NEW c \in Calls, Continues(c)
  PROVE  /\ pc[c] \in Working /\ pc' = [d \in Calls |-> pc'[d]]
         /\ \A d \in Calls \ {c} : pc'[d] = pc[d]
         /\ pc'[c] # "idle"
         /\ sent' = sent \cup {<<args[c].project, mine[c]>>}
         /\ UNCHANGED <<registry, clients, secrets, args, mine, boards, boardWas>>
<1>1. \A next : Proceed(c, next) => /\ pc' = [d \in Calls |-> pc'[d]]
                                    /\ \A d \in Calls \ {c} : pc'[d] = pc[d]
                                    /\ pc'[c] = next
  BY DEF Proceed, Shape
<1>2. \A p : AfterProfile(args[c], p) # "idle"
  BY DEF AfterProfile
<1>0. \A p : Remember(c, p) => \E next : next # "idle" /\ Proceed(c, next)
  BY <1>2 DEF Remember
<1>3. WithProfile(args[c]) # "idle"
  BY <1>2 DEF WithProfile
<1>4. CASE FetchBoards(c)
  <2>1. \E next : next # "idle" /\ Proceed(c, next)
    BY <1>0, <1>4 DEF FetchBoards
  <2>2. Request(c, "boards") /\ UNCHANGED <<config, cached, jira, local>>
    BY <1>4 DEF FetchBoards
  <2> QED
    BY <1>1, <2>1, <2>2 DEF Request, Sends, config, cached, jira, local, Working, Stages
<1>5. CASE ProbeBacklog(c)
  <2>1. \E next : next # "idle" /\ Proceed(c, next)
    BY <1>0, <1>5 DEF ProbeBacklog
  <2>2. Request(c, "probe") /\ UNCHANGED <<config, cached, jira, local>>
    BY <1>5 DEF ProbeBacklog
  <2> QED
    BY <1>1, <2>1, <2>2 DEF Request, Sends, config, cached, jira, local, Working, Stages
<1>6. CASE IssueTypes(c)
  BY <1>1, <1>6 DEF IssueTypes, Request, Sends, WithFields, config, cached, jira, local,
                    Working, Stages
<1>7. CASE FieldMap(c)
  BY <1>1, <1>7 DEF FieldMap, Request, Sends, config, cached, jira, local, Working, Stages
<1>8. CASE GetTransitions(c)
  BY <1>1, <1>8 DEF GetTransitions, Request, Sends, config, cached, jira, local, Working, Stages
<1>9. CASE AssignableUsers(c) \/ MyAccountId(c)
  BY <1>1, <1>9 DEF AssignableUsers, MyAccountId, Request, Sends, config, cached, jira, local,
                    Working, Stages
<1>10. CASE Read(c)
  BY <1>1, <1>10 DEF Read, Request, Sends, config, cached, jira, Working, Stages
<1>11. CASE Write(c)
  BY <1>1, <1>3, <1>11 DEF Write, Request, Sends, AfterWrite, config, cached, jiraElse, local,
                           Working, Stages
<1>12. CASE CommentOnSubmit(c) \/ MoveIssues(c)
  BY <1>1, <1>12 DEF CommentOnSubmit, MoveIssues, AfterMove, Request, Sends, config, cached,
                     jiraElse, local, Working, Stages
<1> QED
  BY <1>4, <1>5, <1>6, <1>7, <1>8, <1>9, <1>10, <1>11, <1>12 DEF Continues

(* The profile of a client changes when its board is looked at, and what is *)
(* shown when Jira answers a read.                                          *)
LEMMA SeldomChanged ==
  ASSUME NEW c \in Calls, Continues(c)
  PROVE  /\ FetchBoards(c) \/ ProbeBacklog(c) \/ profiles' = profiles
         /\ Read(c) \/ shown' = shown
  BY DEF Continues, FetchBoards, ProbeBacklog, IssueTypes, FieldMap, GetTransitions,
         AssignableUsers, MyAccountId, Read, Write, CommentOnSubmit, MoveIssues, learnt, local

(* Every step of a running call keeps the invariant. *)
LEMMA ContinuesStep == ASSUME JiraInv, NEW c \in Calls, Continues(c) PROVE JiraInv'
<1>1. Shape /\ pc[c] \in Working /\ AtWork(c)
  BY OneMovesOn DEF JiraInv, AllAtWork
<1>2. Shape'
  <2>1. profiles' = [p \in Projects |-> profiles'[p]]
    BY <1>1, SeldomChanged DEF Shape, FetchBoards, ProbeBacklog, Remember
  <2>2. shown' = [d \in Calls |-> shown'[d]]
    BY <1>1, SeldomChanged DEF Shape, Read
  <2> QED
    BY <1>1, <2>1, <2>2, OneMovesOn DEF Shape
<1>3. AllAtWork'
  BY <1>1, OneMovesOn DEF JiraInv, AllAtWork, AtWork
<1>4. AllVouched' /\ SentByKept'
  BY <1>1, OneMovesOn DEF JiraInv, AllVouched, Vouched, SentByKept, AtWork
<1>5. \A d \in Calls \ {c} : shown'[d] = shown[d]
  BY SeldomChanged, <1>1 DEF Shape, Read
<1>6. \A i \in shown'[c] : args[c].tool # "snapshot" => KeyOf[i] = mine[c].key
  <2>1. CASE shown' = shown
    BY <2>1 DEF JiraInv, NothingForeign
  <2>2. CASE Read(c) /\ args[c].tool \in {"details", "comments"} /\ shown' # shown
    <3>1. shown'[c] = {TheKey(c)}
      BY <2>2, <1>1 DEF Read, Shape
    <3>2. Scoped(args[c].keys, mine[c].key)
      BY <2>2, <1>1 DEF AtWork, KeysRefused, SingleKeyTools
    <3>3. TheKey(c) \in Range(args[c].keys)
      <4>1. args[c].keys \in Seq(Issues \cup {Nothing}) /\ args[c].keys # <<>>
        BY <1>1, <3>2, JiraAssumption DEF AtWork, Scoped, CallRecord
      <4>2. 1 \in DOMAIN args[c].keys
        BY <4>1
      <4> QED
        BY <4>2 DEF TheKey, Range
    <3> QED
      BY <3>1, <3>2, <3>3 DEF Scoped
  <2>3. CASE Read(c) /\ args[c].tool \notin {"details", "comments"} /\ shown' # shown
    BY <2>3, <1>1 DEF Read, Shape, FilterForeign
  <2> QED
    BY <2>1, <2>2, <2>3, SeldomChanged
<1>7. ShownLater' /\ NothingForeign'
  BY <1>5, <1>6, OneMovesOn, <1>1 DEF JiraInv, ShownLater, NothingForeign
<1> QED
  BY <1>2, <1>3, <1>4, <1>7 DEF JiraInv

(* A call begins, with the client that is kept or with a new one. *)
LEMMA BeginStep == ASSUME JiraInv, NEW c \in Calls, NEW a \in Arguments, Begin(c, a) PROVE JiraInv'
<1> DEFINE p == a.project
           client == ClientFor(p)
<1>1. /\ pc[c] = "idle" /\ p \in Projects /\ client # Nothing
      /\ args' = [args EXCEPT ![c] = a] /\ mine' = [mine EXCEPT ![c] = client]
      /\ clients' = [clients EXCEPT ![p] = client]
      /\ UNCHANGED <<registry, profiles, shown, sent>>
  BY JiraAssumption DEF Begin, CallRecord, config, learnt
<1>2. /\ pc' = [d \in Calls |-> pc'[d]] /\ \A d \in Calls \ {c} : pc'[d] = pc[d]
      /\ pc'[c] # "idle"
  <2>1. FirstStep(a) # "idle"
    BY DEF FirstStep, WithProfile, AfterProfile, WithFields
  <2>2. PICK next : next # "idle" /\ Proceed(c, next)
    BY <2>1 DEF Begin
  <2> QED
    BY <2>2 DEF Proceed, JiraInv, Shape
<1>3. pc'[c] \in Working => ~KeysRefused(a, client.key)
  BY DEF Begin, Proceed, JiraInv, Shape, Working, Stages
<1>4. secrets' = [r \in References |-> secrets'[r]]
  BY DEF Begin, JiraInv, Shape
<1>5. \A q \in Projects \ {p} : clients'[q] = clients[q]
  BY <1>1 DEF JiraInv, Shape
<1>6. clients[p] # Nothing => client = clients[p]
  BY DEF ClientFor
<1>7. \A r \in References : secrets[r] # Nothing => secrets'[r] = secrets[r]
  <2>1. CASE clients[p] # Nothing
    BY <2>1 DEF Begin
  <2>2. CASE clients[p] = Nothing
    <3> DEFINE ref == registry[p].credential
    <3>1. client.token = Resolve(ref) /\ secrets' = [secrets EXCEPT ![ref] = client.token]
      BY <1>1, <2>2 DEF Begin, ClientFor
    <3> QED
      BY <3>1 DEF Resolve, JiraInv, Shape
  <2> QED
    BY <2>1, <2>2
<1>8. clients[p] = Nothing =>
        /\ client.key \in ProjectKeys /\ client.token # Nothing
        /\ \E r \in References : secrets'[r] = client.token
  <2> SUFFICES ASSUME clients[p] = Nothing
               PROVE  /\ client.key \in ProjectKeys /\ client.token # Nothing
                      /\ \E r \in References : secrets'[r] = client.token
    OBVIOUS
  <2> DEFINE ref == registry[p].credential
  <2>1. registry[p] # Nothing /\ client = [key |-> registry[p].key, token |-> Resolve(ref)]
        /\ Resolve(ref) # Nothing
    BY <1>1 DEF ClientFor
  <2>2. registry[p].key \in ProjectKeys /\ ref \in References
    BY <1>1, <2>1 DEF JiraInv, Shape
  <2>3. secrets' = [secrets EXCEPT ![ref] = client.token]
    BY DEF Begin
  <2>4. secrets'[ref] = client.token
    BY <2>2, <2>3 DEF JiraInv, Shape
  <2> QED
    BY <2>1, <2>2, <2>4
<1>9. Shape'
  BY <1>1, <1>2, <1>4 DEF JiraInv, Shape
<1>10. \A q \in Projects : clients[q] # Nothing => clients'[q] = clients[q]
  BY <1>1, <1>5, <1>6 DEF JiraInv, Shape
<1>11. AllVouched'
  <2> SUFFICES ASSUME NEW q \in Projects, clients'[q] # Nothing PROVE Vouched(q)'
    BY DEF AllVouched
  <2>1. CASE clients[q] # Nothing
    BY <2>1, <1>7, <1>10 DEF JiraInv, AllVouched, Vouched
  <2>2. CASE clients[q] = Nothing
    <3>1. q = p /\ clients'[q] = client
      BY <2>2, <1>1, <1>5 DEF JiraInv, Shape
    <3> QED
      BY <2>2, <3>1, <1>8 DEF Vouched
  <2> QED
    BY <2>1, <2>2
<1>12. AllAtWork'
  <2> SUFFICES ASSUME NEW d \in Calls, pc'[d] \in Working PROVE AtWork(d)'
    BY DEF AllAtWork
  <2>1. CASE d = c
    <3>1. args'[c] = a /\ mine'[c] = client /\ clients'[p] = client
      BY <1>1 DEF JiraInv, Shape
    <3> QED
      BY <2>1, <3>1, <1>1, <1>3 DEF AtWork
  <2>2. CASE d # c
    <3>1. args'[d] = args[d] /\ mine'[d] = mine[d] /\ AtWork(d)
      BY <2>2, <1>1, <1>2 DEF JiraInv, Shape, AllAtWork
    <3> QED
      BY <3>1, <1>10 DEF AtWork
  <2> QED
    BY <2>1, <2>2
<1>13. SentByKept'
  BY <1>1, <1>10 DEF JiraInv, SentByKept
<1>14. ShownLater' /\ NothingForeign'
  <2>1. \A d \in Calls \ {c} : mine'[d] = mine[d]
    BY <1>1 DEF JiraInv, Shape
  <2>2. shown'[c] = {}
    BY <1>1 DEF JiraInv, ShownLater
  <2>3. \A d \in Calls \ {c} : args'[d] = args[d]
    BY <1>1 DEF JiraInv, Shape
  <2> QED
    BY <1>1, <1>2, <2>1, <2>2, <2>3 DEF JiraInv, ShownLater, NothingForeign
<1> QED
  BY <1>9, <1>11, <1>12, <1>13, <1>14 DEF JiraInv

(* A call refused at once keeps the invariant. *)
LEMMA RefuseStep == ASSUME JiraInv, NEW c \in Calls, NEW a \in Arguments, Refuse(c, a) PROVE JiraInv'
<1>1. /\ pc[c] = "idle" /\ args' = [args EXCEPT ![c] = a]
      /\ pc' = [pc EXCEPT ![c] = "unconfigured"]
      /\ UNCHANGED <<registry, clients, secrets, profiles, mine, shown, sent>>
  BY DEF Refuse, Proceed, config, cached, learnt
<1>2. Shape'
  BY <1>1 DEF JiraInv, Shape
<1>3. \A d \in Calls : pc'[d] \in Working => pc[d] \in Working /\ args'[d] = args[d]
  BY <1>1 DEF JiraInv, Shape, Working, Stages
<1>4. \A d \in Calls : pc'[d] = "idle" => pc[d] = "idle"
  BY <1>1 DEF JiraInv, Shape
<1>5. \A d \in Calls : shown[d] # {} => args'[d] = args[d]
  BY <1>1 DEF JiraInv, Shape, ShownLater
<1> QED
  BY <1>1, <1>2, <1>3, <1>4, <1>5 DEF JiraInv, AllAtWork, AtWork, AllVouched, Vouched, SentByKept,
                                      ShownLater, NothingForeign

-----------------------------------------------------------------------------
(* Around the server. *)
LEMMA OthersStep ==
  ASSUME JiraInv,
         \/ \E i \in Issues : PersonTransitions(i)
         \/ \E key \in ProjectKeys : BoardChanges(key)
         \/ \E r \in References : Rotate(r)
         \/ Truncate \/ UNCHANGED jiraVars
  PROVE  JiraInv'
<1>1. UNCHANGED <<registry, clients, secrets, profiles, args, mine, shown, sent, pc>>
  BY DEF PersonTransitions, BoardChanges, Rotate, Truncate, Moves, Changes, config, cached, learnt,
         calls, jiraVars
<1> QED
  BY <1>1 DEF JiraInv, Shape, AllAtWork, AtWork, AllVouched, Vouched, SentByKept, ShownLater,
              NothingForeign

(* Another program's registration keeps the invariant. *)
LEMMA DumpStep == ASSUME JiraInv, NEW p \in Projects, Dump(p) PROVE JiraInv'
<1>1. UNCHANGED <<clients, secrets, profiles, args, mine, shown, sent, pc>>
  BY DEF Dump, cached, learnt, calls
<1>2. registry' \in [Projects -> [key : ProjectKeys, credential : References] \cup {Nothing}]
  BY DEF Dump, JiraInv, Shape
<1> QED
  BY <1>1, <1>2 DEF JiraInv, Shape, AllAtWork, AtWork, AllVouched, Vouched, SentByKept, ShownLater,
                    NothingForeign

(* A restart of the server keeps the invariant. *)
LEMMA RestartStep == ASSUME JiraInv, Restart PROVE JiraInv'
<1>1. \A c \in Calls : /\ pc'[c] \notin Working
                       /\ pc'[c] = "idle" => pc[c] = "idle"
  BY DEF Restart, Working, Stages
<1>2. /\ UNCHANGED <<registry, args, mine, shown>> /\ sent' = {}
      /\ clients' = [p \in Projects |-> Nothing] /\ profiles' = [p \in Projects |-> Nothing]
      /\ secrets' = [r \in References |-> Nothing] /\ pc' = [c \in Calls |-> pc'[c]]
  BY DEF Restart
<1> QED
  BY <1>1, <1>2 DEF JiraInv, Shape, AllAtWork, AllVouched, SentByKept, ShownLater, NothingForeign

(* Every step keeps the invariant. *)
LEMMA JiraInvStep == JiraInv /\ [JiraNext]_jiraVars => JiraInv'
<1> SUFFICES ASSUME JiraInv, [JiraNext]_jiraVars PROVE JiraInv'
  OBVIOUS
<1>1. ASSUME NEW c \in Calls, Continues(c) PROVE JiraInv'
  BY <1>1, ContinuesStep
<1>2. ASSUME NEW c \in Calls, NEW a \in Arguments, Begin(c, a) \/ Refuse(c, a) PROVE JiraInv'
  BY <1>2, BeginStep, RefuseStep
<1>3. ASSUME NEW p \in Projects, Dump(p) PROVE JiraInv'
  BY <1>3, DumpStep
<1> QED
  BY <1>1, <1>2, <1>3, OthersStep, RestartStep DEF JiraNext

(* The invariant holds in every behaviour of the server. *)
LEMMA JiraInvAlways == JiraSpec => []JiraInv
  BY JiraInitHolds, JiraInvStep, PTL DEF JiraSpec

(* While the server runs, its requests for one project carry one key and    *)
(* one token, and two projects with one reference one token.                *)
THEOREM SameIdentity == JiraSpec => []OneIdentity
<1>1. JiraInv => OneIdentity
  <2> SUFFICES ASSUME JiraInv PROVE OneIdentity
    OBVIOUS
  <2>1. \A x \in sent : /\ x[1] \in Projects /\ x[2] = clients[x[1]] /\ clients[x[1]] # Nothing
    BY DEF JiraInv, SentByKept
  <2> QED
    BY <2>1 DEF JiraInv, AllVouched, Vouched, OneIdentity
<1> QED
  BY <1>1, JiraInvAlways, PTL

(* Whatever Jira answers, no call but the board snapshot hands its agent an *)
(* issue of another project (scope_keys, filter_foreign_issues).            *)
THEOREM NoForeignIssue == JiraSpec => []NothingForeign
<1>1. JiraInv => NothingForeign
  BY DEF JiraInv
<1> QED
  BY <1>1, JiraInvAlways, PTL

-----------------------------------------------------------------------------
(* What a kept profile denies or claims was once so. *)
BoardsSeen ==
  /\ boards \in [ProjectKeys -> Boards]
  /\ boardWas = [k \in ProjectKeys |-> boardWas[k]]
  /\ \A k \in ProjectKeys : boards[k] \in boardWas[k]
Witnessed(profile, was) ==
  profile # Nothing /\ profile.known =>
    /\ ~profile.board => "none" \in was
    /\ profile.backlog # Nothing => (IF profile.backlog THEN "backlog" ELSE "no backlog") \in was
LimitsSeen ==
  \A p \in Projects : clients[p] # Nothing => Witnessed(profiles[p], boardWas[clients[p].key])
ProfileOnlyOfClient == \A p \in Projects : clients[p] = Nothing => profiles[p] = Nothing

(* No board is thought limited when the server starts. *)
LEMMA LimitInit == JiraInit => BoardsSeen /\ LimitsSeen /\ ProfileOnlyOfClient
<1> SUFFICES ASSUME JiraInit PROVE BoardsSeen /\ LimitsSeen /\ ProfileOnlyOfClient
  OBVIOUS
<1>1. BoardsSeen
  BY DEF JiraInit, BoardsSeen
<1>2. LimitsSeen /\ ProfileOnlyOfClient
  BY DEF JiraInit, LimitsSeen, ProfileOnlyOfClient
<1> QED
  BY <1>1, <1>2

(* A look at the board remembers what can be vouched for. *)
LEMMA LooksTruly ==
  ASSUME JiraInv, BoardsSeen, NEW c \in Calls, FetchBoards(c) \/ ProbeBacklog(c)
  PROVE  \/ profiles' = profiles
         \/ \E profile : /\ profiles' = [profiles EXCEPT ![args[c].project] = profile]
                         /\ Witnessed(profile, boardWas[mine[c].key])
<1>1. mine[c].key \in ProjectKeys
  BY OneMovesOn DEF JiraInv, AllAtWork, AtWork, AllVouched, Vouched, Continues
<1> DEFINE was == boardWas[mine[c].key]
<1>2. boards[mine[c].key] \in was /\ boards[mine[c].key] \in Boards
  BY <1>1 DEF BoardsSeen
<1>3. Witnessed(Unknown, was)
  BY DEF Witnessed, Unknown, Profile
<1>4. boards[mine[c].key] = "none" => Witnessed(Profile(TRUE, FALSE, Nothing), was)
  BY <1>2 DEF Witnessed, Profile
<1>5. Witnessed(Profile(TRUE, TRUE, Nothing), was)
  BY DEF Witnessed, Profile
<1>6. boards[mine[c].key] = "backlog" => Witnessed(Profile(TRUE, TRUE, TRUE), was)
  BY <1>2 DEF Witnessed, Profile
<1>7. boards[mine[c].key] = "no backlog" => Witnessed(Profile(TRUE, TRUE, FALSE), was)
  BY <1>2 DEF Witnessed, Profile
<1>8. CASE FetchBoards(c)
  BY <1>8, <1>3, <1>4 DEF FetchBoards, Remember
<1>9. CASE ProbeBacklog(c)
  <2>1. PICK b \in {Nothing, boards[mine[c].key] = "backlog"} :
           /\ Remember(c, Profile(TRUE, TRUE, b))
           /\ b # Nothing => boards[mine[c].key] # "none" /\ b = (boards[mine[c].key] = "backlog")
    BY <1>9 DEF ProbeBacklog, ProbeFailedAs
  <2>2. Witnessed(Profile(TRUE, TRUE, b), was)
    BY <2>1, <1>2, <1>5, <1>6, <1>7 DEF Boards
  <2> QED
    BY <2>1, <2>2 DEF Remember
<1> QED
  BY <1>8, <1>9

(* Every step keeps what is known of a limited board tied to an answer of *)
(* Jira.                                                                  *)
LEMMA LimitStep ==
  JiraInv /\ BoardsSeen /\ LimitsSeen /\ ProfileOnlyOfClient /\ [JiraNext]_jiraVars
    => BoardsSeen' /\ LimitsSeen' /\ ProfileOnlyOfClient'
<1> DEFINE LInv == BoardsSeen /\ LimitsSeen /\ ProfileOnlyOfClient
<1> SUFFICES ASSUME JiraInv, LInv, [JiraNext]_jiraVars PROVE LInv'
  OBVIOUS
<1>1. ASSUME NEW c \in Calls, Continues(c) PROVE LInv'
  <2>1. UNCHANGED <<clients, boards, boardWas>> /\ AtWork(c)
    BY <1>1, OneMovesOn DEF JiraInv, AllAtWork
  <2>2. CASE profiles' = profiles
    BY <2>1, <2>2 DEF BoardsSeen, LimitsSeen, ProfileOnlyOfClient
  <2>3. ASSUME NEW profile, profiles' = [profiles EXCEPT ![args[c].project] = profile],
               Witnessed(profile, boardWas[mine[c].key])
        PROVE  LInv'
    <3>1. \A p \in Projects : p # args[c].project => profiles'[p] = profiles[p]
      BY <2>3 DEF JiraInv, Shape
    <3>2. profiles'[args[c].project] = profile /\ clients[args[c].project] = mine[c]
          /\ mine[c] # Nothing
      BY <2>1, <2>3 DEF JiraInv, Shape, AtWork
    <3> QED
      BY <2>1, <2>3, <3>1, <3>2 DEF BoardsSeen, LimitsSeen, ProfileOnlyOfClient
  <2> QED
    BY <1>1, <2>2, <2>3, SeldomChanged, LooksTruly
<1>2. ASSUME NEW c \in Calls, NEW a \in Arguments, Begin(c, a) PROVE LInv'
  <2> DEFINE p == a.project
             client == ClientFor(p)
  <2>1. /\ UNCHANGED <<profiles, boards, boardWas>> /\ client # Nothing
        /\ clients' = [clients EXCEPT ![p] = client]
    BY <1>2 DEF Begin, learnt, jira
  <2>2. clients[p] # Nothing => client = clients[p]
    BY DEF ClientFor
  <2>3. \A q \in Projects : clients'[q] = clients[q] \/ (clients[q] = Nothing /\ clients'[q] # Nothing)
    BY <2>1, <2>2 DEF JiraInv, Shape
  <2> QED
    BY <2>1, <2>3 DEF BoardsSeen, LimitsSeen, ProfileOnlyOfClient, Witnessed
<1>3. ASSUME NEW c \in Calls, NEW a \in Arguments, Refuse(c, a) PROVE LInv'
  BY <1>3 DEF Refuse, cached, learnt, jira, BoardsSeen, LimitsSeen, ProfileOnlyOfClient
<1>4. ASSUME NEW key \in ProjectKeys, BoardChanges(key) PROVE LInv'
  <2>1. UNCHANGED <<profiles, clients>>
    BY <1>4 DEF BoardChanges, Moves, cached, learnt
  <2>2. PICK b \in Boards : /\ boards' = [boards EXCEPT ![key] = b]
                            /\ boardWas' = [boardWas EXCEPT ![key] = @ \cup {b}]
    BY <1>4 DEF BoardChanges
  <2>3. BoardsSeen'
    BY <2>2 DEF BoardsSeen
  <2>4. \A k \in ProjectKeys : \A b2 \in boardWas[k] : b2 \in boardWas'[k]
    BY <2>2 DEF BoardsSeen
  <2>5. \A p \in Projects : clients[p] # Nothing => clients[p].key \in ProjectKeys
    BY DEF JiraInv, AllVouched, Vouched
  <2>6. LimitsSeen'
    <3> SUFFICES ASSUME NEW p \in Projects, clients[p] # Nothing
                 PROVE  Witnessed(profiles[p], boardWas'[clients[p].key])
      BY <2>1 DEF LimitsSeen
    <3>1. Witnessed(profiles[p], boardWas[clients[p].key])
      BY DEF LimitsSeen
    <3>2. \A b2 \in boardWas[clients[p].key] : b2 \in boardWas'[clients[p].key]
      BY <2>4, <2>5
    <3> QED
      BY <3>1, <3>2 DEF Witnessed
  <2> QED
    BY <2>1, <2>3, <2>6 DEF ProfileOnlyOfClient
<1>5. CASE \/ \E i \in Issues : PersonTransitions(i)
           \/ \E p \in Projects : Dump(p)
           \/ \E r \in References : Rotate(r)
           \/ Truncate \/ UNCHANGED jiraVars
  <2>1. UNCHANGED <<profiles, clients, boards, boardWas>>
    BY <1>5 DEF PersonTransitions, Dump, Rotate, Truncate, Moves, Changes, cached, learnt, jira,
                jiraVars
  <2> QED
    BY <2>1 DEF BoardsSeen, LimitsSeen, ProfileOnlyOfClient
<1>6. CASE Restart
  BY <1>6 DEF Restart, Changes, jira, BoardsSeen, LimitsSeen, ProfileOnlyOfClient
<1> QED
  BY <1>1, <1>2, <1>3, <1>4, <1>5, <1>6 DEF JiraNext

(* A failed request is never remembered as a board without a backlog, and   *)
(* whichever of two looks is remembered, Jira was once so.                  *)
THEOREM LimitsAreReal == JiraSpec => []NoInventedLimit
<1>1. LimitsSeen => NoInventedLimit
  BY DEF LimitsSeen, Witnessed, NoInventedLimit
<1> QED
  BY <1>1, LimitInit, LimitStep, JiraInvAlways, PTL DEF JiraSpec

-----------------------------------------------------------------------------
(* Issues keep their fields; only a submit comes to its comment. *)
IssueShape == issues = [i \in Issues |-> [f \in Fields |-> issues[i][f]]]
SubmitComments == \A c \in Calls : pc[c] = "comment" => args[c].tool = "submit"
WInv == IssueShape /\ SubmitComments

(* Before the first call nothing was changed. *)
LEMMA WriteInit == JiraInit => WInv
<1> SUFFICES ASSUME JiraInit PROVE WInv
  OBVIOUS
<1>1. \A i \in Issues : issues[i] = [f \in Fields |-> issues[i][f]]
  <2> SUFFICES ASSUME NEW i \in Issues PROVE Fresh(i) = [f \in Fields |-> Fresh(i)[f]]
    BY DEF JiraInit
  <2> DEFINE first == CHOOSE s \in Statuses : TRUE
  <2>1. Fresh(i) = [status |-> first, labels |-> {}, assignee |-> Nothing,
                    backlog |-> TRUE, editor |-> Nothing, comments |-> {}]
    BY DEF Fresh
  <2> HIDE DEF first
  <2> QED
    BY <2>1 DEF Fields
<1>2. IssueShape
  BY <1>1 DEF JiraInit, IssueShape
<1>3. SubmitComments
  BY DEF JiraInit, SubmitComments
<1> QED
  BY <1>2, <1>3 DEF WInv

(* What a write does to an issue. *)
LEMMA PutDoes ==
  ASSUME IssueShape, NEW i, NEW f \in Fields, NEW v, Put(i, f, v)
  PROVE  /\ IssueShape' /\ created' = created
         /\ \A j \in Issues : issues'[j] # issues[j] => j = i
         /\ \A j \in Issues : f # "labels" => issues'[j].labels = issues[j].labels
         /\ i \in Issues /\ f = "labels" => issues'[i].labels = v
<1>1. issues' = [issues EXCEPT ![i][f] = v] /\ created' = created
  BY DEF Put
<1>2. \A j \in Issues : j # i => issues'[j] = issues[j]
  BY <1>1 DEF IssueShape
<1>3. i \in Issues => issues'[i] = [issues[i] EXCEPT ![f] = v]
  BY <1>1 DEF IssueShape
<1>4. i \in Issues => issues'[i] = [g \in Fields |-> IF g = f THEN v ELSE issues[i][g]]
  BY <1>3 DEF IssueShape
<1>5. \A j \in Issues : issues'[j] = [g \in Fields |-> issues'[j][g]]
  BY <1>2, <1>4 DEF IssueShape
<1>6. issues' = [j \in Issues |-> issues'[j]]
  BY <1>1 DEF IssueShape
<1>7. IssueShape'
  BY <1>5, <1>6 DEF IssueShape
<1> QED
  BY <1>1, <1>2, <1>4, <1>7 DEF Fields

(* One step of a call: it changes only issues it names, and of their labels *)
(* only those it names.                                                     *)
TouchesAsked(c) ==
  /\ \A i \in Issues : issues'[i] # issues[i] =>
       /\ i \in Range(args[c].keys)
       /\ issues[i].labels \ issues'[i].labels \subseteq args[c].remove
       /\ issues'[i].labels \ issues[i].labels \subseteq args[c].add
(* One change of an issue keeps to what its call names. *)
LEMMA WritesAsAsked ==
  ASSUME JiraInv, WInv, NEW c \in Calls, Write(c) \/ CommentOnSubmit(c) \/ MoveIssues(c)
  PROVE  /\ IssueShape' /\ TouchesAsked(c)
         /\ issues' # issues \/ created' # created =>
              \A i \in Range(args[c].keys) : i # Nothing /\ KeyOf[i] = mine[c].key
<1>0. AtWork(c)
  BY OneMovesOn DEF JiraInv, AllAtWork, Continues
<1>1. args[c].tool \in SingleKeyTools \cup BatchTools =>
        /\ \A i \in Range(args[c].keys) : i # Nothing /\ KeyOf[i] = mine[c].key
        /\ TheKey(c) \in Range(args[c].keys)
  <2> SUFFICES ASSUME args[c].tool \in SingleKeyTools \cup BatchTools
               PROVE  /\ \A i \in Range(args[c].keys) : i # Nothing /\ KeyOf[i] = mine[c].key
                      /\ TheKey(c) \in Range(args[c].keys)
    OBVIOUS
  <2>1. Scoped(args[c].keys, mine[c].key)
    BY <1>0 DEF AtWork, KeysRefused
  <2>2. args[c].keys \in Seq(Issues \cup {Nothing}) /\ args[c].keys # <<>>
    BY <1>0, <2>1, JiraAssumption DEF AtWork, Scoped, CallRecord
  <2>3. 1 \in DOMAIN args[c].keys
    BY <2>2
  <2> QED
    BY <2>1, <2>3 DEF Scoped, TheKey, Range
<1>2. args[c].tool = "create" =>
        \A i \in Range(args[c].keys) : i # Nothing /\ KeyOf[i] = mine[c].key
  BY <1>0 DEF AtWork, KeysRefused, Scoped, Range
<1>3. CASE issues' = issues /\ created' = created
  BY <1>3 DEF TouchesAsked, WInv, IssueShape
<1>4. CASE issues' = issues /\ args[c].tool = "create"
  BY <1>2, <1>4 DEF TouchesAsked, WInv, IssueShape
<1>5. ASSUME NEW f \in Fields \ {"labels"}, NEW v, Put(TheKey(c), f, v),
             args[c].tool \in SingleKeyTools
      PROVE  /\ IssueShape' /\ TouchesAsked(c)
             /\ \A i \in Range(args[c].keys) : i # Nothing /\ KeyOf[i] = mine[c].key
  <2>1. /\ IssueShape' /\ \A j \in Issues : issues'[j] # issues[j] => j = TheKey(c)
        /\ \A j \in Issues : issues'[j].labels = issues[j].labels
    BY <1>5, PutDoes DEF WInv
  <2> QED
    BY <1>1, <1>5, <2>1 DEF TouchesAsked
<1>6. CASE EditsLabels(c)
  <2> DEFINE k == TheKey(c)
             new == LabelsAfter(issues[k].labels, args[c])
  <2>1. /\ IssueShape' /\ \A j \in Issues : issues'[j] # issues[j] => j = k
        /\ k \in Issues => issues'[k].labels = new
    BY <1>6, PutDoes DEF EditsLabels, WInv, Fields
  <2>2. /\ issues[k].labels \ new \subseteq args[c].remove
        /\ new \ issues[k].labels \subseteq args[c].add
    BY DEF LabelsAfter
  <2>3. args[c].tool \in SingleKeyTools
    BY <1>6 DEF EditsLabels, SingleKeyTools
  <2> QED
    BY <1>1, <2>1, <2>2, <2>3 DEF TouchesAsked
<1>7. ASSUME NEW moved \in SUBSET Range(args[c].keys), MoveSome(c, moved),
             args[c].tool \in BatchTools
      PROVE  /\ IssueShape' /\ TouchesAsked(c)
             /\ \A i \in Range(args[c].keys) : i # Nothing /\ KeyOf[i] = mine[c].key
  <2> DEFINE away == args[c].tool = "to_backlog"
  <2>1. issues' = [i \in Issues |-> IF i \in moved THEN [issues[i] EXCEPT !.backlog = away]
                                   ELSE issues[i]]
    BY <1>7 DEF MoveSome
  <2>2. \A i \in Issues : i \notin moved => issues'[i] = issues[i]
    BY <2>1
  <2>3. \A i \in Issues : i \in moved => issues'[i] = [issues[i] EXCEPT !.backlog = away]
    BY <2>1
  <2>4. \A i \in Issues : i \in moved =>
          issues'[i] = [g \in Fields |-> IF g = "backlog" THEN away ELSE issues[i][g]]
    BY <2>3 DEF WInv, IssueShape, Fields
  <2>5. \A i \in Issues : issues'[i] = [g \in Fields |-> issues'[i][g]]
    BY <2>2, <2>4 DEF WInv, IssueShape
  <2>6. IssueShape'
    BY <2>1, <2>5 DEF IssueShape
  <2>7. \A i \in Issues : issues'[i].labels = issues[i].labels
    BY <2>2, <2>4, ZenonT(40) DEF Fields
  <2> QED
    BY <1>1, <1>7, <2>2, <2>6, <2>7 DEF TouchesAsked
<1>8. CASE Acts(c)
  <2>1. CASE EditsLabels(c)
    BY <1>6, <2>1, <1>1 DEF EditsLabels, SingleKeyTools
  <2>2. CASE Creates(c)
    BY <1>4, <2>2 DEF Creates
  <2>3. CASE Transitions(c) \/ Assigns(c) \/ EditsText(c) \/ (args[c].tool = "comment" /\ AddsComment(c))
    <3>1. args[c].tool \in SingleKeyTools
      BY <2>3 DEF Transitions, Assigns, EditsText, SingleKeyTools
    <3>2. \E f \in Fields \ {"labels"} : \E v : Put(TheKey(c), f, v)
      BY <2>3 DEF Transitions, Assigns, EditsText, AddsComment, Fields
    <3> QED
      BY <3>1, <3>2, <1>5
  <2> QED
    BY <1>8, <2>1, <2>2, <2>3 DEF Acts
<1>9. CASE Write(c)
  <2>1. Acts(c) \/ UNCHANGED <<issues, created>>
    BY <1>9 DEF Write
  <2> QED
    BY <1>3, <1>8, <2>1
<1>10. CASE CommentOnSubmit(c)
  <2>1. args[c].tool \in SingleKeyTools
    BY <1>10 DEF CommentOnSubmit, Request, WInv, SubmitComments, SingleKeyTools
  <2>2. CASE AddsComment(c)
    <3>1. \E v : Put(TheKey(c), "comments", v)
      BY <2>2 DEF AddsComment
    <3> QED
      BY <2>1, <3>1, <1>5 DEF Fields
  <2> QED
    BY <1>10, <2>2, <1>3 DEF CommentOnSubmit
<1>11. CASE MoveIssues(c)
  BY <1>11, <1>3, <1>7 DEF MoveIssues
<1> QED
  BY <1>9, <1>10, <1>11

(* Every step keeps to what its call names. *)
LEMMA WriteStep ==
  JiraInv /\ WInv /\ [JiraNext]_jiraVars =>
    /\ WInv'
    /\ \A c \in Calls : pc[c] \in {"write", "comment"} /\ pc'[c] # pc[c] =>
         /\ TouchesAsked(c)
         /\ issues' # issues \/ created' # created =>
              \A i \in Range(args[c].keys) : i # Nothing /\ KeyOf[i] = mine[c].key
<1> DEFINE AsAsked(c) ==
      /\ TouchesAsked(c)
      /\ issues' # issues \/ created' # created =>
           \A i \in Range(args[c].keys) : i # Nothing /\ KeyOf[i] = mine[c].key
    Goal == WInv' /\ \A c \in Calls : pc[c] \in {"write", "comment"} /\ pc'[c] # pc[c] => AsAsked(c)
<1> SUFFICES ASSUME JiraInv, WInv, [JiraNext]_jiraVars PROVE Goal
  OBVIOUS
<1>0. issues' = issues /\ created' = created => IssueShape' /\ \A c \in Calls : AsAsked(c)
  BY DEF WInv, IssueShape, TouchesAsked
<1>1. ASSUME NEW c \in Calls, Continues(c) PROVE Goal
  <2>1. args' = args /\ \A d \in Calls \ {c} : pc'[d] = pc[d]
    BY <1>1, OneMovesOn DEF JiraInv
  <2>2. IssueShape' /\ AsAsked(c)
    <3>1. CASE Write(c) \/ CommentOnSubmit(c) \/ MoveIssues(c)
      BY <3>1, WritesAsAsked
    <3>2. CASE ~(Write(c) \/ CommentOnSubmit(c) \/ MoveIssues(c))
      <4>1. issues' = issues /\ created' = created
        BY <1>1, <3>2 DEF Continues, FetchBoards, ProbeBacklog, IssueTypes, FieldMap,
           GetTransitions, AssignableUsers, MyAccountId, Read, jira
      <4> QED
        BY <4>1, <1>0
    <3> QED
      BY <3>1, <3>2
  <2>3. pc'[c] = "comment" => args[c].tool = "submit"
    <3>1. \A next : Proceed(c, next) => pc'[c] = next
      BY DEF Proceed, JiraInv, Shape
    <3>2. \A p : AfterProfile(args[c], p) # "comment"
      BY DEF AfterProfile
    <3>3. WithProfile(args[c]) # "comment"
      BY <3>2 DEF WithProfile
    <3>4. \A p : Remember(c, p) => pc'[c] # "comment"
      BY <3>1, <3>2 DEF Remember
    <3>5. CASE FetchBoards(c) \/ ProbeBacklog(c)
      BY <3>1, <3>4, <3>5 DEF FetchBoards, ProbeBacklog
    <3>6. CASE IssueTypes(c) \/ FieldMap(c) \/ GetTransitions(c) \/ AssignableUsers(c)
               \/ MyAccountId(c) \/ Read(c) \/ CommentOnSubmit(c)
      BY <3>1, <3>6 DEF IssueTypes, WithFields, FieldMap, GetTransitions, AssignableUsers,
         MyAccountId, Read, CommentOnSubmit
    <3>7. CASE Write(c)
      BY <3>1, <3>3, <3>7 DEF Write, AfterWrite
    <3>8. CASE MoveIssues(c)
      BY <3>1, <3>8 DEF MoveIssues, AfterMove
    <3> QED
      BY <1>1, <3>5, <3>6, <3>7, <3>8 DEF Continues
  <2>4. SubmitComments'
    BY <2>1, <2>3 DEF WInv, SubmitComments
  <2> QED
    BY <2>1, <2>2, <2>4 DEF WInv
<1>2. ASSUME NEW c \in Calls, NEW a \in Arguments, Begin(c, a) \/ Refuse(c, a) PROVE Goal
  <2>1. /\ issues' = issues /\ created' = created /\ pc[c] = "idle"
        /\ args' = [args EXCEPT ![c] = a]
    BY <1>2 DEF Begin, Refuse, jira
  <2>2. \E next : next # "comment" /\ Proceed(c, next)
    <3>1. FirstStep(a) # "comment"
      BY DEF FirstStep, WithProfile, AfterProfile, WithFields
    <3>2. CASE Begin(c, a)
      BY <3>1, <3>2 DEF Begin
    <3>3. CASE Refuse(c, a)
      BY <3>3 DEF Refuse
    <3> QED
      BY <1>2, <3>2, <3>3
  <2>3. pc'[c] # "comment" /\ \A d \in Calls \ {c} : pc'[d] = pc[d] /\ args'[d] = args[d]
    BY <2>1, <2>2 DEF Proceed, JiraInv, Shape
  <2>4. SubmitComments'
    BY <2>3 DEF WInv, SubmitComments
  <2> QED
    BY <1>0, <2>1, <2>4 DEF WInv
<1>3. ASSUME NEW i \in Issues, PersonTransitions(i) PROVE Goal
  <2>1. pc' = pc /\ args' = args
    BY <1>3 DEF PersonTransitions, Moves, calls
  <2>2. IssueShape'
    <3>1. \E s : Put(i, "status", s)
      BY <1>3 DEF PersonTransitions
    <3> QED
      BY <3>1, PutDoes DEF WInv, Fields
  <2> QED
    BY <2>1, <2>2 DEF WInv, SubmitComments
<1>4. CASE \/ \E key \in ProjectKeys : BoardChanges(key)
           \/ \E p \in Projects : Dump(p)
           \/ \E r \in References : Rotate(r)
           \/ Truncate \/ UNCHANGED jiraVars
  <2>1. UNCHANGED <<issues, created, pc, args>>
    BY <1>4 DEF BoardChanges, Dump, Rotate, Truncate, Moves, Changes, calls, jira, jiraVars
  <2> QED
    BY <1>0, <2>1 DEF WInv, SubmitComments
<1>5. CASE Restart
  <2>1. issues' = issues /\ created' = created /\ args' = args
    BY <1>5 DEF Restart, Changes, jira
  <2>2. \A c \in Calls : pc'[c] # "comment"
    BY <1>5 DEF Restart, Stages
  <2> QED
    BY <1>0, <2>1, <2>2 DEF WInv, SubmitComments
<1> QED
  BY <1>1, <1>2, <1>3, <1>4, <1>5 DEF JiraNext

(* A call changes nothing in Jira but issues that it names, all of them of  *)
(* its own project, and of their labels only those it names.                *)
THEOREM AsAskedOnly == JiraSpec => OnlyAsAsked
<1>1. JiraInv /\ WInv /\ [JiraNext]_jiraVars =>
        [\A c \in Calls : pc[c] \in {"write", "comment"} /\ pc'[c] # pc[c] =>
           /\ \A i \in Issues : issues'[i] # issues[i] =>
                /\ i \in Range(args[c].keys)
                /\ issues[i].labels \ issues'[i].labels \subseteq args[c].remove
                /\ issues'[i].labels \ issues[i].labels \subseteq args[c].add
           /\ issues' # issues \/ created' # created =>
                \A i \in Range(args[c].keys) : i # Nothing /\ KeyOf[i] = mine[c].key]_jiraVars
  BY WriteStep DEF TouchesAsked
<1>2. JiraInv /\ WInv /\ [JiraNext]_jiraVars => WInv'
  BY WriteStep
<1> QED
  BY <1>1, <1>2, WriteInit, JiraInvAlways, PTL DEF JiraSpec, OnlyAsAsked

-----------------------------------------------------------------------------
(* How far a call has come, and what Jira has done for it by then. *)
ToolsAt(stage) ==
  CASE stage \in {"boards", "probe"} -> BatchTools \cup {"info", "create"}
    [] stage = "types" -> {"info"}
    [] stage = "fields" -> {"info", "create"}
    [] stage = "transitions" -> {"transition", "start", "submit"}
    [] stage \in {"users", "whoami"} -> {"assign"}
    [] stage = "read" -> {"search", "details", "comments", "snapshot"}
    [] stage = "comment" -> {"submit"}
    [] OTHER -> {"assign", "transition", "start", "submit", "comment", "labels", "edit", "create"}
                \cup BatchTools
DoneAt(stage, tool) ==
  IF stage = "comment" THEN {"transition"}
  ELSE IF tool = "create" /\ stage \in {"boards", "probe"} THEN {"create"} ELSE {}
Fine(stage, tool, done) ==
  /\ stage \in Working => tool \in ToolsAt(stage) /\ done = DoneAt(stage, tool)
  /\ stage \in {"idle", "refused", "unconfigured", "unsupported", "partial"} => done = {}
  /\ stage = "ok" => done = Owed(tool)
  /\ stage = "failed" =>
       /\ done \subseteq Owed(tool)
       /\ "comment" \in done /\ tool = "submit" => "transition" \in done
  /\ stage \in Stages \cup Answers
AllFine ==
  /\ did = [c \in Calls |-> did[c]] /\ found = [c \in Calls |-> found[c]]
  /\ \A c \in Calls : Fine(pc[c], args[c].tool, did[c])
(* A name has been looked up before anything is written for it. *)
Chosen ==
  \A c \in Calls :
    /\ pc[c] = "write" \/ "assign" \in did[c]
    /\ args[c].tool = "assign" /\ args[c].what \in DOMAIN Fits
    => found[c] \in Picked(args[c].what)
WhoIsMe == \A c \in Calls : pc[c] = "whoami" => args[c].what = "me"
RInv == AllFine /\ Chosen /\ WhoIsMe

(* Before the first call no answer is owed. *)
LEMMA ReplyInit == JiraInit => RInv
<1> SUFFICES ASSUME JiraInit PROVE RInv
  OBVIOUS
<1>1. \A tool : Fine("idle", tool, {})
  BY DEF Fine, Working, Stages
<1>2. AllFine
  BY <1>1 DEF JiraInit, AllFine
<1>3. Chosen /\ WhoIsMe
  BY DEF JiraInit, Chosen, WhoIsMe
<1> QED
  BY <1>2, <1>3 DEF RInv

(* A stage that is fine owes exactly what is not done yet. *)
LEMMA FineOwes == ASSUME NEW stage, NEW tool, NEW done, Fine(stage, tool, done)
                  PROVE  /\ done \subseteq Owed(tool)
                         /\ "comment" \in done /\ tool = "submit" => "transition" \in done
<1>1. CASE stage \in Working
  BY <1>1 DEF Fine, Working, Stages, ToolsAt, DoneAt, Owed, BatchTools
<1>2. CASE stage \notin Working
  <2>1. stage = "idle" \/ stage \in Answers
    BY <1>2 DEF Fine, Working
  <2> QED
    <3>1. CASE stage = "ok"
      <4>1. Owed("submit") = {"transition", "comment"}
        BY DEF Owed, BatchTools
      <4>2. done = Owed(tool)
        BY <3>1 DEF Fine
      <4> QED
        BY <4>1, <4>2
    <3>2. CASE stage # "ok"
      <4>1. CASE stage \in {"idle", "refused", "unconfigured", "unsupported", "partial"}
        <5>1. done = {}
          BY <4>1 DEF Fine
        <5> QED
          BY <5>1
      <4>2. CASE stage = "failed"
        BY <4>2 DEF Fine
      <4> QED
        BY <2>1, <3>2, <4>1, <4>2 DEF Answers
    <3> QED
      BY <3>1, <3>2
<1> QED
  BY <1>1, <1>2

(* Looking up the profile does not change what is fine. *)
LEMMA FineAfterProfile ==
  ASSUME NEW a, NEW profile, a.tool \in BatchTools \cup {"info", "create"}
  PROVE  Fine(AfterProfile(a, profile), a.tool, DoneAt("boards", a.tool))
  BY DEF AfterProfile, Fine, Working, Stages, Answers, ToolsAt, DoneAt, Owed, BatchTools

(* Nor does having it already. *)
LEMMA FineWithProfile ==
  ASSUME NEW a, a.tool \in BatchTools \cup {"info", "create"}
  PROVE  Fine(WithProfile(a), a.tool, DoneAt("boards", a.tool))
<1>1. Fine("boards", a.tool, DoneAt("boards", a.tool))
  BY DEF Fine, Working, Stages, ToolsAt
<1> QED
  BY <1>1, FineAfterProfile DEF WithProfile

(* The first stage of every tool is fine with nothing done. *)
LEMMA FineFirst == ASSUME NEW a, a.tool \in Tools PROVE Fine(FirstStep(a), a.tool, {})
<1>1. CASE a.tool \in BatchTools \cup {"info"}
  <2>1. DoneAt("boards", a.tool) = {} /\ FirstStep(a) = WithProfile(a)
    BY <1>1 DEF DoneAt, BatchTools, FirstStep
  <2> QED
    BY <1>1, <2>1, FineWithProfile
<1>2. CASE a.tool \notin BatchTools \cup {"info"}
  <2>1. a.tool \in ToolsAt(FirstStep(a)) /\ DoneAt(FirstStep(a), a.tool) = {}
        /\ FirstStep(a) \in Working
    BY <1>2 DEF Tools, SingleKeyTools, BatchTools, FirstStep, WithFields, ToolsAt, DoneAt, Working,
                Stages
  <2> QED
    BY <2>1 DEF Fine, Working, Stages
<1> QED
  BY <1>1, <1>2

(* One call moves on: the others are as they were, and it is fine if its own *)
(* new stage and its own record are.                                         *)
LEMMA OneFine ==
  ASSUME Shape, AllFine, NEW c \in Calls, NEW next, Proceed(c, next), args' = args,
         NEW done, did' = [did EXCEPT ![c] = done] \/ (did' = did /\ done = did[c]),
         NEW u, found' = [found EXCEPT ![c] = u] \/ (found' = found /\ u = found[c]),
         Fine(next, args[c].tool, done)
  PROVE  /\ AllFine'
         /\ pc'[c] = next /\ did'[c] = done /\ found'[c] = u
         /\ \A d \in Calls \ {c} : pc'[d] = pc[d] /\ did'[d] = did[d] /\ found'[d] = found[d]
<1>1. /\ pc'[c] = next /\ did'[c] = done /\ found'[c] = u
      /\ did' = [d \in Calls |-> did'[d]] /\ found' = [d \in Calls |-> found'[d]]
      /\ \A d \in Calls \ {c} : pc'[d] = pc[d] /\ did'[d] = did[d] /\ found'[d] = found[d]
  BY DEF Proceed, Shape, AllFine
<1> QED
  BY <1>1 DEF AllFine

(* And Chosen is kept, unless the call comes to write or to assign. *)
LEMMA OneChosen ==
  ASSUME Shape, RInv, NEW c \in Calls, NEW next, Proceed(c, next), args' = args,
         NEW done, did' = [did EXCEPT ![c] = done] \/ (did' = did /\ done = did[c]),
         found' = found, Fine(next, args[c].tool, done), next # "whoami",
         next = "write" => pc[c] = "write" \/ args[c].tool # "assign",
         "assign" \in done => pc[c] = "write" \/ "assign" \in did[c]
  PROVE  RInv'
<1>1. /\ AllFine' /\ pc'[c] = next /\ did'[c] = done
      /\ \A d \in Calls \ {c} : pc'[d] = pc[d] /\ did'[d] = did[d]
  BY OneFine DEF RInv
<1>2. Chosen' /\ WhoIsMe'
  BY <1>1 DEF RInv, Chosen, WhoIsMe
<1> QED
  BY <1>1, <1>2 DEF RInv

(* A call that only looks answers with the truth. *)
LEMMA LooksFine ==
  ASSUME JiraInv, RInv, NEW c \in Calls, FetchBoards(c) \/ ProbeBacklog(c)
  PROVE  RInv'
<1> DEFINE tool == args[c].tool
<1>1. /\ pc[c] \in {"boards", "probe"} /\ args' = args /\ did' = did /\ found' = found /\ Shape
  BY DEF FetchBoards, ProbeBacklog, Request, local, JiraInv
<1>2. Fine(pc[c], tool, did[c])
  BY DEF RInv, AllFine
<1>3. tool \in BatchTools \cup {"info", "create"} /\ did[c] = DoneAt("boards", tool)
  BY <1>1, <1>2 DEF Fine, Working, Stages, ToolsAt, DoneAt
<1>4. Fine("probe", tool, did[c])
  BY <1>3 DEF Fine, Working, Stages, ToolsAt, DoneAt
<1>5. \A p : Fine(AfterProfile(args[c], p), tool, did[c])
  BY <1>3, FineAfterProfile
<1>6. \E next : Proceed(c, next) /\ Fine(next, tool, did[c])
  <2>1. CASE FetchBoards(c)
    BY <2>1, <1>4, <1>5 DEF FetchBoards, Remember
  <2>2. CASE ProbeBacklog(c)
    BY <2>2, <1>5 DEF ProbeBacklog, Remember
  <2> QED
    BY <2>1, <2>2
<1>7. /\ tool # "assign"
      /\ \A next : Fine(next, tool, did[c]) => next # "whoami"
  BY <1>3 DEF BatchTools, Fine, Working, Stages, ToolsAt
<1> QED
  BY <1>1, <1>6, <1>7, OneChosen

(* A reading stage hands on, fails or times out and its answer stays true. *)
LEMMA ReadsFine ==
  ASSUME JiraInv, RInv, NEW c \in Calls,
         \/ IssueTypes(c) \/ FieldMap(c) \/ GetTransitions(c) \/ Read(c)
  PROVE  RInv'
<1> DEFINE tool == args[c].tool
<1>1. /\ pc[c] \in {"types", "fields", "transitions", "read"} /\ args' = args /\ did' = did
      /\ found' = found /\ Shape
  BY DEF IssueTypes, FieldMap, GetTransitions, Read, Request, local, JiraInv
<1>2. Fine(pc[c], tool, did[c])
  BY DEF RInv, AllFine
<1>3. did[c] = {} /\ tool \in ToolsAt(pc[c])
  BY <1>1, <1>2 DEF Fine, Working, Stages, DoneAt
<1>4. Fine("failed", tool, did[c])
  BY <1>3 DEF Fine, Working, Stages, Answers
<1>5. \E next : /\ Proceed(c, next) /\ Fine(next, tool, did[c])
                /\ next = "write" => tool # "assign"
                /\ next # "whoami"
  <2>1. CASE IssueTypes(c)
    <3>1. tool = "info"
      BY <2>1, <1>3 DEF IssueTypes, Request, ToolsAt
    <3>2. Fine("fields", tool, did[c]) /\ Fine("ok", tool, did[c])
      BY <1>3, <3>1 DEF Fine, Working, Stages, Answers, ToolsAt, DoneAt, Owed, BatchTools
    <3> QED
      BY <2>1, <3>2 DEF IssueTypes, WithFields
  <2>2. CASE FieldMap(c)
    <3>1. tool \in {"info", "create"}
      BY <2>2, <1>3 DEF FieldMap, Request, ToolsAt
    <3>2. /\ tool = "create" => Fine("write", tool, did[c])
          /\ tool # "create" => Fine("ok", tool, did[c])
      BY <1>3, <3>1 DEF Fine, Working, Stages, Answers, ToolsAt, DoneAt, Owed, BatchTools
    <3> QED
      BY <2>2, <3>2 DEF FieldMap
  <2>3. CASE GetTransitions(c)
    <3>1. tool \in {"transition", "start", "submit"}
      BY <2>3, <1>3 DEF GetTransitions, Request, ToolsAt
    <3>2. Fine("write", tool, did[c])
      BY <1>3, <3>1 DEF Fine, Working, Stages, ToolsAt, DoneAt
    <3> QED
      BY <2>3, <1>4, <3>1, <3>2 DEF GetTransitions
  <2>4. CASE Read(c)
    <3>1. tool \in {"search", "details", "comments", "snapshot"}
      BY <2>4, <1>3 DEF Read, Request, ToolsAt
    <3>2. Fine("ok", tool, did[c])
      BY <1>3, <3>1 DEF Fine, Working, Stages, Answers, Owed, BatchTools
    <3> QED
      BY <2>4, <1>4, <3>2 DEF Read
  <2> QED
    BY <2>1, <2>2, <2>3, <2>4
<1>6. PICK next : /\ Proceed(c, next) /\ Fine(next, tool, did[c])
                  /\ next = "write" => tool # "assign"
                  /\ next # "whoami"
  BY <1>5
<1>7. did' = did /\ found' = found /\ args' = args /\ Shape
  BY <1>1
<1> QED
  BY <1>6, <1>7, OneChosen

(* A user is looked up; what is found is one of those that were picked.     *)
LEMMA LookupFine ==
  ASSUME JiraInv, RInv, NEW c \in Calls, AssignableUsers(c) \/ MyAccountId(c), AtWork(c)
  PROVE  RInv'
<1> DEFINE tool == args[c].tool
<1>1. /\ pc[c] \in {"users", "whoami"} /\ args' = args /\ did' = did /\ Shape
  BY DEF AssignableUsers, MyAccountId, Request, local, JiraInv
<1>2. Fine(pc[c], tool, did[c])
  BY DEF RInv, AllFine
<1>3. did[c] = {} /\ tool = "assign"
  BY <1>1, <1>2 DEF Fine, Working, Stages, DoneAt, ToolsAt
<1>4. Fine("failed", tool, {}) /\ Fine("write", tool, {})
  BY <1>3 DEF Fine, Working, Stages, Answers, ToolsAt, DoneAt
<1>5. CASE Proceed(c, "failed") /\ found' = found
  BY <1>1, <1>3, <1>4, <1>5, OneChosen
<1>6. ASSUME NEW u, Proceed(c, "write"), found' = [found EXCEPT ![c] = u],
             args[c].what \in DOMAIN Fits => u \in Picked(args[c].what)
      PROVE  RInv'
  <2>1. /\ AllFine' /\ pc'[c] = "write" /\ did'[c] = {} /\ found'[c] = u
        /\ \A d \in Calls \ {c} : pc'[d] = pc[d] /\ did'[d] = did[d] /\ found'[d] = found[d]
    BY <1>1, <1>3, <1>4, <1>6, OneFine DEF RInv
  <2>2. Chosen' /\ WhoIsMe'
    BY <2>1, <1>1, <1>6 DEF RInv, Chosen, WhoIsMe
  <2> QED
    BY <2>1, <2>2 DEF RInv
<1>7. CASE AssignableUsers(c)
  BY <1>5, <1>6, <1>7 DEF AssignableUsers
<1>8. CASE MyAccountId(c)
  <2>1. args[c].what \notin DOMAIN Fits
    BY <1>8, JiraAssumption DEF MyAccountId, Request, RInv, WhoIsMe
  <2> QED
    BY <1>5, <1>6, <1>8, <2>1 DEF MyAccountId
<1> QED
  BY <1>7, <1>8

(* What Jira may do for a call that writes is what it owes. *)
LEMMA ActDoes ==
  ASSUME RInv, NEW c \in Calls, Acts(c), did[c] = {}
  PROVE  /\ \E d \in {"transition", "assign", "labels", "edit", "comment", "create"} :
              /\ did' = [did EXCEPT ![c] = {d}]
              /\ d = "assign" => args[c].tool = "assign"
              /\ d = "transition" <=> args[c].tool \in {"transition", "start", "submit"}
              /\ d # "transition" => d = args[c].tool
<1>1. \A d : Does(c, d) => did' = [did EXCEPT ![c] = {d}]
  BY DEF Does, RInv, AllFine
<1>2. CASE Transitions(c)
  BY <1>1, <1>2 DEF Transitions
<1>3. CASE Assigns(c)
  BY <1>1, <1>3 DEF Assigns
<1>4. CASE EditsLabels(c)
  BY <1>1, <1>4 DEF EditsLabels
<1>5. CASE EditsText(c)
  BY <1>1, <1>5 DEF EditsText
<1>6. CASE Creates(c)
  BY <1>1, <1>6 DEF Creates
<1>7. CASE args[c].tool = "comment" /\ AddsComment(c)
  BY <1>1, <1>7 DEF AddsComment
<1> QED
  BY <1>2, <1>3, <1>4, <1>5, <1>6, <1>7 DEF Acts

(* A writing stage that Jira acted on or refused leaves a true answer. *)
LEMMA WritesFine ==
  ASSUME JiraInv, RInv, NEW c \in Calls, Write(c)
  PROVE  RInv'
<1> DEFINE tool == args[c].tool
<1>1. /\ pc[c] = "write" /\ tool \notin BatchTools /\ args' = args /\ found' = found /\ Shape
  BY DEF Write, Request, local, JiraInv
<1>2. Fine(pc[c], tool, did[c])
  BY DEF RInv, AllFine
<1>3. did[c] = {} /\ tool \in ToolsAt("write")
  BY <1>1, <1>2 DEF Fine, Working, Stages, DoneAt
<1>4. ASSUME Proceed(c, "failed"), did' = did
      PROVE  RInv'
  <2>1. Fine("failed", tool, did[c])
    BY <1>3 DEF Fine, Working, Stages, Answers
  <2> QED
    BY <1>1, <1>4, <2>1, OneChosen
<1>5. ASSUME Acts(c), NEW next \in {"failed", AfterWrite(c)}, Proceed(c, next)
      PROVE  RInv'
  <2>1. PICK d \in {"transition", "assign", "labels", "edit", "comment", "create"} :
           /\ did' = [did EXCEPT ![c] = {d}]
           /\ d = "assign" => tool = "assign"
           /\ d = "transition" <=> tool \in {"transition", "start", "submit"}
           /\ d # "transition" => d = tool
    BY <1>3, <1>5, ActDoes
  <2>2. d \in Owed(tool)
    BY <2>1 DEF Owed, BatchTools
  <2>3. d = "comment" => tool # "submit"
    BY <2>1
  <2>4. Fine("failed", tool, {d})
    BY <2>2, <2>3 DEF Fine, Working, Stages, Answers
  <2>5. Fine(AfterWrite(c), tool, {d})
    <3>1. CASE tool = "submit"
      <4>1. d = "transition" /\ AfterWrite(c) = "comment"
        BY <2>1, <3>1 DEF AfterWrite
      <4> QED
        BY <3>1, <4>1 DEF Fine, Working, Stages, ToolsAt, DoneAt
    <3>2. CASE tool = "create"
      <4>1. d = "create" /\ AfterWrite(c) = WithProfile(args[c])
        BY <2>1, <3>2 DEF AfterWrite
      <4>2. {d} = DoneAt("boards", tool)
        BY <3>2, <4>1 DEF DoneAt
      <4> QED
        BY <3>2, <4>1, <4>2, FineWithProfile
    <3>3. CASE tool \notin {"submit", "create"}
      <4>1. AfterWrite(c) = "ok"
        BY <3>3 DEF AfterWrite
      <4>2. Owed(tool) = {d}
        BY <1>1, <1>3, <2>1, <3>3 DEF Owed, BatchTools
      <4> QED
        BY <4>1, <4>2 DEF Fine, Working, Stages, Answers
    <3> QED
      BY <3>1, <3>2, <3>3
  <2>6. next # "whoami" /\ next # "write"
    <3>1. WithProfile(args[c]) \notin {"whoami", "write"} \/ tool # "create"
      BY DEF WithProfile, AfterProfile
    <3> QED
      BY <3>1 DEF AfterWrite
  <2> QED
    BY <1>1, <1>5, <2>1, <2>4, <2>5, <2>6, OneChosen
<1> QED
  BY <1>4, <1>5 DEF Write

(* So does the comment stage. *)
LEMMA CommentFine ==
  ASSUME JiraInv, RInv, NEW c \in Calls, CommentOnSubmit(c)
  PROVE  RInv'
<1> DEFINE tool == args[c].tool
<1>1. /\ pc[c] = "comment" /\ args' = args /\ found' = found /\ Shape
  BY DEF CommentOnSubmit, Request, local, JiraInv
<1>2. Fine(pc[c], tool, did[c])
  BY DEF RInv, AllFine
<1>3. did[c] = {"transition"} /\ tool = "submit"
  BY <1>1, <1>2 DEF Fine, Working, Stages, DoneAt, ToolsAt
<1>4. Owed(tool) = {"transition", "comment"}
  BY <1>3 DEF Owed, BatchTools
<1>5. CASE Proceed(c, "failed") /\ did' = did
  <2>1. Fine("failed", tool, did[c])
    BY <1>3, <1>4 DEF Fine, Working, Stages, Answers
  <2> QED
    BY <1>1, <1>5, <2>1, OneChosen
<1>6. ASSUME AddsComment(c), NEW next \in {"ok", "failed"}, Proceed(c, next)
      PROVE  RInv'
  <2>1. did' = [did EXCEPT ![c] = {"transition", "comment"}]
    BY <1>3, <1>6 DEF AddsComment, Does, RInv, AllFine
  <2>2. Fine(next, tool, {"transition", "comment"})
    BY <1>4 DEF Fine, Working, Stages, Answers
  <2> QED
    BY <1>1, <1>6, <2>1, <2>2, OneChosen
<1> QED
  BY <1>5, <1>6 DEF CommentOnSubmit

(* So does every move between backlog and board and every transition. *)
LEMMA MovesFine ==
  ASSUME JiraInv, RInv, NEW c \in Calls, MoveIssues(c)
  PROVE  RInv'
<1> DEFINE tool == args[c].tool
<1>1. /\ pc[c] = "write" /\ tool \in BatchTools /\ args' = args /\ found' = found /\ Shape
  BY DEF MoveIssues, Request, local, JiraInv
<1>2. Fine(pc[c], tool, did[c])
  BY DEF RInv, AllFine
<1>3. did[c] = {} /\ Owed(tool) = {"move"}
  BY <1>1, <1>2 DEF Fine, Working, Stages, DoneAt, Owed, BatchTools
<1>4. CASE did' = did /\ \E next \in {"failed", "partial"} : Proceed(c, next)
  <2>1. Fine("failed", tool, did[c]) /\ Fine("partial", tool, did[c])
    BY <1>3 DEF Fine, Working, Stages, Answers
  <2> QED
    BY <1>1, <1>4, <2>1, OneChosen
<1>5. ASSUME Does(c, "move"), NEW next \in {"ok", "failed"}, Proceed(c, next)
      PROVE  RInv'
  <2>1. did' = [did EXCEPT ![c] = {"move"}]
    BY <1>3, <1>5 DEF Does, RInv, AllFine
  <2>2. Fine(next, tool, {"move"})
    BY <1>3 DEF Fine, Working, Stages, Answers
  <2> QED
    BY <1>1, <1>5, <2>1, <2>2, OneChosen
<1> QED
  <2>1. ASSUME NEW moved \in SUBSET Range(args[c].keys), MoveSome(c, moved),
               NEW next \in {"failed", AfterMove(moved, Range(args[c].keys))}, Proceed(c, next)
        PROVE  RInv'
    BY <2>1, <1>4, <1>5 DEF MoveSome, AfterMove
  <2> QED
    BY <2>1, <1>4 DEF MoveIssues

(* A call that starts owes nothing yet. *)
LEMMA StartsFine ==
  ASSUME JiraInv, RInv, NEW c \in Calls, NEW a \in Arguments, Begin(c, a) \/ Refuse(c, a)
  PROVE  RInv'
<1>1. /\ pc[c] = "idle" /\ args' = [args EXCEPT ![c] = a] /\ did' = did /\ found' = found
  BY DEF Begin, Refuse
<1>2. did[c] = {}
  BY <1>1 DEF RInv, AllFine, Fine
<1>3. a.tool \in Tools
  BY JiraAssumption DEF CallRecord
<1>4. Fine("refused", a.tool, did[c]) /\ Fine("unconfigured", a.tool, did[c])
  BY <1>2 DEF Fine, Working, Stages, Answers
<1>5. Fine(FirstStep(a), a.tool, did[c])
  BY <1>3, FineFirst, <1>2
<1>6. /\ FirstStep(a) = "whoami" => a.what = "me"
      /\ FirstStep(a) = "write" /\ a.tool = "assign" => a.what \notin DOMAIN Fits
  BY DEF FirstStep, WithFields, WithProfile, AfterProfile, BatchTools
<1>7. \E next : /\ Proceed(c, next) /\ Fine(next, a.tool, did[c])
                /\ next = "whoami" => a.what = "me"
                /\ next = "write" /\ a.tool = "assign" => a.what \notin DOMAIN Fits
  <2>1. CASE Begin(c, a)
    BY <2>1, <1>4, <1>5, <1>6 DEF Begin
  <2>2. CASE Refuse(c, a)
    BY <2>2, <1>4 DEF Refuse
  <2> QED
    BY <2>1, <2>2
<1>8. PICK next : /\ Proceed(c, next) /\ Fine(next, a.tool, did[c])
                  /\ next = "whoami" => a.what = "me"
                  /\ next = "write" /\ a.tool = "assign" => a.what \notin DOMAIN Fits
  BY <1>7
<1>9. /\ pc'[c] = next /\ args'[c] = a
      /\ \A d \in Calls \ {c} : pc'[d] = pc[d] /\ args'[d] = args[d]
  BY <1>1, <1>8 DEF Proceed, JiraInv, Shape
<1>10. AllFine'
  BY <1>1, <1>8, <1>9 DEF RInv, AllFine
<1>11. Chosen' /\ WhoIsMe'
  BY <1>1, <1>2, <1>8, <1>9 DEF RInv, Chosen, WhoIsMe
<1> QED
  BY <1>10, <1>11 DEF RInv

(* After a restart nothing is answered any more. *)
LEMMA RestartFine == ASSUME JiraInv, RInv, Restart PROVE RInv'
<1>1. /\ UNCHANGED <<args, did, found>>
      /\ pc' = [c \in Calls |-> IF pc[c] \in Stages \ {"idle"} THEN "failed" ELSE pc[c]]
  BY DEF Restart
<1>2. ASSUME NEW c \in Calls PROVE Fine(pc'[c], args[c].tool, did[c])
  <2>1. Fine(pc[c], args[c].tool, did[c])
    BY DEF RInv, AllFine
  <2>2. CASE pc[c] \in Working
    <3>1. pc'[c] = "failed"
      BY <1>1, <2>2 DEF Working
    <3>2. /\ did[c] \subseteq Owed(args[c].tool)
          /\ "comment" \in did[c] /\ args[c].tool = "submit" => "transition" \in did[c]
      BY <2>1, FineOwes
    <3> QED
      BY <3>1, <3>2 DEF Fine, Working, Stages, Answers
  <2>3. CASE pc[c] \notin Working
    BY <1>1, <2>1, <2>3 DEF Working
  <2> QED
    BY <2>2, <2>3
<1>3. Chosen' /\ WhoIsMe'
  BY <1>1 DEF RInv, Chosen, WhoIsMe
<1> QED
  BY <1>1, <1>2, <1>3 DEF RInv, AllFine

(* Every step keeps the answers true. *)
LEMMA ReplyStep == JiraInv /\ RInv /\ [JiraNext]_jiraVars => RInv'
<1> SUFFICES ASSUME JiraInv, RInv, [JiraNext]_jiraVars PROVE RInv'
  OBVIOUS
<1>1. ASSUME NEW c \in Calls, Continues(c) PROVE RInv'
  <2>1. AtWork(c)
    BY <1>1, OneMovesOn DEF JiraInv, AllAtWork
  <2> QED
    BY <1>1, <2>1, LooksFine, ReadsFine, LookupFine, WritesFine, CommentFine, MovesFine
       DEF Continues
<1>2. ASSUME NEW c \in Calls, NEW a \in Arguments, Begin(c, a) \/ Refuse(c, a) PROVE RInv'
  BY <1>2, StartsFine
<1>3. CASE \/ \E i \in Issues : PersonTransitions(i)
           \/ \E key \in ProjectKeys : BoardChanges(key)
           \/ \E p \in Projects : Dump(p)
           \/ \E r \in References : Rotate(r)
           \/ Truncate \/ UNCHANGED jiraVars
  <2>1. UNCHANGED <<pc, args, did, found>>
    BY <1>3 DEF PersonTransitions, BoardChanges, Dump, Rotate, Truncate, Moves, Changes, calls,
                jiraVars
  <2> QED
    BY <2>1 DEF RInv, AllFine, Chosen, WhoIsMe
<1>4. CASE Restart
  BY <1>4, RestartFine
<1> QED
  BY <1>1, <1>2, <1>3, <1>4 DEF JiraNext

(* A name that is part of the user's, and of nobody else's. *)
LEMMA PickedIsPlain ==
  ASSUME NEW w \in DOMAIN Fits, NEW u \in Picked(w), Fits[w][u] = "part"
  PROVE  \A v \in Users \ {u} : Fits[w][v] = "no"
<1> DEFINE fit(how) == {v \in Users : Fits[w][v] = how}
<1>1. fit("email") = {} /\ fit("name") = {}
  BY DEF Picked
<1>2. Cardinality(fit("part")) = 1
  BY <1>1 DEF Picked
<1>3. IsFiniteSet(fit("part"))
  BY JiraAssumption, FS_Subset
<1>4. PICK x : fit("part") = {x}
  BY <1>2, <1>3, FS_Singleton
<1>5. \A v \in Users : Fits[w][v] \in {"email", "name", "part", "no"}
  BY JiraAssumption
<1>6. u \in Users
  BY <1>1 DEF Picked
<1> QED
  BY <1>1, <1>4, <1>5, <1>6

(* What a call answers is so, whatever fails on the way. *)
THEOREM TrueReplies == JiraSpec => []RepliesAreTrue
<1>1. RInv => RepliesAreTrue
  <2> SUFFICES ASSUME RInv, NEW c \in Calls
               PROVE  /\ pc[c] = "ok" => did[c] = Owed(args[c].tool)
                      /\ pc[c] = "partial" => "move" \notin did[c]
                      /\ pc[c] \in {"refused", "unconfigured", "unsupported"} => did[c] = {}
                      /\ did[c] # {} => did[c] \subseteq Owed(args[c].tool)
                      /\ "comment" \in did[c] /\ args[c].tool = "submit" => "transition" \in did[c]
                      /\ "assign" \in did[c] /\ args[c].what \in DOMAIN Fits =>
                           LET fit == Fits[args[c].what]
                           IN  fit[found[c]] = "part" => \A u \in Users \ {found[c]} : fit[u] = "no"
    BY DEF RepliesAreTrue
  <2>1. Fine(pc[c], args[c].tool, did[c])
    BY DEF RInv, AllFine
  <2>2. /\ did[c] \subseteq Owed(args[c].tool)
        /\ "comment" \in did[c] /\ args[c].tool = "submit" => "transition" \in did[c]
    BY <2>1, FineOwes
  <2>3. "assign" \in did[c] => args[c].tool = "assign"
    BY <2>2 DEF Owed, BatchTools
  <2>4. "assign" \in did[c] /\ args[c].what \in DOMAIN Fits => found[c] \in Picked(args[c].what)
    BY <2>3 DEF RInv, Chosen
  <2> QED
    BY <2>1, <2>2, <2>4, PickedIsPlain DEF Fine
<1> QED
  BY <1>1, ReplyInit, ReplyStep, JiraInvAlways, PTL DEF JiraSpec

-----------------------------------------------------------------------------
(* Types.  What an issue is. *)
IssueRecord == [status : Statuses, labels : SUBSET Labels, backlog : BOOLEAN,
                assignee : Users \cup {Nothing}, editor : Calls \cup {Nothing},
                comments : SUBSET Calls]
ProfileOrNone == {Unknown, Profile(TRUE, FALSE, Nothing)} \cup
                   {Profile(TRUE, TRUE, b) : b \in BOOLEAN \cup {Nothing}} \cup {Nothing}

(* Setting one field of an issue to a value of that field leaves an issue. *)
LEMMA FieldSet ==
  ASSUME NEW r \in IssueRecord
  PROVE  /\ \A v \in Statuses : [r EXCEPT !["status"] = v] \in IssueRecord
         /\ \A v \in SUBSET Labels : [r EXCEPT !["labels"] = v] \in IssueRecord
         /\ \A v \in BOOLEAN : [r EXCEPT !["backlog"] = v] \in IssueRecord
         /\ \A v \in Users \cup {Nothing} : [r EXCEPT !["assignee"] = v] \in IssueRecord
         /\ \A v \in Calls \cup {Nothing} : [r EXCEPT !["editor"] = v] \in IssueRecord
         /\ \A v \in SUBSET Calls : [r EXCEPT !["comments"] = v] \in IssueRecord
  BY DEF IssueRecord

(* The server starts with types. *)
LEMMA TypesInit == JiraInit => JiraTypeOK
<1> SUFFICES ASSUME JiraInit PROVE JiraTypeOK
  OBVIOUS
<1>1. \A i \in Issues : Fresh(i) \in IssueRecord
  <2>1. (CHOOSE s \in Statuses : TRUE) \in Statuses
    BY JiraAssumption
  <2> QED
    BY <2>1 DEF Fresh, IssueRecord
<1>2. issues \in [Issues -> IssueRecord]
  BY <1>1 DEF JiraInit
<1>3. vault \in [References -> Nat]
  <2>1. vault \in [References -> 1..Cardinality(References)]
    BY DEF JiraInit
  <2>2. \A n \in 1..Cardinality(References) : n \in Nat
    OBVIOUS
  <2> QED
    BY <2>1, <2>2
<1>4. /\ pc \in [Calls -> Replies] /\ shown \in [Calls -> SUBSET Issues]
      /\ \A c \in Calls : pc[c] = "idle" /\ found[c] \in Users \cup {Nothing}
  BY DEF JiraInit, Replies, Stages
<1>5. faults \in 0..MaxFaults /\ changes \in 0..MaxChanges /\ moves \in 0..MaxMoves
  <2>1. MaxFaults \in Nat /\ MaxChanges \in Nat /\ MaxMoves \in Nat
    BY JiraAssumption
  <2>2. faults = 0 /\ changes = 0 /\ moves = 0
    BY DEF JiraInit
  <2> QED
    BY <2>1, <2>2
<1>6. boardWas \in [ProjectKeys -> SUBSET Boards]
  BY DEF JiraInit
<1>7. /\ clients \in [Projects -> Client \cup {Nothing}]
      /\ secrets \in [References -> Nat \cup {Nothing}]
      /\ profiles \in [Projects -> ProfileOrNone]
      /\ fieldMaps \in [Projects -> {Nothing, "empty", "listed"}]
  BY DEF JiraInit, ProfileOrNone
<1>8. /\ registry \in [Projects -> [key : ProjectKeys, credential : References] \cup {Nothing}]
      /\ readable \in BOOLEAN /\ boards \in [ProjectKeys -> Boards]
      /\ created \subseteq Calls \X BOOLEAN
  BY DEF JiraInit
<1> QED
  BY <1>2, <1>3, <1>4, <1>5, <1>6, <1>7, <1>8 DEF JiraTypeOK, IssueRecord, ProfileOrNone

(* A call at work names an issue, if its tool is about one.                 *)
LEMMA KeyIsIssue ==
  ASSUME NEW c \in Calls, AtWork(c), args[c].tool \in SingleKeyTools \cup BatchTools
  PROVE  TheKey(c) \in Issues
<1>1. Scoped(args[c].keys, mine[c].key)
  BY DEF AtWork, KeysRefused
<1>2. args[c].keys \in Seq(Issues \cup {Nothing}) /\ args[c].keys # <<>>
  BY <1>1, JiraAssumption DEF AtWork, Scoped, CallRecord
<1>3. 1 \in DOMAIN args[c].keys
  BY <1>2
<1>4. TheKey(c) # Nothing
  BY <1>1, <1>3 DEF Scoped, TheKey, Range
<1> QED
  BY <1>2, <1>3, <1>4 DEF TheKey

(* Where a step of a call leads, and what it counts. *)
Moved(c) ==
  /\ pc'[c] \in Replies /\ faults' \in 0..MaxFaults
  /\ UNCHANGED <<readable, vault, changes, moves>>

(* A step of a call leads to a stage or an answer, and changes no            *)
(* configuration.                                                            *)
LEMMA ContinuesMoved ==
  ASSUME JiraInv, JiraTypeOK, NEW c \in Calls, Continues(c)
  PROVE  Moved(c)
<1>0. faults \in 0..MaxFaults /\ MaxFaults \in Nat
  BY JiraAssumption DEF JiraTypeOK
<1>1. \A next : Proceed(c, next) => pc'[c] = next
  BY DEF Proceed, JiraInv, Shape
<1>2. /\ Fault => faults' \in 0..MaxFaults
      /\ Unanswered(c) => faults' \in 0..MaxFaults
      /\ Answered(c) => faults' \in 0..MaxFaults
      /\ faults' = faults => faults' \in 0..MaxFaults
  BY <1>0 DEF Fault, Unanswered, Answered
<1>3. /\ \A a, p : AfterProfile(a, p) \in Replies
      /\ \A a : WithProfile(a) \in Replies
      /\ \A a : WithFields(a, "ok") \in Replies
      /\ {"write", "comment", "probe", "ok", "failed", "partial"} \subseteq Replies
  BY DEF AfterProfile, WithProfile, WithFields, Replies, Stages, Answers
<1>4. \A p : Remember(c, p) => pc'[c] \in Replies
  BY <1>1, <1>3 DEF Remember
<1>5. CASE FetchBoards(c)
  BY <1>1, <1>2, <1>3, <1>4, <1>5 DEF FetchBoards, Moved, config, jira
<1>6. CASE ProbeBacklog(c)
  BY <1>1, <1>2, <1>3, <1>4, <1>6 DEF ProbeBacklog, Moved, config, jira
<1>7. CASE IssueTypes(c)
  BY <1>1, <1>2, <1>3, <1>7 DEF IssueTypes, Moved, config, jira
<1>8. CASE FieldMap(c)
  BY <1>1, <1>2, <1>3, <1>8 DEF FieldMap, Moved, config, jira
<1>9. CASE GetTransitions(c)
  BY <1>1, <1>2, <1>3, <1>9 DEF GetTransitions, Moved, config, jira
<1>10. CASE AssignableUsers(c) \/ MyAccountId(c)
  BY <1>1, <1>2, <1>3, <1>10 DEF AssignableUsers, MyAccountId, Moved, config, jira
<1>11. CASE Read(c)
  BY <1>1, <1>2, <1>3, <1>11 DEF Read, Moved, config, jira
<1>12. CASE Write(c)
  BY <1>1, <1>2, <1>3, <1>12 DEF Write, AfterWrite, Moved, config, jiraElse
<1>13. CASE CommentOnSubmit(c)
  BY <1>1, <1>2, <1>3, <1>13 DEF CommentOnSubmit, Moved, config, jiraElse
<1>14. CASE MoveIssues(c)
  BY <1>1, <1>2, <1>3, <1>14 DEF MoveIssues, AfterMove, Moved, config, jiraElse
<1> QED
  BY <1>5, <1>6, <1>7, <1>8, <1>9, <1>10, <1>11, <1>12, <1>13, <1>14 DEF Continues

(* What it learns keeps its type. *)
LEMMA ContinuesLearns ==
  ASSUME JiraInv, JiraTypeOK, NEW c \in Calls, Continues(c)
  PROVE  /\ profiles' \in [Projects -> ProfileOrNone]
         /\ fieldMaps' \in [Projects -> {Nothing, "empty", "listed"}]
         /\ \A d \in Calls : found'[d] \in Users \cup {Nothing}
         /\ shown' \in [Calls -> SUBSET Issues]
<1>1. /\ profiles \in [Projects -> ProfileOrNone]
      /\ fieldMaps \in [Projects -> {Nothing, "empty", "listed"}]
      /\ \A d \in Calls : found[d] \in Users \cup {Nothing}
      /\ shown \in [Calls -> SUBSET Issues]
  BY DEF JiraTypeOK, ProfileOrNone
<1>2. profiles' \in [Projects -> ProfileOrNone]
  <2>1. \A p \in ProfileOrNone : Remember(c, p) => profiles' \in [Projects -> ProfileOrNone]
    BY <1>1 DEF Remember
  <2>2. /\ Unknown \in ProfileOrNone /\ Profile(TRUE, FALSE, Nothing) \in ProfileOrNone
        /\ Profile(TRUE, TRUE, ProbeFailedAs) \in ProfileOrNone
        /\ Profile(TRUE, TRUE, boards[mine[c].key] = "backlog") \in ProfileOrNone
    BY DEF ProfileOrNone, ProbeFailedAs
  <2> HIDE DEF ProfileOrNone
  <2>3. CASE FetchBoards(c)
    BY <1>1, <2>1, <2>2, <2>3 DEF FetchBoards
  <2>4. CASE ProbeBacklog(c)
    BY <1>1, <2>1, <2>2, <2>4 DEF ProbeBacklog
  <2> QED
    BY <1>1, <2>3, <2>4, SeldomChanged
<1>3. fieldMaps' \in [Projects -> {Nothing, "empty", "listed"}]
  <2>1. CASE FieldMap(c)
    BY <1>1, <2>1 DEF FieldMap
  <2>2. CASE fieldMaps' = fieldMaps
    BY <1>1, <2>2
  <2> QED
    BY <2>1, <2>2 DEF Continues, FetchBoards, ProbeBacklog, IssueTypes, GetTransitions,
      AssignableUsers, MyAccountId, Read, Write, CommentOnSubmit, MoveIssues, learnt
<1>4. \A d \in Calls : found'[d] \in Users \cup {Nothing}
  <2>1. ASSUME NEW u \in Users, found' = [found EXCEPT ![c] = u]
        PROVE  \A d \in Calls : found'[d] \in Users \cup {Nothing}
    BY <1>1, <2>1
  <2>2. Picked(args[c].what) \subseteq Users
    BY DEF Picked
  <2>3. CASE AssignableUsers(c) \/ MyAccountId(c)
    BY <1>1, <2>1, <2>2, <2>3 DEF AssignableUsers, MyAccountId
  <2>4. CASE found' = found
    BY <1>1, <2>4
  <2> QED
    BY <2>3, <2>4 DEF Continues, FetchBoards, ProbeBacklog, IssueTypes, FieldMap, GetTransitions,
      Read, Write, CommentOnSubmit, MoveIssues
<1>5. shown' \in [Calls -> SUBSET Issues]
  <2>1. CASE Read(c)
    <3>1. AtWork(c)
      BY OneMovesOn DEF JiraInv, AllAtWork
    <3>2. args[c].tool \in {"details", "comments"} => TheKey(c) \in Issues
      BY <3>1, KeyIsIssue DEF SingleKeyTools
    <3> QED
      BY <1>1, <2>1, <3>2 DEF Read, FilterForeign
  <2> QED
    BY <1>1, <2>1, SeldomChanged
<1> QED
  BY <1>2, <1>3, <1>4, <1>5

(* What it writes keeps its type. *)
LEMMA ContinuesWrites ==
  ASSUME JiraInv, WInv, JiraTypeOK, NEW c \in Calls, Continues(c)
  PROVE  issues' \in [Issues -> IssueRecord] /\ created' \subseteq Calls \X BOOLEAN
<1>0. AtWork(c)
  BY OneMovesOn DEF JiraInv, AllAtWork
<1>1. /\ issues \in [Issues -> IssueRecord] /\ created \subseteq Calls \X BOOLEAN
      /\ found[c] \in Users \cup {Nothing}
      /\ args[c] \in CallRecord
  BY <1>0, JiraAssumption DEF JiraTypeOK, IssueRecord, AtWork
<1>2. ASSUME NEW f, NEW v, Put(TheKey(c), f, v),
             TheKey(c) \in Issues => [issues[TheKey(c)] EXCEPT ![f] = v] \in IssueRecord
      PROVE  issues' \in [Issues -> IssueRecord] /\ created' \subseteq Calls \X BOOLEAN
  BY <1>1, <1>2 DEF Put
<1>3. CASE Transitions(c)
  <2>1. TheKey(c) \in Issues
    BY <1>0, <1>3, KeyIsIssue DEF Transitions, SingleKeyTools
  <2>2. Target(args[c]) \in Statuses
    BY <1>1, <1>3, <2>1, JiraAssumption DEF Transitions, IssueRecord
  <2>3. [issues[TheKey(c)] EXCEPT !["status"] = Target(args[c])] \in IssueRecord
    BY <1>1, <2>1, <2>2, FieldSet
  <2> QED
    BY <1>2, <1>3, <2>3 DEF Transitions
<1>4. CASE Assigns(c)
  <2>1. TheKey(c) \in Issues => [issues[TheKey(c)] EXCEPT !["assignee"] = found[c]] \in IssueRecord
    BY <1>1, FieldSet
  <2> QED
    BY <1>2, <1>4, <2>1 DEF Assigns
<1>5. CASE EditsLabels(c)
  <2> DEFINE new == LabelsAfter(issues[TheKey(c)].labels, args[c])
  <2>1. TheKey(c) \in Issues => new \in SUBSET Labels
    BY <1>1 DEF LabelsAfter, CallRecord, IssueRecord
  <2>2. TheKey(c) \in Issues => [issues[TheKey(c)] EXCEPT !["labels"] = new] \in IssueRecord
    BY <1>1, <2>1, FieldSet
  <2> QED
    BY <1>2, <1>5, <2>2 DEF EditsLabels
<1>6. CASE EditsText(c)
  <2>1. TheKey(c) \in Issues => [issues[TheKey(c)] EXCEPT !["editor"] = c] \in IssueRecord
    BY <1>1, FieldSet
  <2> QED
    BY <1>2, <1>6, <2>1 DEF EditsText
<1>7. CASE AddsComment(c)
  <2> DEFINE new == issues[TheKey(c)].comments \cup {c}
  <2>1. TheKey(c) \in Issues => new \in SUBSET Calls
    BY <1>1 DEF IssueRecord
  <2>2. TheKey(c) \in Issues => [issues[TheKey(c)] EXCEPT !["comments"] = new] \in IssueRecord
    BY <1>1, <2>1, FieldSet
  <2> QED
    BY <1>2, <1>7, <2>2 DEF AddsComment
<1>8. CASE Creates(c)
  <2> DEFINE dated == args[c].what = "dated" /\ fieldMaps[args[c].project] = "listed"
  <2>1. created' = created \cup {<<c, dated>>} /\ issues' = issues
    BY <1>8 DEF Creates
  <2>2. dated \in BOOLEAN
    OBVIOUS
  <2> HIDE DEF dated
  <2> QED
    BY <1>1, <2>1, <2>2
<1>9. CASE Acts(c) \/ UNCHANGED <<issues, created>>
  BY <1>1, <1>3, <1>4, <1>5, <1>6, <1>7, <1>8, <1>9 DEF Acts
<1>10. ASSUME NEW moved, MoveSome(c, moved)
       PROVE  issues' \in [Issues -> IssueRecord] /\ created' \subseteq Calls \X BOOLEAN
  <2>1. \A i \in Issues :
          [issues[i] EXCEPT !["backlog"] = (args[c].tool = "to_backlog")] \in IssueRecord
    BY <1>1, FieldSet
  <2> QED
    BY <1>1, <1>10, <2>1 DEF MoveSome
<1>11. CASE MoveIssues(c)
  BY <1>9, <1>10, <1>11 DEF MoveIssues
<1>12. CASE Write(c) \/ CommentOnSubmit(c)
  BY <1>7, <1>9, <1>12 DEF Write, CommentOnSubmit
<1> QED
  BY <1>9, <1>11, <1>12 DEF Continues, FetchBoards, ProbeBacklog, IssueTypes, FieldMap,
    GetTransitions, AssignableUsers, MyAccountId, Read, jira

(* A step of a call keeps the types. *)
LEMMA ContinuesTyped ==
  ASSUME JiraInv, WInv, JiraTypeOK, NEW c \in Calls, Continues(c)
  PROVE  JiraTypeOK'
<1>1. /\ UNCHANGED <<registry, readable, vault, changes, moves, clients, secrets, args, mine,
                     boards, boardWas>>
      /\ faults' \in 0..MaxFaults
  BY OneMovesOn, ContinuesMoved DEF JiraInv, Moved
<1>2. /\ pc' = [d \in Calls |-> pc'[d]] /\ pc[c] \in Working /\ pc'[c] \in Replies
      /\ \A d \in Calls \ {c} : pc'[d] = pc[d]
  BY OneMovesOn, ContinuesMoved DEF JiraInv, Moved
<1>3. pc' \in [Calls -> Replies]
  <2>1. \A d \in Calls : pc'[d] \in Replies
    BY <1>2 DEF JiraTypeOK
  <2> QED
    BY <1>2, <2>1
<1>4. \A d \in Calls : /\ pc'[d] # "idle" => args[d] \in Arguments
                       /\ pc'[d] \in Stages \ {"idle"} => mine[d] \in Client
  BY <1>2 DEF JiraTypeOK, Working
<1>5. /\ profiles' \in [Projects -> ProfileOrNone]
      /\ fieldMaps' \in [Projects -> {Nothing, "empty", "listed"}]
      /\ \A d \in Calls : found'[d] \in Users \cup {Nothing}
      /\ shown' \in [Calls -> SUBSET Issues]
  BY ContinuesLearns
<1>6. issues' \in [Issues -> IssueRecord] /\ created' \subseteq Calls \X BOOLEAN
  BY ContinuesWrites
<1> QED
  BY <1>1, <1>3, <1>4, <1>5, <1>6 DEF JiraTypeOK, ProfileOrNone, IssueRecord

(* A call that begins keeps the types. *)
LEMMA BeginTyped ==
  ASSUME JiraInv, JiraTypeOK, NEW c \in Calls, NEW a \in Arguments, Begin(c, a) \/ Refuse(c, a)
  PROVE  JiraTypeOK'
<1>0. /\ pc[c] = "idle" /\ args' = [args EXCEPT ![c] = a]
      /\ UNCHANGED <<registry, readable, vault, changes, profiles, fieldMaps, issues, boards, created,
                     boardWas, moves, found, shown, faults>>
  BY DEF Begin, Refuse, config, learnt, jira
<1>1. \A d \in Calls : pc'[d] # "idle" \/ d # c => (d = c \/ pc'[d] = pc[d])
  BY DEF Begin, Refuse, Proceed, JiraTypeOK
<1>2. \A d \in Calls : pc'[d] # "idle" => args'[d] \in Arguments
  <2>1. args'[c] = a /\ \A d \in Calls \ {c} : args'[d] = args[d]
    BY <1>0 DEF JiraInv, Shape
  <2> QED
    BY <1>1, <2>1 DEF JiraTypeOK
<1>3. CASE Refuse(c, a)
  <2>1. UNCHANGED <<clients, secrets, mine>> /\ pc' = [pc EXCEPT ![c] = "unconfigured"]
    BY <1>3 DEF Refuse, cached, Proceed
  <2>2. pc' \in [Calls -> Replies]
    BY <2>1 DEF JiraTypeOK, Replies, Answers
  <2>3. \A d \in Calls : pc'[d] \in Stages \ {"idle"} => mine'[d] \in Client
    BY <2>1 DEF JiraTypeOK, Stages
  <2> QED
    BY <1>0, <1>2, <2>1, <2>2, <2>3 DEF JiraTypeOK
<1>4. CASE Begin(c, a)
  <2> DEFINE p == a.project
             client == ClientFor(p)
  <2>1. /\ p \in Projects /\ client # Nothing
        /\ mine' = [mine EXCEPT ![c] = client] /\ clients' = [clients EXCEPT ![p] = client]
        /\ secrets' = IF clients[p] # Nothing THEN secrets
                      ELSE [secrets EXCEPT ![registry[p].credential] = client.token]
    BY <1>4, JiraAssumption DEF Begin, CallRecord
  <2>2. client \in Client /\ client.token \in Nat
    <3>1. CASE clients[p] # Nothing
      BY <2>1, <3>1 DEF ClientFor, JiraTypeOK, Client
    <3>2. CASE clients[p] = Nothing
      <4>1. /\ registry[p] # Nothing
            /\ client = [key |-> registry[p].key,
                         token |-> Resolve(registry[p].credential)]
            /\ Resolve(registry[p].credential) # Nothing
        BY <2>1, <3>2 DEF ClientFor
      <4>2. registry[p] \in [key : ProjectKeys, credential : References]
        BY <2>1, <4>1 DEF JiraTypeOK
      <4>3. registry[p].key \in ProjectKeys /\ registry[p].credential \in References
        BY <4>2
      <4>4. Resolve(registry[p].credential) \in Nat
        BY <4>1, <4>3 DEF Resolve, JiraTypeOK
      <4> QED
        BY <4>1, <4>3, <4>4 DEF Client
    <3> QED
      BY <3>1, <3>2
  <2> HIDE DEF client
  <2>3. clients' \in [Projects -> Client \cup {Nothing}]
    BY <2>1, <2>2 DEF JiraTypeOK
  <2>4. secrets' \in [References -> Nat \cup {Nothing}]
    BY <2>1, <2>2 DEF JiraTypeOK
  <2>5. \A d \in Calls : pc'[d] \in Stages \ {"idle"} => mine'[d] \in Client
    <3>1. mine'[c] = client /\ \A d \in Calls \ {c} : mine'[d] = mine[d]
      BY <2>1 DEF JiraInv, Shape
    <3> QED
      BY <1>1, <2>2, <3>1 DEF JiraTypeOK
  <2>6. pc' \in [Calls -> Replies]
    <3>1. FirstStep(a) \in Replies /\ "refused" \in Replies
      BY DEF FirstStep, WithProfile, WithFields, AfterProfile, Replies, Stages, Answers
    <3>2. PICK next \in Replies : Proceed(c, next)
      BY <1>4, <3>1 DEF Begin
    <3> QED
      BY <3>2 DEF Proceed, JiraTypeOK
  <2> QED
    BY <1>0, <1>2, <2>3, <2>4, <2>5, <2>6 DEF JiraTypeOK
<1> QED
  BY <1>3, <1>4

(* Whoever works around the server keeps the types. *)
LEMMA AroundTyped ==
  ASSUME JiraTypeOK,
         \/ \E i \in Issues : PersonTransitions(i)
         \/ \E key \in ProjectKeys : BoardChanges(key)
         \/ \E p \in Projects : Dump(p)
         \/ \E r \in References : Rotate(r)
         \/ Truncate \/ Restart \/ UNCHANGED jiraVars
  PROVE  JiraTypeOK'
<1>0. /\ Moves => moves' \in 0..MaxMoves
      /\ Changes => changes' \in 0..MaxChanges
  <2>1. moves \in 0..MaxMoves /\ changes \in 0..MaxChanges
    BY DEF JiraTypeOK
  <2>2. MaxMoves \in Nat /\ MaxChanges \in Nat
    BY JiraAssumption
  <2> QED
    BY <2>1, <2>2 DEF Moves, Changes
<1>1. ASSUME NEW i \in Issues, PersonTransitions(i) PROVE JiraTypeOK'
  <2>1. issues \in [Issues -> IssueRecord]
    BY DEF JiraTypeOK, IssueRecord
  <2>2. PICK s \in Workflow[issues[i].status] : Put(i, "status", s)
    BY <1>1 DEF PersonTransitions
  <2>3. issues[i].status \in Statuses
    BY <2>1 DEF IssueRecord
  <2>4. s \in Statuses
    BY <2>2, <2>3, JiraAssumption
  <2>5. [issues[i] EXCEPT !["status"] = s] \in IssueRecord
    BY <2>1, <2>4, FieldSet
  <2>6. issues' \in [Issues -> IssueRecord] /\ created' = created
    BY <2>1, <2>2, <2>5 DEF Put
  <2>7. /\ UNCHANGED <<registry, readable, vault, changes, clients, secrets, profiles, fieldMaps, boards,
                       boardWas, pc, args, mine, found, shown, faults>>
        /\ moves' \in 0..MaxMoves
    BY <1>0, <1>1 DEF PersonTransitions, Moves, config, cached, learnt, calls
  <2> QED
    BY <2>6, <2>7 DEF JiraTypeOK, IssueRecord
<1>2. ASSUME NEW key \in ProjectKeys, BoardChanges(key) PROVE JiraTypeOK'
  <2>1. PICK b \in Boards : /\ boards' = [boards EXCEPT ![key] = b]
                            /\ boardWas' = [boardWas EXCEPT ![key] = @ \cup {b}]
    BY <1>2 DEF BoardChanges
  <2>2. boards' \in [ProjectKeys -> Boards] /\ boardWas' \in [ProjectKeys -> SUBSET Boards]
    BY <2>1 DEF JiraTypeOK
  <2>3. /\ UNCHANGED <<registry, readable, vault, changes, clients, secrets, profiles, fieldMaps, issues,
                       created, pc, args, mine, found, shown, faults>>
        /\ moves' \in 0..MaxMoves
    BY <1>0, <1>2 DEF BoardChanges, Moves, config, cached, learnt, calls
  <2> QED
    BY <2>2, <2>3 DEF JiraTypeOK
<1>3. ASSUME NEW p \in Projects, Dump(p) PROVE JiraTypeOK'
  <2>1. registry' \in [Projects -> [key : ProjectKeys, credential : References] \cup {Nothing}]
        /\ readable' \in BOOLEAN
    BY <1>3 DEF Dump, JiraTypeOK
  <2>2. UNCHANGED <<vault, changes, clients, secrets, profiles, fieldMaps, issues, boards, created,
                    boardWas, moves, pc, args, mine, found, shown, faults>>
    BY <1>3 DEF Dump, cached, learnt, calls, jira
  <2> QED
    BY <2>1, <2>2 DEF JiraTypeOK
<1>4. ASSUME NEW r \in References, Rotate(r) PROVE JiraTypeOK'
  <2>1. changes' \in 0..MaxChanges
    BY <1>0, <1>4 DEF Rotate
  <2>2. Cardinality(References) + changes' \in Nat
    <3>1. IsFiniteSet(References) /\ MaxChanges \in Nat
      BY JiraAssumption
    <3>2. Cardinality(References) \in Nat
      BY <3>1, FS_CardinalityType
    <3> QED
      BY <2>1, <3>1, <3>2
  <2>3. vault' \in [References -> Nat]
    BY <1>4, <2>2 DEF Rotate, JiraTypeOK
  <2>4. UNCHANGED <<registry, readable, clients, secrets, profiles, fieldMaps, issues, boards, created,
                    boardWas, moves, pc, args, mine, found, shown, faults>>
    BY <1>4 DEF Rotate, Changes, cached, learnt, calls, jira
  <2> QED
    BY <2>1, <2>3, <2>4 DEF JiraTypeOK
<1>5. CASE Truncate
  <2>1. changes' \in 0..MaxChanges /\ readable' \in BOOLEAN
    BY <1>0, <1>5 DEF Truncate
  <2>2. UNCHANGED <<registry, vault, clients, secrets, profiles, fieldMaps, issues, boards, created,
                    boardWas, moves, pc, args, mine, found, shown, faults>>
    BY <1>5 DEF Truncate, Changes, cached, learnt, calls, jira
  <2> QED
    BY <2>1, <2>2 DEF JiraTypeOK
<1>6. CASE Restart
  <2>1. changes' \in 0..MaxChanges
    BY <1>0, <1>6 DEF Restart
  <2>2. /\ clients' \in [Projects -> Client \cup {Nothing}]
        /\ secrets' \in [References -> Nat \cup {Nothing}]
        /\ profiles' \in [Projects -> ProfileOrNone]
        /\ fieldMaps' \in [Projects -> {Nothing, "empty", "listed"}]
    BY <1>6 DEF Restart, ProfileOrNone
  <2>3. /\ pc' \in [Calls -> Replies]
        /\ \A c \in Calls : /\ pc'[c] # "idle" => pc[c] # "idle"
                            /\ pc'[c] \notin Stages \ {"idle"}
    BY <1>6 DEF Restart, JiraTypeOK, Replies, Stages, Answers
  <2>4. UNCHANGED <<registry, readable, vault, issues, boards, created, boardWas, moves, args, mine,
                    found, shown, faults>>
    BY <1>6 DEF Restart, Changes, jira
  <2> QED
    BY <2>1, <2>2, <2>3, <2>4 DEF JiraTypeOK, ProfileOrNone
<1>7. CASE UNCHANGED jiraVars
  BY <1>7 DEF jiraVars, config, cached, learnt, jira, JiraTypeOK
<1> QED
  BY <1>1, <1>2, <1>3, <1>4, <1>5, <1>6, <1>7

(* Every variable of the server keeps its type, for any number of calls,    *)
(* projects, issues and users.                                              *)
THEOREM JiraTypeCorrect == JiraSpec => []JiraTypeOK
<1>1. JiraInv /\ WInv /\ JiraTypeOK /\ [JiraNext]_jiraVars => JiraTypeOK'
  <2> SUFFICES ASSUME JiraInv, WInv, JiraTypeOK, [JiraNext]_jiraVars PROVE JiraTypeOK'
    OBVIOUS
  <2>1. ASSUME NEW c \in Calls, Continues(c) PROVE JiraTypeOK'
    BY <2>1, ContinuesTyped
  <2>2. ASSUME NEW c \in Calls, NEW a \in Arguments, Begin(c, a) \/ Refuse(c, a) PROVE JiraTypeOK'
    BY <2>2, BeginTyped
  <2> QED
    BY <2>1, <2>2, AroundTyped DEF JiraNext
<1>2. JiraSpec => []WInv
  BY WriteInit, WriteStep, JiraInvAlways, PTL DEF JiraSpec
<1> QED
  BY <1>1, <1>2, TypesInit, JiraInvAlways, PTL DEF JiraSpec
=============================================================================
