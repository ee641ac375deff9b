----------------------------- MODULE SkillInstall -----------------------------
(***************************************************************************)
(* core/install.py and core/install_extras.py: `drunken-install skills`,   *)
(* `agents` and `extras` write the packaged files into ~/.claude one by    *)
(* one, each swapped in whole, and `--prune-apply` removes what has been   *)
(* retired.  A run may die or fail between any two steps; a person edits   *)
(* the same folders, and plants links in them, at any time.                *)
(***************************************************************************)
EXTENDS Naturals, FiniteSets

CONSTANTS Core,         \* names of the packaged skills
          Extras,       \* of the optional ones, of the drunken-extras plugin
          External,     \* names listed in .external
          Retired,      \* names on retired_skills.txt
          Names,        \* all folder names there may be
          Roles, Needs, \* packaged agents, and the skill each needs
          ExtraRoles,   \* the optional agents
          Files,        \* files of a skill, SkillMd the one that makes it a skill
          SkillMd,
          NoFile,
          MaxEdits, MaxFailures   \* bounds: a person's steps; deaths and failures

Texts == {"packaged", "earlier", "own"}    \* "earlier": of another release
Targets == (Names \X Files) \cup ((Roles \cup ExtraRoles) \X {"agent"})

ASSUME SkillsAssumption ==
  /\ Core \cup Extras \cup External \cup Retired \subseteq Names
  /\ Needs \in [Roles -> Core] /\ SkillMd \in Files /\ Roles \cap ExtraRoles = {}
  /\ NoFile \notin Texts \cup {"link"} \cup Targets /\ "agent" \notin Files
  /\ MaxEdits \in Nat /\ MaxFailures \in Nat

VARIABLES folder,       \* "absent", "dir" or "link"
          text,         \* the files of each, behind its link if it is one
          agent,        \* the agent files, or "link"
          index,        \* INDEX.md of the skills
          command,      \* what is running, or "none"
          prune,        \* --prune --prune-apply
          phase,        \* "write", "swap", "list", "prune"
          files,        \* what is planned and still to be written
          leftAlone,    \* core skills the plan refuses
          orphaned,     \* _find_orphans
          chosen,       \* the file that was found safe to write
          edits, failures,
          touched,      \* history: skills and agents a person has touched since the plan
          planted,      \* history: links planted since the file to write was checked
          complete,     \* history: the last `skills` run got through, and nobody has
                        \* touched the skills since
          installed     \* history: the agents that a run has written, and nobody touched since

onDisk == <<folder, text, agent, index>>
running == <<command, prune, phase, files, leftAlone, orphaned, chosen>>
counted == <<edits, failures>>
seen == <<touched, planted, complete, installed>>
skillVars == <<onDisk, running, counted, seen>>

-----------------------------------------------------------------------------
(* _installed_names: a link counts as installed whatever is behind it. *)
InstalledNames == {n \in Names : \/ folder[n] = "link"
                                 \/ folder[n] = "dir" /\ text[n][SkillMd] # NoFile}

(* _plan_skill: what differs by content.  Nothing of a link. *)
PlanMissing(n) == {f \in Files : text[n][f] = NoFile}     \* slip: what is there is not compared
PlanSkill(n) ==
  IF folder[n] = "link" THEN {} ELSE {f \in Files : text[n][f] # "packaged"}
(* _plan_skill_action of the extras: what is missing, never what differs. *)
PlanExtra(n) == IF folder[n] = "link" THEN {} ELSE {f \in Files : text[n][f] = NoFile}

(* A file to be written: of a skill, or an agent's. *)
OfSkills == UNION {{<<n, f>> : f \in PlanSkill(n)} : n \in Core}
OfExtras(only) == UNION {{<<n, f>> : f \in PlanExtra(n)} : n \in only \cap Extras}
OfAgents(roles) == {<<r, "agent">> : r \in roles}

Start(what, planned, flag) ==
  /\ command = "none" /\ command' = what
  /\ prune' = flag /\ files' = planned
  /\ leftAlone' = {n \in Core : folder[n] = "link"}
  /\ phase' = "write" /\ orphaned' = {}
  /\ touched' = {} /\ planted' = {}
  /\ UNCHANGED <<onDisk, chosen, counted, complete, installed>>

InstallSkills(flag) == Start("skills", OfSkills, flag)

(* _agents_problems: all of the skills that the roles need, or nothing. *)
GatedByFolder == \A r \in Roles : folder[Needs[r]] # "absent"   \* slip: any folder will do
Gated == \A r \in Roles : text[Needs[r]][SkillMd] # NoFile
InstallAgents ==
  /\ Gated
  /\ Start("agents", OfAgents({r \in Roles : agent[r] \notin {"packaged", "link"}}), FALSE)

InstallExtras(only) ==
  Start("extras", OfExtras(only) \cup
                  OfAgents({r \in only \cap ExtraRoles : agent[r] = NoFile}), FALSE)

-----------------------------------------------------------------------------
Ends == /\ command' = "none" /\ phase' = "write" /\ files' = {} /\ orphaned' = {}
        /\ chosen' = NoFile /\ prune' = FALSE /\ leftAlone' = {}
Fails ==
  /\ command # "none" /\ failures < MaxFailures /\ failures' = failures + 1
  /\ Ends /\ UNCHANGED <<onDisk, edits, seen>>

IsLink(x) == IF x[2] = "agent" THEN agent[x[1]] = "link" ELSE folder[x[1]] = "link"

(* _assert_inside, mkdir, and _assert_inside again. *)
CheckFile(x) ==
  /\ phase = "write" /\ x \in files /\ ~IsLink(x)
  /\ phase' = "swap" /\ chosen' = x /\ planted' = {}
  /\ folder' = IF x[2] = "agent" THEN folder ELSE [folder EXCEPT ![x[1]] = "dir"]
  /\ UNCHANGED <<text, agent, index, command, prune, files, leftAlone, orphaned, counted,
                 touched, complete, installed>>

(* "Became a link while installing": the run stops there. *)
RefuseLink(x) ==
  /\ phase = "write" /\ x \in files /\ IsLink(x)
  /\ Ends /\ UNCHANGED <<onDisk, counted, seen>>

(* os.replace of a temporary file in the same folder. *)
SwapIn ==
  /\ phase = "swap"
  /\ LET x == chosen
     IN  /\ IF x[2] = "agent"
            THEN /\ agent' = [agent EXCEPT ![x[1]] = "packaged"] /\ UNCHANGED text
                 /\ installed' = IF x[1] \in Roles /\ Needs[x[1]] \notin touched
                                 THEN installed \cup {x[1]} ELSE installed
            ELSE /\ folder[x[1]] # "absent"
                 /\ text' = [text EXCEPT ![x[1]][x[2]] = "packaged"]
                 /\ UNCHANGED <<agent, installed>>
         /\ files' = files \ {x}
  /\ phase' = "write" /\ chosen' = NoFile
  /\ UNCHANGED <<folder, index, command, prune, leftAlone, orphaned, counted, touched, planted,
                 complete>>

(* The folder went away: mkstemp or os.replace fails, and the run with it. *)
SwapFails ==
  /\ phase = "swap" /\ chosen[2] # "agent" /\ folder[chosen[1]] = "absent"
  /\ Ends /\ UNCHANGED <<onDisk, counted, seen>>

(* _sync_index.  The other two commands end here: agents write an index of  *)
(* their own, which is like another agent's file.                           *)
SyncIndex ==
  /\ command = "skills" /\ phase = "write" /\ files = {}
  /\ index' = "packaged" /\ phase' = "list"
  /\ UNCHANGED <<folder, text, agent, command, prune, files, leftAlone, orphaned, chosen, counted,
                 seen>>
Finish ==
  /\ command \in {"agents", "extras"} /\ phase = "write" /\ files = {}
  /\ Ends /\ UNCHANGED <<onDisk, counted, seen>>

(* _find_orphans, retired ones only: what --prune is about. *)
OrphansWithExtras == (InstalledNames \cap Retired) \ (Core \cup External)   \* slip: DG-514
Orphans == (InstalledNames \cap Retired) \ (Core \cup External \cup Extras)
ListOrphans ==
  /\ phase = "list"
  /\ orphaned' = IF prune THEN Orphans ELSE {}
  /\ phase' = "prune"
  /\ complete' = (touched \cap Core = {} /\ leftAlone = {})
  /\ UNCHANGED <<onDisk, command, prune, files, leftAlone, chosen, counted, touched, planted,
                 installed>>

(* _prune: rmtree, file by file, of a folder that is no link. *)
RemoveFile(n, f) ==
  /\ phase = "prune" /\ n \in orphaned /\ folder[n] = "dir" /\ text[n][f] # NoFile
  /\ text' = [text EXCEPT ![n][f] = NoFile]
  /\ UNCHANGED <<folder, agent, index, running, counted, seen>>
RemoveFolder(n) ==
  /\ phase = "prune" /\ n \in orphaned
  /\ folder[n] = "dir" => \A f \in Files : text[n][f] = NoFile
  /\ folder' = [folder EXCEPT ![n] = IF @ = "dir" THEN "absent" ELSE @]
  /\ orphaned' = orphaned \ {n}
  /\ UNCHANGED <<text, agent, index, command, prune, phase, files, leftAlone, chosen, counted, seen>>
FinishSkills ==
  /\ phase = "prune" /\ orphaned = {}
  /\ Ends /\ UNCHANGED <<onDisk, counted, seen>>

-----------------------------------------------------------------------------
(* The person. *)
Touches(x) ==
  /\ edits < MaxEdits /\ edits' = edits + 1
  /\ touched' = touched \cup {x} /\ complete' = (complete /\ x \notin Core)
  /\ installed' = installed \ ({x} \cup {r \in Roles : Needs[r] = x})
  /\ UNCHANGED <<index, running, failures>>
EditFile(n, f) ==
  /\ Touches(n) /\ folder[n] = "dir"
  /\ \E t \in {"own", NoFile} \ {text[n][f]} : text' = [text EXCEPT ![n][f] = t]
  /\ UNCHANGED <<folder, agent, planted>>
EditAgent(r) ==
  /\ Touches(r) /\ \E t \in {"own", "link", NoFile} \ {agent[r]} :
       /\ agent' = [agent EXCEPT ![r] = t]
       /\ planted' = IF t = "link" THEN planted \cup {r} ELSE planted
  /\ UNCHANGED <<folder, text>>
RemoveSkill(n) ==
  /\ Touches(n) /\ folder[n] # "absent"
  /\ folder' = [folder EXCEPT ![n] = "absent"]
  /\ text' = [text EXCEPT ![n] = [f \in Files |-> NoFile]]
  /\ UNCHANGED <<agent, planted>>
PlantLink(n) ==
  /\ Touches(n) /\ folder[n] # "link" /\ planted' = planted \cup {n}
  /\ folder' = [folder EXCEPT ![n] = "link"]
  /\ text' = [text EXCEPT ![n] = [f \in Files |-> "own"]]
  /\ UNCHANGED agent

Edited ==
  \/ \E n \in Names : \/ RemoveSkill(n) \/ PlantLink(n)
                      \/ \E f \in Files : EditFile(n, f)
  \/ \E r \in Roles \cup ExtraRoles : EditAgent(r)
Installs ==
  \/ \E flag \in BOOLEAN : InstallSkills(flag)
  \/ InstallAgents \/ \E only \in SUBSET (Extras \cup ExtraRoles) : InstallExtras(only)
  \/ \E x \in files : CheckFile(x) \/ RefuseLink(x)
  \/ SwapIn \/ SwapFails \/ SyncIndex \/ Finish \/ ListOrphans \/ FinishSkills
  \/ \E n \in orphaned : \/ RemoveFolder(n)
                         \/ \E f \in Files : RemoveFile(n, f)

SkillInit ==
  /\ folder \in [Names -> {"absent", "dir", "link"}]
  /\ text \in [Names -> [Files -> {"packaged", "earlier", "own", NoFile}]]
  /\ \A n \in Names : folder[n] = "absent" => \A f \in Files : text[n][f] = NoFile
  /\ agent \in [Roles \cup ExtraRoles -> {"packaged", "earlier", "own", "link", NoFile}]
  /\ index \in {"earlier", NoFile}
  /\ command = "none" /\ prune = FALSE /\ phase = "write" /\ files = {} /\ leftAlone = {}
  /\ orphaned = {} /\ chosen = NoFile /\ edits = 0 /\ failures = 0
  /\ touched = {} /\ planted = {} /\ complete = FALSE /\ installed = {}
SkillNext == Installs \/ Fails \/ Edited
SkillSpec == SkillInit /\ [][SkillNext]_skillVars

-----------------------------------------------------------------------------
SkillTypeOK ==
  /\ folder \in [Names -> {"absent", "dir", "link"}]
  /\ text \in [Names -> [Files -> Texts \cup {NoFile}]]
  /\ agent \in [Roles \cup ExtraRoles -> Texts \cup {"link", NoFile}]
  /\ index \in {"packaged", "earlier", NoFile}
  /\ command \in {"none", "skills", "agents", "extras"} /\ prune \in BOOLEAN
  /\ phase \in {"write", "swap", "list", "prune"} /\ (phase = "swap" <=> chosen \in Targets)
  /\ files \subseteq Targets /\ chosen \in files \cup {NoFile}
  /\ command = "none" => phase = "write" /\ files = {}
  /\ leftAlone \subseteq Core /\ orphaned \subseteq Names
  /\ edits \in 0..MaxEdits /\ failures \in 0..MaxFailures
  /\ complete \in BOOLEAN /\ installed \subseteq Roles
  /\ \A n \in Names : folder[n] = "absent" => \A f \in Files : text[n][f] = NoFile

(* "Installed or up to date": once a run over the skills gets through,      *)
(* whatever died before it, every packaged file is there as it is packaged, *)
(* and stays so until a person changes it - through later runs of every     *)
(* kind, those that prune and those that die among them.                    *)
ShippedWhenDone ==
  complete => /\ index = "packaged"
              /\ \A n \in Core, f \in Files : text[n][f] = "packaged"

(* Nothing but its own: a run writes packaged files over the folders of the *)
(* skills and agents it ships, an extra only where there was no file when   *)
(* it planned, never through a link but one planted since it looked; and    *)
(* removes only names that are retired and shipped by nobody any more, when *)
(* it was told to.                                                          *)
MayWrite(n, f) ==
  /\ chosen = <<n, f>>
  /\ folder[n] = "link" => n \in planted
  /\ \/ command = "skills" /\ n \in Core
     \/ command = "extras" /\ n \in Extras /\ (text[n][f] = NoFile \/ n \in touched)
MayRemove(n) ==
  /\ command = "skills" /\ prune /\ folder[n] = "dir"
  /\ n \in Retired \ (Core \cup Extras \cup External)
OnlyOwnFiles ==
  [][edits' = edits =>
       /\ \A n \in Names, f \in Files :
            text'[n][f] # text[n][f] =>
              IF text'[n][f] = "packaged" THEN MayWrite(n, f) ELSE MayRemove(n)
       /\ \A n \in Names : folder[n] = "link" => folder'[n] = "link"
       /\ \A r \in Roles \cup ExtraRoles :
            agent'[r] # agent[r] =>
              /\ agent'[r] = "packaged"
              /\ agent[r] = "link" => r \in planted
              /\ r \in ExtraRoles => agent[r] = NoFile \/ r \in touched]_skillVars

(* "Needs their skills installed first": an agent that a run has written    *)
(* has its skill beside it until a person removes one of the two, whatever  *)
(* is installed, pruned or cut short later.                                 *)
AgentsHaveSkills ==
  \A r \in installed : agent[r] = "packaged" /\ text[Needs[r]][SkillMd] # NoFile
=============================================================================
