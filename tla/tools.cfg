SPECIFICATION ToolsSpec
CONSTANTS
  Pids <- PidsOfBoth
  Self = 6
  Trees <- Desktops
  Gone = Gone
  MaxExits = 1
  MaxStarts = 1
  c1 = c1
  c2 = c2
  Calls = {c1, c2}
  Nothing = Nothing
  Arguments <- CallArguments
  Projects = {"dg"}
  ProjectKeys = {"DG", "BETA"}
  Issues = {"DG-1", "BETA-1"}
  KeyOf <- ProjectOf
  References = {"r1"}
  Statuses = {"To Do", "In Progress", "In Review"}
  Workflow <- FlowOf
  Labels = {"a", "b"}
  Users = {"u1", "u2"}
  Fits <- FitsOf
  MaxFaults = 1
  MaxChanges = 1
  MaxMoves = 1
  Core = {"git"}
  Extras = {"uml"}
  External = {}
  Retired = {"old", "uml"}
  Names = {"git", "uml", "old"}
  Roles = {"dev"}
  ExtraRoles = {"ops"}
  Needs <- NeedsOf
  Files = {"SKILL.md", "more"}
  SkillMd = "SKILL.md"
  NoFile = NoFile
  MaxEdits = 1
  MaxFailures = 1
  MaxDefects = 2
  CommandKinds = {"commit -n", "export", "cd custom", "cd ..", "rm", "cat hooks", "xargs rm"}
  Joints = {";", "|"}
  Policy = {"other file"}
  MaxTokens = 8
SYMMETRY Symmetric
INVARIANTS ToolsTypeOK ReportIsTrue RepliesAreTrue NoInventedLimit OneIdentity NothingForeign
  ShippedWhenDone AgentsHaveSkills NoFalseOk InVainOnlyIfLeft JudgedAsRun
PROPERTIES OnlyPlanned SessionSpared OnlyAsAsked OnlyOwnFiles
CHECK_DEADLOCK FALSE
