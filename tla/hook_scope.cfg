SPECIFICATION HookSpec
CONSTANTS
  CommandKinds = {"ls", "cd hooks", "rm"}
  Joints = {";"}
  Policy = {}
  MaxTokens = 8
INVARIANT SubshellReverts
CHECK_DEADLOCK FALSE
