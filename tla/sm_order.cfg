SPECIFICATION Spec
CONSTANTS
  N = 3
  Parts <- MCParts
  CfgSkip = {}
  CfgHuman = {}
  CfgReview = {}
  ReviewOn = FALSE
  Master = TRUE
  Parallel = FALSE
  ForceArgs = {0, 2}
  SkipArgs <- FirstStage
  UnskipArgs <- LastStage
  SkipCmds = {1, 2}
  HumanCmds = {}
  ReviewCmds = {}
  GotoArgs <- GotoIndices
  MaxStarts = 2
INVARIANTS NothingOvertaken SavedAccounted
PROPERTIES ExitAccounted ImplementsMission
