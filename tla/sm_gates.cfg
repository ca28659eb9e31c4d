SPECIFICATION FairSpec
CONSTANTS
  N = 2
  Parts <- MCParts
  CfgSkip = {}
  CfgHuman = {0}
  CfgReview = {1}
  ReviewOn = TRUE
  Master = TRUE
  Parallel = FALSE
  ForceArgs = {0}
  SkipArgs <- NoArgs
  UnskipArgs <- NoArgs
  SkipCmds = {0}
  HumanCmds = {1}
  ReviewCmds = {1}
  GotoArgs <- AllStages
  MaxStarts = 2
INVARIANTS ClosesWhatItChecked ReviewDecides
PROPERTIES GatesHold MissionEnds
