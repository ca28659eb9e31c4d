SPECIFICATION Spec
CONSTANTS
  Calls <- SixCalls
  Tools <- FourTools
  Paths <- TwoPaths
  Tool <- SixTools
  Args <- SixArgs
  Mcp <- FromMcp
  Disabled <- OnlyOff
  Cancels = TRUE
INVARIANTS InProgressApart OnlyCollectedLocksLost
