SPECIFICATION FairSpec
CONSTANTS
  Calls <- FiveCalls
  Tools <- FourTools
  Paths <- TwoPaths
  Tool <- FiveTools
  Args <- FiveArgs
  Mcp <- FromMcp
  Disabled <- NoCalls
  Cancels = FALSE
INVARIANTS ConflictsSerialized LocksReturned BeatHasCall
PROPERTIES CallsAreAnswered
