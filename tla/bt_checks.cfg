SPECIFICATION FairSpec
CONSTANTS
  Items <- TwoItems
  BatchSizes = {1, 2}
  Given <- AllLists
  MiniInputs = 2
  MaxStarts = 2
INVARIANTS OnlyReported
PROPERTIES PassMeansDone BatchKept StableWorkPasses
