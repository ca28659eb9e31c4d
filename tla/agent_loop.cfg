SPECIFICATION LiveSpec
CONSTANTS
  Threads = {main, t1, t2}
  Main = main
  Loopers = {t1}
  External = external
  MaxRetry = 2
  MaxEvents = 1
INVARIANTS OnlyChosenBreak
PROPERTIES QuitAfterRound ExitEnds CommandsEnd
CHECK_DEADLOCK FALSE
