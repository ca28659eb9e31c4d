SPECIFICATION RunSpec
CONSTANTS
  Calls = {check, complete}
  N = 1
  MinFail = 1
  Kills = 0
INVARIANTS EveryPassIsEarned
