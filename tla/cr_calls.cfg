SPECIFICATION RunSpec
CONSTANTS
  Calls = {check, complete, again}
  N = 2
  MinFail = 2
  Kills = 1
SYMMETRY CallSymmetry
INVARIANTS PassIsEarned NoCheckerLockedOut
PROPERTIES HelpAfterRow
