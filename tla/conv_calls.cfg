SPECIFICATION LiveSpec
CONSTANTS
  CallIds <- MCCallIds
  SkillCalls <- MCSkillCalls
  MaxKeep = 4
  TailKeep = 2
  MaxFaults = 1
  MaxOrders = 2
  MaxReads = 1
  MaxLength = 12
INVARIANTS CallsHaveAnswers SkillsKept ContextBounded
PROPERTIES ModelIsReached
CHECK_DEADLOCK FALSE
