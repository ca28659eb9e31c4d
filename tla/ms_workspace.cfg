SPECIFICATION LiveSpec
CONSTANTS
  MaxEvents = 3
INVARIANTS KeepsWorkspace CompiledIsThere
PROPERTIES AbandonedGoes
