SPECIFICATION LiveSpec
CONSTANTS
  Agents = {a1}
  Requests = {r1, r2}
  Monitor = Monitor
  Main = Main
  MaxClients = 1
  MaxEvents = 2
INVARIANTS ExitSticks FileReadable RemovedApart
PROPERTIES RemovalSaved RemovedIsTold
CHECK_DEADLOCK FALSE
