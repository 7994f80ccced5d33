SPECIFICATION DebuggedSpec
CONSTANTS
  WordMod = 1024
  Reg = {0, 1, 2}
  DMem = {0, 4}
  Programs <- AllPrograms
  DebugReqs <- DebugRequests
  PreciseDataFaults = FALSE
  Resets = FALSE
INVARIANTS TypeOK UnitsServeStage2 FetchOutstanding
PROPERTIES ImplementsISA OneRequestAtATime
CHECK_DEADLOCK FALSE
