SPECIFICATION Spec
CONSTANTS
  WordMod = 1024
  Reg = {0, 1, 2}
  DMem = {0, 4}
  Programs <- FaultPrograms
  DebugReqs <- JustContinue
  PreciseDataFaults = TRUE
  Resets = FALSE
PROPERTIES ImplementsISA
CHECK_DEADLOCK FALSE
