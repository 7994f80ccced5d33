SPECIFICATION FairSpec
CONSTANTS
  WordMod = 1024
  Reg = {0, 1, 2}
  DMem = {0, 4}
  Programs <- ResetPrograms
  DebugReqs <- JustContinue
  PreciseDataFaults = FALSE
  Resets = TRUE
PROPERTIES ImplementsISA InstructionActs
CHECK_DEADLOCK FALSE
