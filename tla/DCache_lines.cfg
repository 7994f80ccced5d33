SPECIFICATION Spec
CONSTANTS
  Tag = {"t1", "t2"}
  IOTag = {}
  Set = {1}
  Off <- TwoWords
  Lane <- OneLane
  Value = {0, 1}
  Mapped = {"t1", "t2"}
  Misaligned = {FALSE}
  ReqSlots = 2
  RspSlots = 1
  CtrMod = 4
  Resets = FALSE
  PreciseFaults = TRUE
INVARIANTS TypeOK LinesCurrent CreditsMatch ReadsWanted
PROPERTIES ImplementsMemory
