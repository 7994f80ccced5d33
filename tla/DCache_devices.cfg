SPECIFICATION FairSpec
CONSTANTS
  Tag = {"t1", "t2"}
  IOTag = {"io", "io2"}
  Set = {1}
  Off <- OneWord
  Lane <- OneLane
  Value = {0, 1}
  Mapped = {"t1", "io"}
  Misaligned = {FALSE}
  ReqSlots = 2
  RspSlots = 1
  CtrMod = 4
  Resets = FALSE
  PreciseFaults = FALSE
PROPERTIES ImplementsMemory Answered
