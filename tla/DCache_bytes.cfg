SPECIFICATION Spec
CONSTANTS
  Tag = {"t1"}
  IOTag = {}
  Set = {1}
  Off <- OneWord
  Lane <- TwoLanes
  Value = {0, 1}
  Mapped = {"t1"}
  Misaligned = {TRUE, FALSE}
  ReqSlots = 2
  RspSlots = 1
  CtrMod = 4
  Resets = FALSE
  PreciseFaults = FALSE
PROPERTIES ImplementsMemory
