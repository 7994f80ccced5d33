SPECIFICATION Spec
CONSTANTS
    AddrMod = 256
    Window = 64
    MemSize = 16
    Slots = 2
    Envs <- McDescending
INVARIANT ImageInMemory
CHECK_DEADLOCK FALSE
