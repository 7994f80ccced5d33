SPECIFICATION Spec
CONSTANTS
    Initiators <- McInitiators
    Targets <- McTargets
    Lines <- McLines
    MemLines <- McMemLines
    DeviceLines <- McDeviceLines
    Slots = 2
    Registers <- McRegisters
    Thr <- McThr
    Lcr <- McLcr
    HighBit <- McHighBit
    Off <- McOff
    Lane <- McLane
    Byte <- McByte
    Contents <- McContents
    CSet <- McCSet
    cset <- Mcset
    Redirects = FALSE
    Resets = TRUE
    Fetches <- McFetches
    ClientRequests <- McClientRequests
    AtATime <- McAtATime
    Together = 2
INVARIANTS FetchRight InOrder NeverStuck
PROPERTIES ImplementsFlatMemory
