SPECIFICATION FairSpec
CONSTANTS
    AddrMod = 256
    Window = 64
    MemSize = 16
    Slots = 2
    Envs <- McEnvs
INVARIANTS ImageInMemory ResetFirst AnswersWanted ConsoleInOrder
PROPERTY Ends
CHECK_DEADLOCK FALSE
