SPECIFICATION Programs
CONSTANTS
    Inputs <- McInputs
    INSERTION_THRESHOLD = 2
    NSTACK = 6
    NUM_DISCS = 7
    ArithBits = 5
    Args <- McArgs
    KernelBits = 12
    Tests <- McTests
    AddrMod = 256
    Window = 64
    mem_size = 13
    Addrs <- McAddrs
    Sizes = {1, 2, 3, 4, 8}
    MaxWrites = 2
INVARIANTS
    ResultsRight NodesConserved
    OutsideInOrder ScansStop StackSuffices
    PartialProduct TestsDecide ReadsBack
PROPERTIES PlaysHanoi Terminates
CHECK_DEADLOCK FALSE
