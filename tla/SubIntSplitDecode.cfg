CONSTANTS
    N = 9
    Splits = 3
    ChunkSize = 2
    MaxThreads = 4
    HwThreads = 2
    NonRA <- MCLastSection
    DstSize = 10
    Requests <- MCRequests
    Junk = Junk
SPECIFICATION Spec
INVARIANTS
    TypeOK
    TasksUseLiveBuffers
    NoTaskOutlivesCall
    PhasesDoNotOverlap
    DisjointWriters
    RangeExact
    FailedPredecodeStoresNothing
PROPERTIES
    ImplementsDecoder
    EveryCallEnds
