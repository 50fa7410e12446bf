SPECIFICATION Spec
CONSTANTS
    THREAD_NUM = 4
    Number = {0, 1}
    MaxSize = 5
    PageInts = 4
    Cart = {c1, c2, c3}
    Tracks = 3
    None = None
    a = a
    Job = {a, b, c}
    Priority <- Priorities
    Quanta = {1, 2}
    MaxTime = 3
    NoJob = NoJob
    VPage = {v1, v2, v3, v4}
    FrameCounts = {1, 3}
    MaxRequests = 6
    FName = {f, g}
    Data <- SomeData
    FOffsets = {0, 1}
    BUF_SIZE = 2
    MaxFd = 3
    MaxCalls = 3
    Nodes = 4
    SpacerSize = 9
    MaxLevel = 5
INVARIANTS
    ManPageRight
    SortRight
    WaitExact
    ViewsFaithful
    TypeOK
    NeverExits
    AllReturned
    NoDeadlock
PROPERTIES
    ByPolicy
    VictimByPolicy
    FilesSafe
    ProgramsEnd
    EveryCartCrosses
