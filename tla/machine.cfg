SPECIFICATION Spec
CONSTANTS
    Reader = {r1, r2}
    INTQ_BUFSIZE = 3
    MaxKeys = 2
    MaxReceived = 2
    MaxWritten = 4
    Nobody = Nobody
    IoThread = {i1, i2}
    DiskSize = 4
    SectorModulus = 8
    Drives <- SomeDrives
    Tables <- SomeTables
    IoSectors = {0, 3}
    MaxIo = 2
    MaxSpurious = 1
    NoThread = NoThread
    HThread = {h1, h2}
    Classes = {1, 2}
    BlocksPerArena <- SomeBlocksPerArena
    PoolPages = 3
    MaxBlocks = 2
    MaxHeapCalls = 4
    HElem <- SomeElements
    KeyHash <- SomeHashes
    MinBuckets = 2
    BEST_ELEMS_PER_BUCKET = 1
    NullElem = NullElem
    Process = {p, q}
    PGSIZE = 2
    TableSize = 2
    UserPages = 4
    AddrModulus = 16
    FileLength = 3
    Images <- SomeImages
    PoolSizes <- SomePools
    Main = Main
    KThread = {Main, t1, t2}
    Idle = Idle
    Unheld = Unheld
    TIME_SLICE = 2
    SleepTicks = 1
    MaxValue = 1
    MaxKernelCalls = 5
    Keys = {1, 2, 3}
    MaxLen = 5
    W = 4
    Cells = 5
    CharA = 97
    CharB = 98
    Space = 32
    MaxLine = 5
    StackTop = 64
    PageBytes = 4
    ArenaBytes = 2
INVARIANTS
    ConsoleExact
    DiskExact
    HeapSound
    SpacesApart
    RoundRobinSound
    LibraryRight
PROPERTIES
    HashFaithful
CHECK_DEADLOCK FALSE
