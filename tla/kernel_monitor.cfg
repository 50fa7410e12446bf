SPECIFICATION Spec
CONSTANTS
    Idle = Idle
    Main = Main
    A = A
    lockA = lockA
    NULL = NULL
    tid_lock = tid_lock
    Thread = {Idle, Main, A, B}
    ClientSema = {}
    Lock = {tid_lock, lockA}
    CondVar = {cv}
    Priorities <- TwoLevels
    InitPriority <- EqualPriority
    InitReady <- NoneReady
    InitValue <- ZeroValue
    CondLock <- MonitorLock
    MaxPreempt = 2
    MaxValue = 0
    Calls <- MonitorCalls
    NewPriorities = {0}
    CreatePriorities <- TwoLevels
    IntrSema = {}
INVARIANTS
    LockExclusion
    WaitersKept
