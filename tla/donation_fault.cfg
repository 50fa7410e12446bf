SPECIFICATION Spec
CONSTANTS
    Idle = Idle
    Main = Main
    A = A
    lockA = lockA
    NULL = NULL
    tid_lock = tid_lock
    Thread = {Idle, Main, A, B}
    ClientSema = {}
    Lock = {tid_lock, lockA, lockB}
    CondVar = {}
    Priorities <- ThreeLevels
    InitPriority <- EqualPriority
    InitReady <- NoneReady
    InitValue <- ZeroValue
    CondLock <- MonitorLock
    MaxPreempt = 0
    MaxValue = 0
    Calls <- DonationCalls
    NewPriorities = {0}
    CreatePriorities = {2, 3}
    IntrSema = {}
INVARIANTS
    NoFault
