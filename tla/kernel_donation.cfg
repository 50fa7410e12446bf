SPECIFICATION Spec
CONSTANTS
    Idle = Idle
    Main = Main
    A = A
    lockA = lockA
    NULL = NULL
    tid_lock = tid_lock
    Thread = {Idle, Main, A, B}
    ClientSema = {}
    Lock = {tid_lock, lockA, lockB}
    CondVar = {}
    Priorities <- ThreeLevels
    InitPriority <- EqualPriority
    InitReady <- NoneReady
    InitValue <- ZeroValue
    CondLock <- MonitorLock
    MaxPreempt = 1
    MaxValue = 0
    Calls <- DonationCalls
    NewPriorities = {3}
    CreatePriorities = {2, 3}
    IntrSema = {}
INVARIANTS
    LinkedOnce
    DonatorAlive
PROPERTIES
    NeverBelowBase
