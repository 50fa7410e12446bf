SPECIFICATION Spec
CONSTANTS
    Idle = Idle
    Main = Main
    A = A
    lockA = lockA
    NULL = NULL
    tid_lock = tid_lock
    Thread = {Idle, Main, A, B}
    ClientSema = {s1}
    Lock = {tid_lock, lockA}
    CondVar = {}
    Priorities <- TwoLevels
    InitPriority <- EqualPriority
    InitReady <- OneReady
    InitValue <- ZeroValue
    CondLock <- MonitorLock
    MaxPreempt = 2
    MaxValue = 2
    Calls <- SchedCalls
    NewPriorities <- TwoLevels
    CreatePriorities <- TwoLevels
    IntrSema = {s1}
INVARIANTS
    NoLostWakeup
    RunsHighest
PROPERTIES
    NoOvertaking
