SPECIFICATION Spec
CONSTANTS
    Main = Main
    A = A
    B = B
    Thread = {Main, A, B}
    Created <- TwoCreated
    Idle = Idle
    HEAD = HEAD
    TAIL = TAIL
    NULL = NULL
    Naps <- ShortNaps
    MaxTicks = 3
INVARIANTS
    NeverEarly
    WokenOnTime
PROPERTIES
    Wakes
