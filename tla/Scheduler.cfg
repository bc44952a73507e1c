\* Every function, called by any process in any order.
CONSTANTS
    Proc = {idle, p1, p2, p3}
    Idle = idle
    idle = idle
    p1 = p1
    p2 = p2
    p3 = p3
    BOOT = BOOT
    NULL = NULL
    MAX_PROCESSES = 4
    QUANTUM = 2
    Calls <- AllCalls
SPECIFICATION FairSpec
INVARIANTS
    QueueLinked PidFindsProcess AtomicCalls
PROPERTIES
    OldestFirst AddedRuns
