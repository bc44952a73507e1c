\* Is a process that does not yield preempted?
CONSTANTS
    Proc = {idle, a, b}
    Idle = idle
    idle = idle
    a = a
    b = b
    BOOT = BOOT
    NULL = NULL
    MAX_PROCESSES = 4
    QUANTUM = 2
    Calls <- NoCalls
SPECIFICATION TimerSpec
PROPERTY Preemptive
