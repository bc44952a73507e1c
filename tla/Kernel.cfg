CONSTANTS
    Irq <- MCIrq
    Fault <- MCFault
    KB_BUFFER_SIZE = 2
    MaxKeys = 4
    WORD = 6
    MSEC = 2
    TIMER_HZ = 5
    Durations <- MCDurations
    MaxTicks = 8
    LastCall = 6
    ReadSizes <- MCReadSizes
SPECIFICATION Spec
INVARIANTS
    BootComplete
    LinesAcknowledged
    KeysInOrder
    KeysNeverStale
    TornOnlyAtWrap
PROPERTIES
    SleepsLongEnough
    SleepEnds
    GetcharReturns
CHECK_DEADLOCK FALSE
