SPECIFICATION FairSpec
CONSTANTS
    Proc = {p1, p2, p3}
    Data = {d0, d1}
    LOGSIZE = 4
    MAXOPBLOCKS = 2
    OpBlocks = 1
    LOGSTART = 2
    NLOG = 4
    FSSIZE = 8
    NoData = NoData
INVARIANTS
    NoMissedWakeup
    LogFits
PROPERTIES Atomic WriteAhead SleepersWake
