SPECIFICATION Spec
CONSTANTS
    Proc = {p1, p2}
    Data = {d0}
    LOGSIZE = 4
    MAXOPBLOCKS = 2
    OpBlocks = 2
    LOGSTART = 2
    NLOG = 4
    FSSIZE = 10
    NoData = NoData
INVARIANTS LogFits
