SPECIFICATION MCSpec
CONSTANTS
    Proc = {p1, p2}
    Byte = {b0, b1}
    NoByte = NoByte
    PIPESIZE = 2
    UINT = 4
    Counts = {1, 3}
    Requests = {2, 3, 5}
    CORE = 4
    LIMIT = 12
    NCHILD = 5
    MAXARGS = 3
    Sessions <- MCSessions
    GREPBUF = 4
    LINEBUF = 2
    BSIZE = 4
    DIRENT = 2
    DIRECT = 1
    INDIRECT = 2
    NINODE = 6
    IPB = 2
    LOGBLOCKS = 2
    DISKSIZE = 20
INVARIANTS
    NoMissedWakeup
    FreedOnce
    HeapKept
    NoChildAtPrompt
    ParserCorrect
    ResultsRight
PROPERTIES
    IsFifo
    EndsReturn
    PromptReturns
\* The programs end.
CHECK_DEADLOCK FALSE
