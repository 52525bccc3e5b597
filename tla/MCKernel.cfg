SPECIFICATION MCSpec
CONSTANTS
    NCPU = 2
    LeftOut = {"exit", "kill"}
    MaxDepth = 2
    p1 = p1
    p2 = p2
    Process = {p1, p2}
    initproc = p1
    Memory = {12, 16}
    PGSIZE = 2
    NPTENTRIES = 2
    NV = 6
    Deltas <- MCDeltas
    Programs <- MCPrograms
    ArgSizes <- MCArgSizes
    MaxExec = 2
    None = None
    Reader = {p1, p2}
    INPUT_BUF = 2
    INDEX = 4
    Letter = {"a"}
    ReadSizes = {2}
    GetsMax = 3
    ROWS = 3
    COLS = 2
    Sleeper = {p1, p2}
    TICKS = 4
    Naps = {0, 1, 2, 3}
    MaxLapse = 3
INVARIANTS
    NoPanic
    InterruptsOff
    NoDeadlock
    EveryPageOnce
    FailureUndone
    SizeIsMapped
    InputWakes
    DevicesKept
    SleepsExact
PROPERTIES
    IsTerminal
