SPECIFICATION Spec
CONSTANTS
    NCPU = 2
    LeftOut = {}
    MaxDepth = 1
INVARIANTS NoDeadlock
