SPECIFICATION Spec
CONSTANTS
    NPROC = 4
    Loads <- MCLoads
INVARIANTS
    ParentsAlive
    NoMissedWakeup
    TableKept
    Accounting
