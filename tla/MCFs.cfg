SPECIFICATION FairSpec
CONSTANTS
    p1 = p1
    p2 = p2
    Proc = {p1, p2}
    first = p1
    Name = {"a", "b"}
    NINODES = 4
    NBLOCKS = 5
    NDIRECT = 1
    MAXFILE = 2
    NFILE = 2
    NOFILE = 2
    Workloads <- MCWorkloads
INVARIANTS
    NoPanic
    RefsCounted
    LinksCounted
    NothingLeaked
    CacheCoherent
PROPERTIES CallsReturn
