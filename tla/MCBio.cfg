SPECIFICATION FairSpec
CONSTANTS
    p1 = p1
    p2 = p2
    h1 = h1
    h2 = h2
    h3 = h3
    k1 = k1
    k2 = k2
    k3 = k3
    k4 = k4
    d0 = d0
    d1 = d1
    Image <- MCImage
    Of <- MCOf
    Asks <- MCAsks
    Nests <- MCNests
    Proc = {p1, p2}
    Hand = {h1, h2, h3}
    Buf = {u1, u2}
    Block = {k1, k2, k3, k4}
    Written = {k1}
    NoBlock = NoBlock
    NoBuf = NoBuf
    Data = {d0, d1}
    MaxDirty = 1
    MaxFaults = 1
INVARIANTS
    QueueServed
    NoPanic
PROPERTIES IsBlockStore Answered
