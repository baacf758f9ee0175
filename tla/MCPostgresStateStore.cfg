SPECIFICATION FairSpec
CONSTANTS
    c1 = c1
    c2 = c2
    c3 = c3
    d1 = d1
    NoOne = NoOne
    Callers <- MCCallers
    Readers <- MCReaders
    PoolSize = 2
INVARIANTS
    CopyIsFresh
    ReadYourWrites
    NobodyIsStuck
PROPERTIES
    AtomicSpec
    EveryCallSettles
CHECK_DEADLOCK FALSE
