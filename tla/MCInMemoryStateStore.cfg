SPECIFICATION MemorySpec
CONSTANTS
    c1 = c1
    c2 = c2
    c3 = c3
    c4 = c4
    Calls <- MCCalls
INVARIANT LossNeedsOverlap
PROPERTY AtomicWhileAlone
CHECK_DEADLOCK FALSE
