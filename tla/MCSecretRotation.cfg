SPECIFICATION Spec
CONSTANTS
    r1 = r1
    r2 = r2
    r3 = r3
    Requests <- MCTwoRequests
    MaxVersion = 3
    MaxTime = 2
    Overlaps <- MCOverlaps
SYMMETRY MCSymmetry
INVARIANTS
    NextIsUsable
    RevocationTakesEffect
    CutoverOnlyToHeldSecret
    EvidenceInOrder
PROPERTIES
    RevivedOnlyByPromotion
    DoomedUntilRevoked
    LifecycleSpec
