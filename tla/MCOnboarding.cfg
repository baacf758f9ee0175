SPECIFICATION Spec
CONSTANTS
    r1 = r1
    r2 = r2
    r3 = r3
    i1 = i1
    i2 = i2
    k1 = k1
    k2 = k2
    NoKey = NoKey
    NoInstance = NoInstance
    Absent = Absent
    Requests <- MCRequests
    Instances <- MCInstances
    Keys <- MCKeys
    MetadataKeys <- MCMetadataKeys
    MetadataInstances <- MCMetadataInstances
SYMMETRY MCSymmetry
INVARIANTS
    DuplicatesNameFirst
    RepeatsOverlap
CHECK_DEADLOCK FALSE
