SPECIFICATION Spec
CONSTANTS
    r1 = r1
    r2 = r2
    i1 = i1
    i2 = i2
    code1 = code1
    code2 = code2
    cli1 = cli1
    cli2 = cli2
    None = None
    Requests <- MCRequests
    Instances <- MCInstances
    Codes <- MCCodes
    ClientIds <- MCClientIds
    Ttls <- MCTtls
    MaxTime = 3
SYMMETRY MCSymmetry
INVARIANTS
    OneGrant
    IndexMatchesCredentials
    GrantedInTime
    EvidenceInOrder
PROPERTY LostCredentialsStayLost
