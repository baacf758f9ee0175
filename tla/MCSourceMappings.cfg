SPECIFICATION Spec
CONSTANTS
    t1 = t1
    t2 = t2
    i1 = i1
    i2 = i2
    src1 = src1
    src2 = src2
    None = None
    Active = active
    Admins = {adm1}
    Readers = {r1}
    Scopes = {reg}
    Statuses = {active, disabled}
    Tenants <- MCTenants
    Instances <- MCInstances
    Sources <- MCSources
    Filters <- MCFilters
SYMMETRY MCSymmetry
INVARIANTS
    SourcesUnique
    ListingComplete
    ListingSound
    ResolveExact
