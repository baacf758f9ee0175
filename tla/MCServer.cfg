SPECIFICATION Spec
CONSTANTS
    r1 = r1
    r2 = r2
    t1 = t1
    NoTenant = NoTenant
    NoHandler = NoHandler
    Requests <- MCRequests
    Tenants <- MCTenants
    Configurations <- MCConfigurations
    MaxBytes = 1
    MaxEvents = 2
    Limits = {1}
    MaxTime = 1
SYMMETRY MCSymmetry
INVARIANTS
    PageHasNewest
    OnlyAdmittedRequestsAct
    RefusedLeavesNothing
    ExportHasEvidence
    LastSwitcherReports
