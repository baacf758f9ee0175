SPECIFICATION Spec
CONSTANTS
    None = None
    Active = active
    Requests = {r1}
    Admins = {adm1}
    Tenants = {t1}
    Instances = {i1}
    Sources = {src1}
    Scopes = {reg}
    Statuses = {active, disabled}
    MaxTime = 7
    MaxTokens = 1
    Second = 2
    Ttl = 1
    Skew = 1
    Grace = 2
INVARIANTS
    GrantJustified
    DenialJustified
    PausedTokenIsDead
    DisableBitesInTime
