SPECIFICATION FairSpec
CONSTANTS
    r1 = r1
    r2 = r2
    s1 = s1
    old = old
    new = new
    None = None
    NoOne = NoOne
    Runs <- MCRuns
    Servers <- MCServers
    Ids = {1, 2}
    Baseline = 1
    Checksums <- MCChecksums
    Releases <- MCReleases
INVARIANTS
    AppliedOnceAndRecorded
    KnownIsCurrent
    EarlierFilesApplied
    SuccessIsComplete
PROPERTIES
    StateSurvives
    EveryRunEnds
CHECK_DEADLOCK FALSE
