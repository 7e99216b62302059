SPECIFICATION Spec
CONSTANTS
    r1 = r1
    r2 = r2
    r3 = r3
    r4 = r4
    e1 = e1
    e2 = e2
    d1 = d1
    d2 = d2
    Runs <- MCRuns
    EvalCases <- MCEvalCases
    Datasets <- MCDatasets
    DatasetOf <- MCDatasetOf
    BadCases <- MCBadCases
    Sources <- MCSources
    Start <- MCStart
    Seeds <- MCSeeds
    Limit = 1
    Offsets = {0, 1}
    ScanMin = 1
    BulkLimit = 1
    MaxCases = 3
    MaxChanges = 2
INVARIANTS
    PageIsExact
    UntouchedRowsAreSeen
    LatestRunIsNewest
    DatasetQueueIsComplete
    OffersMatchCases
