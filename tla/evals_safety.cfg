SPECIFICATION Spec
CONSTANTS
    w1 = w1
    w2 = w2
    Workers = {w1, w2}
    MaxRuns = 3
    BatchLimit = 2
    FaultKinds = {"execute", "judge", "deadline", "rollback", "lostack", "crash"}
    MaxRetries = 1
    MaxFaults = 1
SYMMETRY Symmetry
INVARIANTS
    TypeOK
    HistoryMatchesRun
    FlowConserved
    SuccessReportIsTrue
    OwnerIsUnique
    SuccessIsReported
PROPERTIES
    SucceededIsFinal
CHECK_DEADLOCK FALSE
