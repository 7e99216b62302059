SPECIFICATION Spec
CONSTANTS
    c1 = c1
    c2 = c2
    w1 = w1
    w2 = w2
    Clients = {c1, c2}
    Workers = {w1, w2}
    MaxTasks = 2
    Legacy = {1}
    BatchLimit = 2
    Temporal = TRUE
    Atomic = {w1}
    FaultKinds = {"rollback", "lostack", "crash", "start", "lookup"}
    MaxOps = 4
    MaxFaults = 2
SYMMETRY Symmetry
INVARIANTS
    TypeOK
    ExecutionsWithinDecisions
    ClaimsWithinDecisions
    SucceededReportIsReady
    RunningIsHeld
CHECK_DEADLOCK FALSE
