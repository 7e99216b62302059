SPECIFICATION Spec
CONSTANTS
    c1 = c1
    c2 = c2
    w1 = w1
    w2 = w2
    Clients = {c1}
    Workers = {w1}
    MaxTasks = 1
    Legacy = {}
    BatchLimit = 2
    Temporal = TRUE
    Atomic = {w1}
    FaultKinds = {"start"}
    MaxOps = 3
    MaxFaults = 1
SYMMETRY Symmetry
INVARIANTS
    ApprovedBeforeExecution
CHECK_DEADLOCK FALSE
