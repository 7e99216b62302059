SPECIFICATION Spec
CONSTANTS
    w1 = w1
    w2 = w2
    Workers = {w1}
    MaxRuns = 2
    BatchLimit = 2
    FaultKinds = {"judge"}
    MaxRetries = 0
    MaxFaults = 1
INVARIANTS
    RunsAreNotStranded
CHECK_DEADLOCK FALSE
