SPECIFICATION TFairSpec
CONSTANTS
    c1 = c1
    w1 = w1
    w2 = w2
    Clients = {c1}
    Workers = {w1, w2}
    MaxTasks = 2
    Legacy = {}
    BatchLimit = 2
    Temporal = TRUE
    Atomic = {w1, w2}
    FaultKinds = {"rollback", "crash", "start"}
    MaxOps = 3
    MaxFaults = 1
    MaxAttempts = 2
    MaxLost = 2
INVARIANTS
    ClaimIsExclusive
    ToolCallsWithinDecisions
PROPERTIES
    ToolApprovalIsKept
    QueuedTasksSettleUnlessFault
CHECK_DEADLOCK FALSE
