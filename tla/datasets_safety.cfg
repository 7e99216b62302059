SPECIFICATION Spec
CONSTANTS
    c1 = c1
    c2 = c2
    c3 = c3
    e1 = e1
    e2 = e2
    e3 = e3
    Clients = {c1, c2, c3}
    EvalCases = {e1, e2, e3}
    MaxDatasets = 2
    MaxRuns = 2
    MaxOps = 7
SYMMETRY Symmetry
INVARIANTS
    TypeOK
    MembersAreDistinct
    RunsMatchBaseline
PROPERTIES
    PublishedIsFrozen
CHECK_DEADLOCK FALSE
