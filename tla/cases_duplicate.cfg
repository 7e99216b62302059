SPECIFICATION Spec
CONSTANTS
    c1 = c1
    c2 = c2
    Clients = {c1, c2}
    Operators = {"ann", "bob"}
    EvalCases = {"ec"}
    EvalReports = {"er"}
    EvalRuns = {"run"}
    Compares = {"cmp"}
    MaxCases = 2
    MaxOps = 2
SYMMETRY Symmetry
INVARIANTS
    OneOpenCasePerEvalReport
CHECK_DEADLOCK FALSE
