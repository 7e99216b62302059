SPECIFICATION Spec
CONSTANTS
    r1 = r1
    r2 = r2
    search = search
    comment = comment
    Shared = shared
    NoTool = notool
    Requests = {r1, r2}
    Tools = {search, comment}
    ReadTools = {search}
    ApprovalTools = {comment}
    AsyncTools = {}
    TicketTools <- MCTicketTools
    SearchTool = search
    MaxSteps = 6
    Input <- MCInput
    Rows <- MCMalformed
    MaxReplans = 1
    MaxChanges = 0
    MaxFaults = 0
INVARIANTS
    OrganisationBansHold
CHECK_DEADLOCK FALSE
