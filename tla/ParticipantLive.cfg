CONSTANTS
    a1 = a1  a2 = a2  c1 = c1  i1 = i1  i2 = i2  r1 = r1  l1 = l1  l2 = l2
    Assignments = {a1}
    Issuers = {i1, i2}
    Contents = {c1}
    Resources = {r1}
    Needs <- NeedsOne
    Sessions = {l1, l2}
    IssuerOf <- TwoIssuers
    NoOwner = NoOwner
    InboxWorkers = 2
    ExecutionWorkers = 0
    NativeStatuses = {"succeeded", "unknown"}
    Resolutions = {"failed"}
    LiveTool = TRUE
    OutboxMayFill = FALSE
    MaxRequests = 2
    MaxStops = 2
SPECIFICATION FairSpec
PROPERTIES AcceptedSettles InboxDrains KeepsRecord
CHECK_DEADLOCK FALSE
