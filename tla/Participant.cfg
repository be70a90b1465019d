CONSTANTS
    a1 = a1  a2 = a2  c1 = c1  i1 = i1  i2 = i2  r1 = r1  l1 = l1  l2 = l2
    Assignments = {a1, a2}
    Issuers = {i1}
    Contents = {c1}
    Resources = {r1}
    Needs <- NeedsOne
    Sessions = {l1, l2}
    IssuerOf <- OneIssuer
    NoOwner = NoOwner
    InboxWorkers = 2
    ExecutionWorkers = 1
    NativeStatuses = {"succeeded", "unknown"}
    Resolutions = {"failed"}
    LiveTool = FALSE
    OutboxMayFill = TRUE
    MaxRequests = 3
    MaxStops = 1
SYMMETRY Symmetry
SPECIFICATION Spec
INVARIANTS TypeOK NativeAtMostOnce PublishedIsRecorded NativeWorkExclusive
PROPERTIES ReleasedOnlyWhenSettled
CHECK_DEADLOCK FALSE
