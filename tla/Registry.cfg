CONSTANTS
    c1 = c1
    Capabilities = {c1}
    Safeties = {"normal", "emergency_stop"}
    None = None
    Configurations = {{"recorder"}}
    FreshFor = 0
    MaxTime = 1
    MaxSessions = 2
    MaxSequence = 3
    MaxChanges = 1
    MaxExecutions = 1
    MaxFaults = 1
    MaxRestarts = 0
    MaxSubmissions = 1
SPECIFICATION Spec
INVARIANTS TypeOK QuietViewIsLatest
PROPERTIES ViewNeverOlder
CHECK_DEADLOCK FALSE
