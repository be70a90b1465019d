CONSTANTS
    c1 = c1
    Capabilities = {c1}
    Safeties = {"normal", "emergency_stop"}
    None = None
    Configurations = {{"recorder"}, {"watchdog"}, {"planner"}}
    FreshFor = 1
    MaxTime = 3
    MaxSessions = 1
    MaxSequence = 3
    MaxChanges = 1
    MaxExecutions = 0
    MaxFaults = 1
    MaxRestarts = 1
    MaxSubmissions = 1
SPECIFICATION FairSpec
PROPERTIES FaultIsVisible EdgesAreReported
CHECK_DEADLOCK FALSE
