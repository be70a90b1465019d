CONSTANTS
    p1 = p1  t1 = t1  t2 = t2
    Peers = {p1}
    Disclosures = {{p1}}
    Publishers = {t1}
    PublishLocked = TRUE
    MaxPending = 2
    SafetyReserve = 1
    InboxWorkers = 2
    MaxConnections = 2
    MaxRows = 2
    MaxSequence = 2
    MaxFaults = 1
    MaxSessions = 1
    MaxStops = 0
    MaxRestarts = 0
SPECIFICATION Spec
INVARIANTS AckedIsDurable
CHECK_DEADLOCK FALSE
