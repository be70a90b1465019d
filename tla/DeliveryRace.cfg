CONSTANTS
    p1 = p1  t1 = t1  t2 = t2
    Peers = {p1}
    Disclosures = {{p1}}
    Publishers = {t1, t2}
    PublishLocked = FALSE
    MaxPending = 2
    SafetyReserve = 1
    InboxWorkers = 2
    MaxConnections = 1
    MaxRows = 2
    MaxSequence = 2
    MaxFaults = 0
    MaxSessions = 1
    MaxStops = 0
    MaxRestarts = 0
SPECIFICATION Spec
INVARIANTS SequencesIncrease
CHECK_DEADLOCK FALSE
