CONSTANTS
    p1 = p1  t1 = t1  t2 = t2
    Peers = {p1}
    Disclosures = {{p1}}
    Publishers = {t1, t2}
    PublishLocked = TRUE
    MaxPending = 2
    SafetyReserve = 1
    InboxWorkers = 2
    MaxConnections = 1
    MaxRows = 2
    MaxSequence = 2
    MaxFaults = 1
    MaxSessions = 2
    MaxStops = 1
    MaxRestarts = 2
SPECIFICATION Spec
INVARIANTS TypeOK AckedIsDurable SequencesIncrease SafetyReserved HandledAgainOnlyAfterRestart
PROPERTIES ImplementsFifo
CHECK_DEADLOCK FALSE
SYMMETRY PublisherSymmetry
