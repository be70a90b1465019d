CONSTANTS
    p1 = p1  t1 = t1  t2 = t2
    Peers = {p1}
    Disclosures = {{p1}}
    Publishers = {t1}
    PublishLocked = TRUE
    MaxPending = 2
    SafetyReserve = 1
    InboxWorkers = 2
    MaxConnections = 1
    MaxRows = 2
    MaxSequence = 2
    MaxFaults = 1
    MaxSessions = 2
    MaxStops = 1
    MaxRestarts = 1
SPECIFICATION FairSpec
PROPERTIES PublishedIsHandled
CHECK_DEADLOCK FALSE
