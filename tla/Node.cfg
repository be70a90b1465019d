CONSTANTS
    l1 = l1
    i1 = i1
    i2 = i2
    cap = cap
    c1 = c1
    c2 = c2
    p1 = p1
    a1 = a1
    Leases = {l1}
    Issuers = {i1, i2}
    Capabilities = {cap}
    Terms <- MCTerms
    NoLease = NoLease
    Certificates = {c1, c2, p1}
    ValidFrom <- MCValidFrom
    ValidUntil <- MCValidUntil
    MaxGenerations = 2
    NoCertificate = NoCertificate
    Assignments = {a1}
    Answers = {"succeeded", "invalid"}
    ResultTimeout = TRUE
    Own = {c1, c2}
    Request <- MCRequest
    Workers = 1
    MaxTime = 2
    MaxCommands = 3
    MaxRevision = 3
    MaxStops = 1
SPECIFICATION FairSpec
INVARIANTS TypeOK AuditExplainsLeases BundlesComplete AuditExplainsCredentials
    KnownMeansSettled CancellationIsTrue WorkIsAuthorized ShownIsEnforced
PROPERTIES LeasesOnlyAdvance CredentialFaultStops
CHECK_DEADLOCK FALSE
