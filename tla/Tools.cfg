CONSTANTS
    s1 = s1
    s2 = s2
    s3 = s3
    sx = sx
    r1 = r1
    r2 = r2
    cap = cap
    p1 = p1
    p2 = p2
    Proposals <- MCProposals
    Participants = {r1, r2}
    FreshPeers = {r1, r2}
    Offered <- MCOffered
    Leased = {r1}
    GoalDeadline = 1
    PlanTime = 1
    MaxSteps = 3
    NoDeadline = NoDeadline
    NoStep = NoStep
    MaxHops = 3
    Operators = {p1, p2}
    Roles <- MCRoles
    MaxWrites = 2
    MaxFaults = 2
    MaxDamage = 1
    Absent = Absent
    Damaged = Damaged
SPECIFICATION Spec
INVARIANTS AcceptedPlansComplete StopsAndFaultsSurvive BackupsAreWhole
CHECK_DEADLOCK FALSE
