CONSTANTS
    p1 = p1  p2 = p2  s1 = s1  s2 = s2  s3 = s3  s4 = s4  r1 = r1  r2 = r2
    NoPlan = NoPlan  NoRobot = NoRobot
    Plans = {p1}
    Supersedes <- OneFirst
    Steps = {s1, s2}
    PlanOf <- ChainPlan
    Deps <- ChainDeps
    Robots = {r1}
    RobotOf <- ChainRobot
    NativeStatuses = {"succeeded", "rejected", "unknown"}
    Resolutions = {"cancelled"}
    OutboxMayFill = TRUE
    MaxCommands = 3
    MaxStops = 2
    MaxRobotStops = 1
SPECIFICATION Spec
INVARIANTS TypeOK DependenciesDone PublishedOnce SettledAgrees RunMatchesSteps
PROPERTIES ResultsFinal
CHECK_DEADLOCK FALSE
