CONSTANTS
    p1 = p1  p2 = p2  s1 = s1  s2 = s2  s3 = s3  s4 = s4  r1 = r1  r2 = r2
    NoPlan = NoPlan  NoRobot = NoRobot
    Plans = {p1, p2}
    Supersedes <- Revision
    Steps = {s1, s2, s3, s4}
    PlanOf <- JoinPlan
    Deps <- JoinDeps
    Robots = {r1, r2}
    RobotOf <- JoinRobot
    NativeStatuses = {"succeeded", "failed"}
    Resolutions = {"failed"}
    OutboxMayFill = FALSE
    MaxCommands = 2
    MaxStops = 0
    MaxRobotStops = 0
SPECIFICATION FairSpec
PROPERTIES RunEnds
CHECK_DEADLOCK FALSE
