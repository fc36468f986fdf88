SPECIFICATION PlanRuntimeSpec
CONSTANTS
    Null = Null
    r1 = r1
    r2 = r2
    r3 = r3
    x = x
    y = y
    PlanRoutes = {r1, r2, r3}
    RouteNo <- MCRouteNo
    StateNames = {"first", "later"}
    States <- MCStates
    Inputs <- MCInputs
    Failures = {"timeout"}
    MaxTasks = 1
    MaxPlans = 3
    Hosts = {h1}
    Runs = {x, y}
    Refs = {i1}
    Executable = {r1, r2}
    Observed <- MCObserved
    Evidence <- MCEvidence
    Amounts = {1}
    MaxFaults = 1
CHECK_DEADLOCK FALSE
INVARIANTS
    FallbackAdvances
    ResultIsBacked
    ChargesMatchRuns
