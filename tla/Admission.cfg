SPECIFICATION Spec
CONSTANTS
    None = None
    r1 = r1  r2 = r2  r3 = r3
    p1 = p1  p2 = p2
    Authorities = {1}
    Requests = {r1, r2, r3}
    Projects = {p1, p2}
    ProjectOf <- MCProjectOf
    LaneOf <- MCLaneOf
    LastPolicy = 2
    Scope <- Migrating
    HardMax <- MCHardMax
    Cap <- MCCap
    Targets = {1, 2}
    FirstTarget = 2
SYMMETRY Alike
INVARIANTS
    CapacityHolds
    UnitsAgree
    HalfOpenExclusive
    StopsHold
PROPERTIES
    ReleasedByEvidence
    GrantsInOrder
    OpenLeftByAuthority
    ImplementsLedger
\* Requests are never asked again once settled: the instance may run out of them.
CHECK_DEADLOCK FALSE
