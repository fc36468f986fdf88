SPECIFICATION Spec
CONSTANTS
    None = None
    a = a
    b = b
    c = c
    d = d
    p = p
    q = q
    Members = {a, b, c, d}
    PlanOf <- MCPlanOf
    Targets = {"path"}
    ClaimsOf <- MCClaimsOf
    BytesOf <- MCBytesOf
    Documents = {"both", "alike", "collide", "other", "costly", "legacy"}
    Doc <- MCDoc
    Stagers = {s1, s2}
    Bindings = {b1}
    Tiers = {"now", "then"}
    EpochOpen = {FALSE}
    MaxIssued = 2
    MaxFaults = 1
CHECK_DEADLOCK FALSE
SYMMETRY Symmetry
INVARIANTS
    OneOwner
    BundleIsQueued
    StagingUndone
