SPECIFICATION Spec
CONSTANTS
    first = first
    second = second
    None = None
    Members = {first, second}
    Ordinal <- MCOrdinal
    Ceiling <- MCCeiling
    Aggregate = 2
    Costs = {0, 2}
    Claims = {w1, w2}
    Runs = {w1, w2}
    w1 = w1
    w2 = w2
    Capacity = 2
    EventReadFails = FALSE
SYMMETRY Alike
INVARIANTS
    OneAttempt
PROPERTIES
    NoStraySend
    SettlementsHold
    ImplementsLedger
\* Calls and members run out: the plan may come to its end.
CHECK_DEADLOCK FALSE
