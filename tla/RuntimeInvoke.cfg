SPECIFICATION Spec
CONSTANTS
    batch = batch  guarded = guarded  plain = plain  workspace = workspace
    Callers = {c1, c2}
    Runs = {batch, guarded, plain}
    Resources = {workspace}
    Resource <- MCResource
    Guarded = {batch, guarded}
    Pregranted = {batch}
    MaxEpoch = 2
    MaxToken = 3
    MaxRefs = 1
    Outcomes <- MCOutcomes
    MaxCalls = 2
    MaxExpiries = 1
    MaxFaults = 2
    None = None
SYMMETRY Alike
INVARIANTS
    TransportsSound
    RecordsAgree
    ReturnedMeansReleased
PROPERTIES
    RecordsInOrder
CHECK_DEADLOCK FALSE
