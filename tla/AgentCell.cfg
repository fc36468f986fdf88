SPECIFICATION FairSpec
CONSTANTS
    w1 = w1  w2 = w2
    Workers = {w1, w2}
    MaxSteps = 3
    MaxTools = 1
    MaxEpoch = 3
    MaxBinding = 1
    None = None
INVARIANTS
    NothingTwice
    CheckpointCuts
PROPERTIES
    CompletionEnds
CHECK_DEADLOCK FALSE
