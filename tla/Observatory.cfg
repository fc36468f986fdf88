SPECIFICATION Spec
CONSTANTS
    model = model  r1 = r1  t1 = t1  t2 = t2
    j1 = j1  j2 = j2
    None = None
    Jobs = {j1, j2}
    Does <- MCDoes
    Subjects = {model}
    Routes = {r1}
    SubjectOf <- MCSubjectOf
    Snapshots <- MCSnapshots
    Keys <- MCKeys
    Items <- MCItems
    Manifests <- MCManifests
    Invalidations <- MCInvalidations
    Times = {1, 2}
    Probes = {"bound"}
    MinTrials = 2
    MinPercent = 30
    MaxAge = 0
    MaxDecisions = 1
    MaxPassports = 1
SYMMETRY Alike
INVARIANTS
    CapturedFirst
    PassportBounded
    QualifiedIsEarned
    InvalidationHolds
CHECK_DEADLOCK FALSE
