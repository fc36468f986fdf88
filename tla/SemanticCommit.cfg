SPECIFICATION Spec
CONSTANTS
    a1 = a1  a2 = a2
    w1 = w1  w2 = w2
    n1 = n1  n2 = n2  v1 = v1  v2 = v2
    ahead = ahead  back = back  link = link
    Agents = {a1, a2}
    Workers = {w1, w2}
    NodeIds = {n1, n2}
    Versions = {v1, v2}
    Patches = {ahead, back, link}
    Serves <- MCServes
    OwnerOf <- MCOwnerOf
    Genesis <- MCGenesis
    PatchOf <- MCPatchOf
    Ttl = 1
    MaxTime = 0
    Fragile = {a1}
    MaxEvents = 11
    MaxGraph = 4
    None = None
    Conflict = Conflict
INVARIANTS
    HistoryIsProjection
    RevisionsInOrder
CHECK_DEADLOCK FALSE
