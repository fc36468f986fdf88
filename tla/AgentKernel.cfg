SPECIFICATION KernelSpec
CONSTANTS
    agent = agent
    Agents = {agent}
    Workers = {w1, w2}
    Serves <- MCServes
    OwnerOf <- MCOwnerOf
    Ttl = 2
    MaxTime = 4
    Fragile = {agent}
    MaxEvents = 6
    None = None
    Conflict = Conflict
SYMMETRY Alike
INVARIANTS
    OwnershipIsFenced
CHECK_DEADLOCK FALSE
