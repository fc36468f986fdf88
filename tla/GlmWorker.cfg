SPECIFICATION Spec
CONSTANTS
    None = None
    standard = standard  extended = extended  retired = retired
    old = old  new = new  builtIn = builtIn
    plain = plain  wide = wide
    Tiers = {standard, extended, retired}
    Supported = {standard, extended}
    Default = standard
    Overrides = {old, new}
    RevisionOf <- MCRevisionOf
    Current = {new}
    Sound = {old, new}
    Left <- MCLeft
    BuiltIn = builtIn
    Operators = {o1, o2}
    Tasks = {plain, wide}
    Doc <- MCDoc
    Workers = {w1}
    MaxKey = 2
    MaxChanges = 5
SYMMETRY Alike
CHECK_DEADLOCK FALSE
INVARIANTS
    SentAsApproved
    ApprovalStands
    TierIsOperators
