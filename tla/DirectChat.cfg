SPECIFICATION ChatSpec
CONSTANTS
    grok = grok  qwythos = qwythos  k1 = k1  k2 = k2
    Threads = {t1, t2}
    Conversations = {k1, k2}
    Grok = {k1}
    LeaseKey <- MCLeaseKey
    Runs = {1, 2}
    Resources = {grok, qwythos}
    Limit <- MCLimit
    Replies <- MCReplies
    MaxEpoch = 2
    MaxToken = 3
    MaxRefs = 2
    MaxArchived = 1
    MaxLapses = 1
    MaxErrors = 1
    None = None
    Gone = Gone
SYMMETRY Alike
INVARIANTS
    RepliesSound
    DeletedMeansGone
PROPERTIES
    RecordsInOrder
CHECK_DEADLOCK FALSE
