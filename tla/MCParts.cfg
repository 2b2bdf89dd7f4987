SPECIFICATION Spec
CONSTANTS
    Callers = {p, q}
    Nobody = nobody
    MaxSessions = 2
    Oversized = TRUE
    Subs = {s1, s2}
    Ids = {i1, i2}
    QueueLimit = 1
    MaxNotes = 2
    Workers = {w1, w2}
    Batches = 3
INVARIANTS PartsTypeOK OneConnection OwnErrorKept PartsDeliver
PROPERTY PartsRelease
CHECK_DEADLOCK FALSE
