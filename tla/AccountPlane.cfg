SPECIFICATION PlaneSpec
CONSTANTS
    Proxies = {p1, p2}
    Accounts = {a1, a2, a3}
    Personas = {q1}
    Requests = {r1, r2}
    None = None
    MaxRequests = 4
    MaxSweeps = 1
    Nil = Nil
    Watched = {w1}
    Campaigns = {c1}
    Keys = {pool, failed}
    Unmatched = {failed}
    Slots = {s1, s2}
    MaxTasks = 5
    MaxEdits = 1
    FrequencyCap = 2
SYMMETRY PlaneSymmetry
CHECK_DEADLOCK FALSE
INVARIANTS PoolInvariant LinksBounded CareBounded
