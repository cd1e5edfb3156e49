SPECIFICATION PostingSpec
CONSTANTS
    o1 = o1
    Users = {u1, u2}
    Serials = {d1, d2}
    Avds = {v1, v2}
    Egresses = {e1, e2}
    Nothing = Nothing
    FirstPort = 1
    LastPort = 2
    PostLimit = 1
    Callers = {k1, k2}
    MaxCycles = 2
    MaxEvents = 2
    Packets = {m1}
    Senders = {o1}
    NoAccount = NoAccount
    TargetsOf <- AllSenders
    Workers = {y1, y2}
    Pollers = {z1}
    ActionLimit = 2
    WarmupLimit = 1
    MaxRetries = 1
    MaxFaults = 1
    MaxCopies = 2
    MaxPosts = 3
INVARIANTS FleetInvariant PostsWithinLimit LegacyInvariant DeliveriesAccounted
PROPERTIES PostsThroughOwnProxy LaunchClaimsOwn
SYMMETRY PostingSymmetry
CHECK_DEADLOCK FALSE
