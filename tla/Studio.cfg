SPECIFICATION StudioSpec
CONSTANTS
    i1 = i1  x1 = x1
    Panels = {p1, p2}
    Slots = {s1, s2}
    Intents = {n1, n2, n3}
    AccountSets = {x, y}
    Captions = {c1}
    Nobody = Nobody
    MaxMatched = 1
    MaxSubmits = 3
    MaxLost = 1
    MaxReopened = 1
    MaxPolls = 1
    Followed = {j1, j2}
    Tabs = {d1, d2}
    MaxTracked = 1
    MaxRuns = 1
    MaxTracks = 2
    Viewable = {k1, k2}
    Pages = {g1}
    NoView = NoView
    MaxLaunches = 1
    MaxViews = 1
    MaxAsked = 2
    NumRows = 3
    Handlers = {h1, h2}
    Texts = {e1}
    Worked = {0}
    MaxPlans = 1
    MaxOrders = 2
    Engagements = {i1}
    Targets = {x1}
    NoCommand = NoCommand
    TargetOf <- OneTarget
    Timed = {i1}
    Workers = {w1, w2}
    Limit = 1
    MaxFaults = 1
INVARIANTS DeskInvariant FailureExplained DockInvariant PageInvariant SceneInvariant
           EngagementInvariant ActsAccounted NoIntentVanishes
PROPERTIES TerminalStays
SYMMETRY StudioSymmetry
CHECK_DEADLOCK FALSE
