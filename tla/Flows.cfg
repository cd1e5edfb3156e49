SPECIFICATION FlowsSpec
CONSTANTS
  t1 = t1  t2 = t2  r1 = r1  r2 = r2  i1 = i1  x1 = x1  w1 = w1  w2 = w2
  Tasks = {t1, t2}
  Replicas = {r1}
  ReplicaOf <- OneReplica
  Modes = {"scene_based", "single_image", "multi_scene_single_video"}
  NumScenes = 1
  LegacyDistribution = TRUE
  Operations = {"launch", "cancel", "cancel-step", "retry-step", "retry-scene", "delete", "simulate"}
  MaxRequests = 2
  MaxClaims = 1
  MaxCrashes = 1
  Panels = {p1}
  Slots = {s1, s2}
  Intents = {n1, n2}
  AccountSets = {x}
  Captions = {c1}
  Nobody = Nobody
  MaxMatched = 30
  MaxSubmits = 2
  MaxLost = 1
  MaxReopened = 1
  MaxPolls = 1
  Followed = {j1, j2}
  Tabs = {d1, d2}
  MaxTracked = 1
  MaxRuns = 1
  MaxTracks = 1
  Engagements = {i1}
  Targets = {x1}
  NoCommand = NoCommand
  TargetOf <- OneTarget
  Timed = {i1}
  Workers = {w1}
  Limit = 1
  MaxFaults = 1
PROPERTIES  PanelLive EndIsShown QueuedSettles
CHECK_DEADLOCK FALSE
