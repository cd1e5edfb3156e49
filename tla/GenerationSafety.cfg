SPECIFICATION GenSpec
CONSTANTS
  t1 = t1  t2 = t2  r1 = r1  r2 = r2
  Tasks = {t1, t2}
  Replicas = {r1}
  ReplicaOf <- OneReplica
  Modes = {"scene_based", "single_image", "ailiveai_single_video"}
  NumScenes = 1
  LegacyDistribution = TRUE
  Operations = {"launch", "ready", "cancel", "cancel-step", "retry-step", "retry-scene", "delete"}
  MaxRequests = 2
  MaxClaims = 2
  MaxCrashes = 0
  MediaKinds = {"clip", "photo", "seedance", "ailive"}
  PollLimit = 3
  SuccessWait = 1
  MaxCreates = 2
  MaxAgain = 1
  MaxAttempts = 3
  TextKinds = {"draft", "preview", "caption", "topics", "reply"}
  Tries = 3
  NumModels = 2
  CalendarRows = {k1}
  MaxRounds = 3
  MaxPushFaults = 1
  MaxTouches = 2
  MaxRestarts = 1
SYMMETRY Symmetric
INVARIANTS GenerationInvariant CancelledIsIdle NoOrphanStep OutputsAccounted MediaInvariant TextInvariant CalendarInvariant
CHECK_DEADLOCK FALSE
