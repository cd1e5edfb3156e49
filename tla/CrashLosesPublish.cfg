SPECIFICATION FairSpec
CONSTANTS
  i1 = i1  t1 = t1  t2 = t2  w1 = w1  w2 = w2
  Intents = {i1}
  Targets = {t1}
  IntentOf <- MCIntentOf
  Workers = {w1}
  Factories = {f1}
  NoTarget = NoTarget
  Modes = {"publish_now"}
  MaxRetries = 1
  MaxCrashes = 1
  MaxDbErrors = 0
  MaxRestarts = 0
  MaxManuals = 0
  MaxReschedules = 0
PROPERTIES DispatchedSettles
CHECK_DEADLOCK FALSE
