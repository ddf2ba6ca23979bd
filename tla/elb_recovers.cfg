\* One container, with labels for every kind of lookup: every remote call may fail.
SPECIFICATION FairSpec
CONSTANTS
  c1 = c1  c2 = c2  g1 = g1  None = None
  Containers = {c1}
  TargetGroups = {g1}
  TgOf <- OneGroup
  Labels <- EveryLookup
  ManyPages = TRUE
  Resync = TRUE
  Cleanup = TRUE
  Retries = 1
  MaxEvents = 2
  MaxTurns = 1
  MaxFaults = 1
INVARIANT UpWasHealthy
PROPERTIES ComesUp Drops
