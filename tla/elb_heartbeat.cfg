\* Two containers behind one endpoint, no resynchronisation, no failures.
SPECIFICATION FairSpec
CONSTANTS
  c1 = c1  c2 = c2  g1 = g1  None = None
  Containers = {c1, c2}
  TargetGroups = {g1}
  TgOf <- OneGroup
  Labels <- GivenEndpoints
  ManyPages = TRUE
  Resync = FALSE
  Cleanup = TRUE
  Retries = 1
  MaxEvents = 1
  MaxTurns = 1
  MaxFaults = 0
PROPERTY HeartbeatEstablishesUp
CHECK_DEADLOCK FALSE
