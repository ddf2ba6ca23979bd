\* Eureka: entries have leases and are keyed by address; the address changes.
SPECIFICATION FairSpec
CONSTANTS
  c1 = c1  c2 = c2  n1 = n1  n2 = n2  p1 = p1  p2 = p2  a = a  b = b  BadIP = BadIP  e1 = e1  e2 = e2  s1 = s1
  Containers = {c1}
  Names = {n1}
  NameOf <- OneName
  Ports = {p1}
  PortsOf <- AllPorts
  HostNet = {c1}
  IPs = {a, b}
  NoIP = NoIP
  EventSlots = {e1}
  SyncSlots = {s1}
  HostFlag = NoIP
  LocalIp = a
  Lookup = TRUE
  ExitOnIPLookupFailure = TRUE
  DeregisterAlways = FALSE
  RefreshTtl = 3
  RefreshInterval = 2
  Resync = FALSE
  Cleanup = TRUE
  ListsServices = FALSE
  RefreshMode = "heartbeat"
  KeyedByAddress = TRUE
  Recognised <- OwnKeys
  InitialEntries = {}
  MaxEvents = 2
  MaxFaults = 1
  MaxCrashes = 0
PROPERTIES Converges DeadForgotten Lifecycle
CHECK_DEADLOCK FALSE
