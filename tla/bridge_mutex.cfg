\* A duplicate add.
SPECIFICATION Spec
CONSTANTS
  c1 = c1  c2 = c2  n1 = n1  n2 = n2  p1 = p1  p2 = p2  a = a  b = b  BadIP = BadIP  e1 = e1  e2 = e2  s1 = s1
  Containers = {c1}
  Names = {n1}
  NameOf <- OneName
  Ports = {p1}
  PortsOf <- AllPorts
  HostNet = {c1}
  IPs = {a}
  NoIP = NoIP
  EventSlots = {e1, e2}
  SyncSlots = {s1}
  HostFlag = NoIP
  LocalIp = a
  Lookup = FALSE
  ExitOnIPLookupFailure = FALSE
  DeregisterAlways = TRUE
  RefreshTtl = 0
  RefreshInterval = 0
  Resync = TRUE
  Cleanup = TRUE
  ListsServices = TRUE
  RefreshMode = "noop"
  KeyedByAddress = FALSE
  Recognised <- OwnKeys
  InitialEntries = {}
  MaxEvents = 3
  MaxFaults = 0
  MaxCrashes = 0
INVARIANT MutexReleased
CHECK_DEADLOCK FALSE
