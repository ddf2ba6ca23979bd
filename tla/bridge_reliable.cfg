\* Two containers that use the same name in turn; no remote call fails.
SPECIFICATION Spec
CONSTANTS
  c1 = c1  c2 = c2  n1 = n1  n2 = n2  p1 = p1  p2 = p2  a = a  b = b  BadIP = BadIP  e1 = e1  e2 = e2  s1 = s1
  Containers = {c1, c2}
  Names = {n1}
  NameOf <- OneName
  Ports = {p1}
  PortsOf <- AllPorts
  HostNet = {c1, c2}
  IPs = {a, b}
  NoIP = NoIP
  EventSlots = {e1, e2}
  SyncSlots = {s1}
  HostFlag = NoIP
  LocalIp = a
  Lookup = TRUE
  ExitOnIPLookupFailure = FALSE
  DeregisterAlways = TRUE
  RefreshTtl = 0
  RefreshInterval = 0
  Resync = FALSE
  Cleanup = FALSE
  ListsServices = FALSE
  RefreshMode = "noop"
  KeyedByAddress = FALSE
  Recognised <- OwnKeys
  InitialEntries = {}
  MaxEvents = 3
  MaxFaults = 0
  MaxCrashes = 0
INVARIANTS NoOrphan SyncSnapshotHolds
PROPERTY FrozenOnceHung
SYMMETRY Symmetry
CHECK_DEADLOCK FALSE
