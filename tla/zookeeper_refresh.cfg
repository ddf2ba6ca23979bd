\* A refresh that works on a copy races a removal; no call fails.
SPECIFICATION Spec
CONSTANTS
  s1 = s1  s2 = s2  h1 = h1  h2 = h2  n1 = n1  None = None
  Services = {s1, s2}
  Hosts = {h1, h2}
  Names = {n1}
  HostOf <- TwoHosts
  NameOf <- OneName
  MaxEvents = 3
  MaxEnds = 0
  MaxFaults = 0
INVARIANT Deregistered
CHECK_DEADLOCK FALSE
