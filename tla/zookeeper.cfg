\* Two bridges that share a base node; one call fails, one session or process
\* ends.
SPECIFICATION FairSpec
CONSTANTS
  s1 = s1  s2 = s2  h1 = h1  h2 = h2  n1 = n1  None = None
  Services = {s1, s2}
  Hosts = {h1, h2}
  Names = {n1}
  HostOf <- TwoHosts
  NameOf <- OneName
  MaxEvents = 3
  MaxEnds = 1
  MaxFaults = 1
INVARIANTS NoStrayNode BaseSwept
PROPERTY Published
CHECK_DEADLOCK FALSE
