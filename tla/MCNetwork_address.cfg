CONSTANTS
  Stations = {m1}
  Addresses <- MCAddresses
  Servers = {s1}
  Pool <- MCPool
  CacheSize = 2
SPECIFICATION Spec
INVARIANT Reachable
