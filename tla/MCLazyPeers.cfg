SPECIFICATION FairSpec
CONSTANTS
  a = a
  b = b
  c = c
  None = None
  Keys = {a, b}
  Clients = {a}
  Ips <- MCIps
  IpOf <- MCIpOf
  MaxWrites = 3
  MaxFaults = 2
  Scopes <- MCScopes
INVARIANT EvictionEnds
PROPERTY RevokedLeaves
PROPERTY EnabledServed
CHECK_DEADLOCK FALSE
