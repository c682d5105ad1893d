\* One property at a time: the one below, or one of these with
\* the constants named after it.
\*   PROPERTY OnDemandOnly: SPECIFICATION Spec, MaxWrites = 1, Scopes <- MCQuiet
\*   INVARIANT StoppedMeansDown: SPECIFICATION Spec, MaxWrites = 1, Scopes <- MCStop
\*   INVARIANT EvictsWhileUp: SPECIFICATION Spec, MaxWrites = 1, MaxFaults = 1, Scopes <- MCStop
\*   PROPERTY OneLookup: SPECIFICATION Spec, MaxWrites = 1
\*   PROPERTY EvictsOnlyIdle: SPECIFICATION Spec, MaxWrites = 1
\*   INVARIANT MirrorTrue: SPECIFICATION Spec, MaxWrites = 1
SPECIFICATION FairSpec
CONSTANTS
  a = a
  b = b
  c = c
  None = None
  Keys = {a, b}
  Clients = {a}
  Ips <- MCIps
  IpOf <- MCIpOf
  MaxWrites = 2
  MaxFaults = 0
  Scopes <- MCHandshakes
CHECK_DEADLOCK FALSE
PROPERTY RoutesConverge
