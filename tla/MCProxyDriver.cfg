SPECIFICATION FairSpec
CONSTANTS
  u1 = u1
  r1 = r1
  r2 = r2
  a = a
  b = b
  g1 = g1
  k1 = k1
  recon = recon
  None = None
  Users = {u1}
  Reqs = {r1, r2}
  Starters = {r1}
  Writers = {r2}
  Scopes <- AllScopes
  Chans = {a, b}
  Gens = {g1}
  Conns = {k1}
  MaxInflight = 1
  MaxPass = 1
  Recon = recon
INVARIANTS TypeOK SettledMeansApplied RunningMeansListening
PROPERTIES DownMeansStartable EventuallyCurrent StopEndsConnections
CHECK_DEADLOCK FALSE
