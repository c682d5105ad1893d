SPECIFICATION FairSpec
CONSTANTS
  u1 = u1  u2 = u2  k1 = k1  r1 = r1  r2 = r2
  None = None
  Users = {u1, u2}
  Subnets <- AllSubnets
  TomlSubnet <- Narrow
  ClientKeys = {k1}
  Reqs = {r1, r2}
  Scopes <- Together
  MayFail = FALSE
  MaxFresh = 2
INVARIANTS TypeOK FlagMatchesRow LeasedAreMarked StartedMeansUp HandoutsExclusive
PROPERTY KeysConverge
