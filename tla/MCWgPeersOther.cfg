\* One property at a time: the one below, or one of these with
\* the constants named after it.
\*   INVARIANT LeasedAreMarked: Scopes <- Seeding
\*   INVARIANT LeasedAreMarked: Scopes <- EnableOnly, MayFail = TRUE
\*   INVARIANT HandoutsExclusive: Scopes <- EnableDisable, MaxFresh = 3
\*   INVARIANT NothingLeaks: Scopes <- EnableOnly
\*   INVARIANT StartedMeansUp: Scopes <- StartStop
\*   INVARIANT SettingsBoot: Scopes <- Patching
\*   PROPERTY SettingsOutliveBoot: Scopes <- Patching
\*   INVARIANT PeersFitSubnet: TomlSubnet <- Narrow, Scopes <- EnablePatch
\*   PROPERTY PeersConverge: SPECIFICATION FairSpec, Scopes <- EnableRotate
SPECIFICATION Spec
CONSTANTS
  u1 = u1  u2 = u2  k1 = k1  r1 = r1  r2 = r2
  None = None
  Users = {u1, u2}
  Subnets <- AllSubnets
  TomlSubnet <- Wide
  ClientKeys = {k1}
  Reqs = {r1, r2}
  Scopes <- EnableTwice
  MayFail = FALSE
  MaxFresh = 2
INVARIANT OnePeerPerUser
