\* One property at a time: the one below, or one of these with
\* the constants named after it.
\*   INVARIANT FallbackIsReal: SPECIFICATION CCSpec, Cursors = {1, 2, 3}, KernelReady = TRUE, Scopes = {{"admin"}, {"status"}, {"truncate"}}, History <- MCHistory, Snapshots <- MCSnapshots
SPECIFICATION CCFairSpec
CONSTANTS
  i1 = i1  i2 = i2  n1 = n1  n2 = n2  t1 = t1  t2 = t2  s1 = s1  r1 = r1  a1 = a1
  None = None
  Ids = {i1, i2}
  Names = {n1, n2}
  LocalUsers <- MCLocalUsers
  Notes = {t1, t2}
  Rules = {r1}
  Settings = {s1}
  Cursors = {1, 2}
  Admins = {a1}
  Policy = "keep"
  HasIptables = TRUE
  SsEnabled = TRUE
  WgBackend = "auto"
  KernelReady = FALSE
  MaxFaults = 1
  Scopes = {{"admin"}}
  History <- Dropped
  Snapshots <- DroppedSnapshots
PROPERTY RefusalHeard
