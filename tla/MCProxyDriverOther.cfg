\* One property at a time: the one below, or one of these with
\* the constants named after it.
\*   INVARIANT StoppedForgets: Starters = {r1}
\*   INVARIANT SettledMeansApplied: Scopes <- StartStopScope
\*   PROPERTY DownMeansStartable: Starters = {r1}, Scopes <- ContendScope
SPECIFICATION Spec
CONSTANTS
  u1 = u1
  r1 = r1
  r2 = r2
  a = a
  b = b
  g1 = g1
  k1 = k1
  recon = recon
  None = None
  Users = {u1}
  Reqs = {r1, r2}
  Starters = {r1, r2}
  Writers = {r2}
  Scopes <- StopScope
  Chans = {a, b}
  Gens = {g1}
  Conns = {k1}
  MaxInflight = 1
  MaxPass = 1
  Recon = recon
CHECK_DEADLOCK FALSE
INVARIANT RunningMeansListening
