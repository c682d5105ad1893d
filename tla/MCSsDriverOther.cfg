\* One property at a time: the one below, or one of these with
\* the constants named after it.
\*   INVARIANT DownMeansDown or OneServer: Starters = {r1}, Scopes <- Aborting
\*   INVARIANT DownMeansDown or OneServer: as below
\*   INVARIANT ListensAsSet: Starters = {}, Scopes <- Patching, Chans = {c1, c2}
SPECIFICATION Spec
CONSTANTS
  u1 = u1  p1 = p1  p2 = p2  r1 = r1  r2 = r2  c1 = c1  c2 = c2  c3 = c3
  None = None
  Users = {u1}
  Ports = {p1, p2}
  Reqs = {r1, r2}
  Starters = {r1, r2}
  Scopes <- TwoStops
  Chans = {c1, c2, c3}
  MaxPsk = 1
INVARIANT RunningServes
