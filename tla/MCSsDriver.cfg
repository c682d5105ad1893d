SPECIFICATION FairSpec
CONSTANTS
  u1 = u1  p1 = p1  p2 = p2  r1 = r1  r2 = r2  c1 = c1  c2 = c2  c3 = c3
  None = None
  Users = {u1}
  Ports = {p1, p2}
  Reqs = {r1, r2}
  Starters = {r1}
  Scopes <- Together
  Chans = {c1, c2}
  MaxPsk = 1
INVARIANTS TypeOK OneServer SettledMeansApplied DownMeansDown
PROPERTY EventuallyCurrent
