\* One property at a time: the one below, or one of these with
\* the constants named after it.
\*   INVARIANT ResetWipesFirst: Admins = {a1}, Snapshots <- MCSnapshots
\*   INVARIANT CursorMeansApplied: as below
SPECIFICATION Spec
CONSTANTS
  i1 = i1  i2 = i2  n1 = n1  n2 = n2  t1 = t1  t2 = t2
  s1 = s1  s2 = s2  c1 = c1  c2 = c2  r1 = r1  r2 = r2
  None = None
  Ids = {i1, i2}
  Names = {n1, n2}
  Notes = {t1, t2}
  Rules = {r1, r2}
  Settings = {s1, s2}
  Cursors = {c1, c2}
  Admins = {a1, a2}
  Policy = "keep"
  HasIptables = TRUE
  Snapshots <- FewSnapshots
PROPERTY AdminSparesControl
