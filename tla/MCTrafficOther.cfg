\* One property at a time: the one below, or one of these with
\* the constants named after it.
\*   INVARIANT NeverOvercharged: Keys = {k1, l1}, Samplers = {s1}, MaxEvents = 2, Scopes <- MCReuse
\*   PROPERTY RestartsCountAll: SPECIFICATION FairSpec, MaxBytes = 2, Scopes <- MCSteady
SPECIFICATION Spec
CONSTANTS
  i1 = i1
  j1 = j1
  k1 = k1
  l1 = l1
  s1 = s1
  t1 = t1
  None = None
  Ids = {i1}
  Keys = {k1}
  Samplers = {s1, t1}
  MaxBytes = 3
  MaxHour = 1
  MaxEvents = 1
  Scopes <- MCOverlap
CHECK_DEADLOCK FALSE
INVARIANT NeverOvercharged
