SPECIFICATION FairSpec
CONSTANTS
  i1 = i1
  j1 = j1
  k1 = k1
  l1 = l1
  s1 = s1
  t1 = t1
  None = None
  Ids = {i1, j1}
  Keys = {k1, l1}
  Samplers = {s1}
  MaxBytes = 2
  MaxHour = 2
  MaxEvents = 2
  Scopes <- MCScopes
INVARIANT NeverOvercharged
PROPERTY SteadyCountsAll
CHECK_DEADLOCK FALSE
