SPECIFICATION Spec
CONSTANTS
  admin = admin  admin2 = admin2  poller = poller
  ka = ka  kb = kb  kx = kx
  Tasks = {admin, poller}
  Scopes <- Together
  Keys <- ThreeKeys
  Prio <- Order
  Rule <- Texts
  Baseline <- Rules
  Snapshots <- Declared
  Strays <- Leftover
  MayFail = TRUE
  MaxFresh = 2
INVARIANTS TypeOK RuleHasRow ReconcileRestores ControlDeclared
PROPERTIES SourceBoundary
