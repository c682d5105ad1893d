\* One property at a time: the one below, or one of these with
\* the constants named after it.
\*   INVARIANT ReconcileAgrees: Tasks = {admin, admin2}, Scopes <- TwoAdmins, Strays = {}
\*   INVARIANT PriorityOrder: Tasks = {admin, poller}, Scopes <- Reconciling
\*   INVARIANT BaselineOnce: Tasks = {admin, poller}, Scopes <- Reconciling, Baseline <- Rules
\*   INVARIANT Accounted: Scopes <- Removing, Tasks = {admin, admin2}
\*   INVARIANT ControlDeclared: Tasks = {admin, poller}, Scopes <- TwoPollers, MaxFresh = 3
SPECIFICATION Spec
CONSTANTS
  admin = admin  admin2 = admin2  poller = poller
  ka = ka  kb = kb  kx = kx
  Tasks = {admin, poller}
  Scopes <- Reconciling
  Keys <- ThreeKeys
  Prio <- Order
  Rule <- Texts
  Baseline <- NoRules
  Snapshots <- Declared
  Strays <- Leftover
  MayFail = FALSE
  MaxFresh = 2
INVARIANT ReconcileAgrees
