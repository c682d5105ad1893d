SPECIFICATION SettingsSpec
CONSTANTS
  r1 = r1
  r2 = r2
  Unset = Unset
  Reqs = {r1, r2}
  Passwords = {"p1", "p2"}
  Domains = {"d1", "d2"}
  Subnets = {"s1", "s2"}
  SsPorts = {4433, 8388}
  WgPorts = {51820, 4500}
  Bind = "bind"
  Defaults <- MCDefaults
  Scenarios <- MCScenarios
  MaxGen = 3
  MaxEvents = 2
SYMMETRY Interchangeable
INVARIANT OldTokensRefused
INVARIANT SettledMeansLive
CHECK_DEADLOCK FALSE
