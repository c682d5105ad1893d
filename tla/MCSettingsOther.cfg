\* One property at a time: the one below, or one of these with
\* the constants named after it.
\*   INVARIANT AgreesWhenQuiet: SYMMETRY Interchangeable
\*   PROPERTY EditsOutliveBoot: Scenarios <- MCClearing
\*   INVARIANT TomlProvidesDefaults: Scenarios <- MCFilePorts, SYMMETRY Interchangeable
\*   INVARIANT ReadonlyShowsState: Scenarios <- MCLocked, SYMMETRY Interchangeable
SPECIFICATION SettingsSpec
CONSTANTS
  r1 = r1
  r2 = r2
  Unset = Unset
  Reqs = {r1, r2}
  Passwords = {"p1", "p2"}
  Domains = {"d1", "d2"}
  Subnets = {"s1", "s2"}
  SsPorts = {4433, 8388}
  WgPorts = {51820, 4500}
  Bind = "bind"
  Defaults <- MCDefaults
  Scenarios <- MCEdits
  MaxGen = 3
  MaxEvents = 2
CHECK_DEADLOCK FALSE
PROPERTY ReloadClearsHost
