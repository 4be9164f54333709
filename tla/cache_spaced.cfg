SPECIFICATION Spec
CONSTANTS
  Servers = {s1}
  Keys = {k1, k2}
  AllOrgsKeys = {k2}
  Values = {v1}
  Slots = {g1}
  Admins = {a1, a2}
  NoConfig = NoConfig
  Idle = Idle
  Spawned = Spawned
  NoToken = NoToken
  Done = Done
  Failed = Failed
  MaxVersion = 4
  MaxFaults = 2
  Spaced = TRUE
INVARIANTS
  TypeOK
  CaughtUpIsFresh
PROPERTIES
  ReportedDone
  AllOrgsKept
  ActsAsStore
  Converges
\* Changes are bounded, and a server with nothing to catch up with waits.
CHECK_DEADLOCK FALSE
