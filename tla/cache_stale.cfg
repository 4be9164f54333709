SPECIFICATION Spec
CONSTANTS
  Servers = {s1}
  Keys = {k1}
  AllOrgsKeys = {}
  Values = {v1}
  Slots = {g1, g2}
  Admins = {a1}
  NoConfig = NoConfig
  Idle = Idle
  Spawned = Spawned
  NoToken = NoToken
  Done = Done
  Failed = Failed
  MaxVersion = 2
  MaxFaults = 0
  Spaced = FALSE
PROPERTIES
  Converges
\* Changes are bounded, and a server with nothing to catch up with waits.
CHECK_DEADLOCK FALSE
