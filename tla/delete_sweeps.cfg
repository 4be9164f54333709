SPECIFICATION Spec
CONSTANTS
  Apps = {a1, a2}
  Orgs = {o1}
  Accounts = {c1}
  NoSection = NoSection
  MaxFaults = 2
INVARIANTS
  TypeOK
PROPERTIES
  SweepReachesAll
