SPECIFICATION Spec
CONSTANTS
  Apps = {a1}
  Orgs = {o1}
  Accounts = {c1}
  NoSection = NoSection
  MaxFaults = 0
PROPERTIES
  Forgotten
