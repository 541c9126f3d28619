SPECIFICATION Spec
CONSTANTS
  Vlans = {v1, v2}
  NoVlan = NoVlan
  HostLists = {l1, l2}
  MaxEdits = 1
  MaxRestarts = 1
  MaxFailures = 1
SYMMETRY Symmetry
INVARIANTS
  TypeOK
  NamesKept
PROPERTIES
  LeftoversExplained
  AppliedAsSent
