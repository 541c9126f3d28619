SPECIFICATION Spec
CONSTANTS
  Vlans = {v1, v2, v3}
  NoVlan = NoVlan
  HostLists = {l1, l2}
  MaxEdits = 0
  MaxRestarts = 0
  MaxFailures = 0
SYMMETRY Symmetry
PROPERTIES
  NoStaleLinks
