SPECIFICATION Spec
CONSTANTS
  Hosts = {n1, n10, h3, h4}
  Node1 = n1
  Node10 = n10
  minVlanId = 19
  maxVlanId = 22
  defaultVlanId = 19
  MaxOctet = 3
  SettingsChoices <- Consistent
SYMMETRY Symmetry
INVARIANTS
  TypeOK
  FullMesh
  NoLoops
  Segmented
  UniqueAddresses
