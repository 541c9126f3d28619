SPECIFICATION Spec
CONSTANTS
  Hosts = {h1, h2, h3}
  Node1 = NoHost
  Node10 = NoHost
  minVlanId = 20
  maxVlanId = 23
  defaultVlanId = 19
  MaxOctet = 4
  SettingsChoices <- Mixed
INVARIANTS
  UniqueAddresses
