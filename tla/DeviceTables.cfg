SPECIFICATION Spec
CONSTANTS
  SwitchNames = {n1, n2}
  HostNames = {m1}
  plain = plain
  spelled = spelled
  Urls = {plain, spelled}
  NormalForm <- MCNormalForm
  Kinds = {banned}
  None = None
  MaxSwitches = 2
  MaxHosts = 2
  MaxScanners = 1
  MaxFailures = 1
SYMMETRY Symmetry
INVARIANTS
  TypeOK
  NoDanglingHost
  NoInheritedBan
  CommandsHaveHandlers
PROPERTIES
  UnchangedEditKeepsSwitch
