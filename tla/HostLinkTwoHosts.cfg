SPECIFICATION Spec
CONSTANTS
  Ips = {h1, h2}
  Ports = {p1}
  NoPort = NoPort
  ListSizes = {0, 1, 2}
  MaxCommands = 2
SYMMETRY Symmetry
CHECK_DEADLOCK FALSE
INVARIANTS
  TypeOK
  TicketHasTimer
  SoleOwner
  WindowBound
