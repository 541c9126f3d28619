SPECIFICATION FairSpec
CONSTANTS
  Ips = {h1}
  Ports = {p1, p2}
  NoPort = NoPort
  ListSizes = {1, 2}
  MaxCommands = 2
CHECK_DEADLOCK FALSE
INVARIANTS
  HandlerHasSocket
  SoleOwner
  InOrder
PROPERTIES
  DeliveredInOrder
  QueueDrains
  Reconnects
