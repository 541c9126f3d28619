SPECIFICATION Spec
CONSTANTS
  Ips = {h1, h2}
  Ports = {p1}
  NoPort = NoPort
  ListSizes = {1}
  MaxCommands = 1
CHECK_DEADLOCK FALSE
PROPERTIES
  OwnReplyClosesTicket
