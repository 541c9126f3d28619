SPECIFICATION FairSpec
CONSTANTS
  Urls = {s1, s2}
  shouldCheckConnection = TRUE
  checkConnectionInterval = 4
  checkQueueInterval = 1
  ticketTimeoutInterval = 2
  MaxLists = 2
  MaxClicks = 1
INVARIANTS
  TypeOK
  WaitHasTimer
PROPERTIES
  PostedInOrder
  TicketEnds
  QueueDrains
