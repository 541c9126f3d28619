SPECIFICATION FairSpec
CONSTANTS
  Urls = {s1}
  shouldCheckConnection = TRUE
  checkConnectionInterval = 1
  checkQueueInterval = 1
  ticketTimeoutInterval = 3
  MaxLists = 1
  MaxClicks = 0
PROPERTIES
  TicketEnds
