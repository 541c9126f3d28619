SPECIFICATION FairSpec
CONSTANTS
  Missing = Missing
  Empty = Empty
  MaxPending = 3
INVARIANTS
  TypeOK
  RunsAsSet
  TimerOfServer
  FormsOfLiveObjects
PROPERTIES
  EngineStarts
