SPECIFICATION FairSpec
CONSTANTS
  Ips = {i1, i2}
  ShouldControl = TRUE
INVARIANTS
  TypeOK
  AlertsNoticed
  DeafOnlyWithoutFile
PROPERTIES
  OnlyReadAlertsGo
  HeldForDelay
  AlertsRead
