SPECIFICATION FairSpec
CONSTANTS
  a1 = a1
  nobody = nobody
  shutdown = shutdown
  MaxQueue = 3
  MaxBatch = 2
  Admins = {a1}
  Nobody = nobody
  Shutdown = shutdown
  MaxPushes = 5
  MaxFailures = 2
  MaxLostAcks = 1
INVARIANTS
  TypeOK
  StatusAccounts
  RecountsAreLostAcks
PROPERTIES
  DropsOnlyWhenFull
  ImplementsLedger
  EventsSettle
CHECK_DEADLOCK FALSE
