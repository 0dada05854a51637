SPECIFICATION Spec
CONSTANTS
  a1 = a1
  nobody = nobody
  shutdown = shutdown
  MaxQueue = 3
  MaxBatch = 2
  Admins = {a1}
  Nobody = nobody
  Shutdown = shutdown
  MaxPushes = 4
  MaxFailures = 1
  MaxLostAcks = 0
INVARIANT ShutdownFlushes
CHECK_DEADLOCK FALSE
