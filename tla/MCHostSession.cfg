CONSTANTS
  f1 = f1
  f2 = f2
  k1 = k1
  w = w
  Firing <- MCFiring
  Setup <- MCSetup
  Request <- MCRequest
  Watcher <- MCWatcher
  ChunkBuffer = 1
  StatusBuffer = 2
  MaxAttempts = 2
  TTYBuffer = 1
SPECIFICATION FairSpec
INVARIANTS
  RemovedIsDone
PROPERTIES
  EndsWithCaller
CHECK_DEADLOCK FALSE
