SPECIFICATION ServerSpec
CONSTANTS
  ThreadCount = 2
  MaxTasks = 4
  PipeCap = 1
  NonBlocking = TRUE
  SetupMayFail = TRUE
  Backlog = 2
  MaxSockets = 3
INVARIANTS
  ServerTypeOK
  ListExclusive
  NotifyFindsTask
  DealtInTurn
  SocketsOwned
PROPERTIES
  ServedAndReleased
\* Once every client was served, or the listener is dead, every thread waits.
CHECK_DEADLOCK FALSE
