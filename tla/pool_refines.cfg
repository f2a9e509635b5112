SPECIFICATION Spec
CONSTANTS
  ThreadCount = 3
  MaxTasks = 8
  PipeCap = 2
  NonBlocking = FALSE
  SetupMayFail = FALSE
INVARIANTS
  TypeOK
  WakeupBalance
PROPERTIES
  ImplementsDispatch
\* Once MaxTasks tasks were dispatched every thread waits for events.
CHECK_DEADLOCK FALSE
