SPECIFICATION Spec
CONSTANTS
  FileSizes = {0, 1, 2, 3, 4, 6}
  MaxGrow = 7
  BufSize = 3
  HeadSize = 2
  WireCap = 4
  FaultSets = {{}, {"open", "link", "timeout", "grow"}}
INVARIANTS
  TypeOK
  CompleteMeansStored
  NothingLost
  SendingGoesOn
PROPERTIES
  ImplementsTransfer
  BothReleased
\* With the file sent and both tasks waiting, or closed, nothing happens any more.
CHECK_DEADLOCK FALSE
