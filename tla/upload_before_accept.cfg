SPECIFICATION Spec
CONSTANTS
  FileSizes = {1, 2, 3}
  MaxGrow = 7
  BufSize = 2
  HeadSize = 2
  WireCap = 3
  FaultSets = {{"open"}}
INVARIANTS
  SendsWhenReady
\* With the file sent and both tasks waiting, or closed, nothing happens any more.
CHECK_DEADLOCK FALSE
