SPECIFICATION Spec
CONSTANTS
  HeadSize = 2
  MsgMaxSize = 3
  ReadBufSize = 2
  ReadMax = 4
  Cuts = {"body"}
  Outboxes <- MCOutboxes
INVARIANTS
  DeliveredIntact
\* A closed task does nothing any more, nor does one that has read everything.
CHECK_DEADLOCK FALSE
