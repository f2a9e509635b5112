SPECIFICATION Spec
CONSTANTS
  HeadSize = 2
  MsgMaxSize = 3
  ReadBufSize = 2
  ReadMax = 5
  Cuts = {"message", "body", "any"}
  Outboxes <- MCWithStray
INVARIANTS
  TypeOK
  WholeDelivered
  FramingKept
  RawInOrder
  NoBufferLeak
  WithinBuffer
PROPERTIES
  EverythingRead
\* A closed task does nothing any more, nor does one that has read everything.
CHECK_DEADLOCK FALSE
