SPECIFICATION ClientSpec
CONSTANTS
  Conn = {c1, c2}
  Use = {"send", "close", "reply"}
  AskState = TRUE
  TaskSends = TRUE
  PeerResets = TRUE
  MaxOut = 2
  N = 2
  MaxBytes = 2
  MaxChunk = 4
  Byte <- Bits
  Chunk <- Chunks
  MemcpyOrder = {"up"}
  SizeMax = 99
  MaxSize = 9
CHECK_DEADLOCK FALSE
INVARIANTS
  RefusalIsHeard
  OutputIsArmed
  RoomIsEnough
PROPERTIES
  IsTold
  EofIsClosed
  ImplementsByteQueue
  GrowthIsBounded
