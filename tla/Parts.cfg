SPECIFICATION PartsSpec
CONSTANTS
  Task = {t1, t2, t3}
  Caller = {p1, p2}
  LoopThread = loop
  Source = {s1}
  EfdMax = 2
  WakeWord <- AnyWord
  m1 = m1  m2 = m2  m3 = m3  m4 = m4
  Msg = {m1, m2, m3, m4}
  Size <- Sizes
  Back = {b1, b2}
  FirstBack = b1
  Stopper = {s1}
  BufferSize = 3
  EmptysInit = 1
  EmptysMax = 2
  SizeMax = 7
  MaxThreads = 3
  Locker = {1, 2, 3}
  Known = {"/port"}
  MaxAsked = 2
  Served = {c1}
  Asked = {c2}
CHECK_DEADLOCK FALSE
INVARIANTS
  LoopTypeOK
  FlagCoversTasks
  WrittenInOrder
  NothingLeftBehind
  BuffersFit
  MutualExclusion
  ReadyOnReturn
  NoThreadLeft
  HandledAsAsked
  FramingKept
  WaitsForSurplus
  ToldOfEnd
  FailsOnlyWhenDown
PROPERTIES
  ImplementsTaskQueue
  TaskIsExecuted
  StopEndsLoop
  ImplementsLogFile
  IsWritten
  CallsReturn
  EndIsClosed
