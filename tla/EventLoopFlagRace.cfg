SPECIFICATION LoopSpec
CONSTANTS
  Task = {t1}
  Caller = {c1}
  LoopThread = loop
  Source = {s1}
  EfdMax = 2
  WakeWord = {1}
INVARIANT NoTaskSleeps
