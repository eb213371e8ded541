SPECIFICATION TimingSpec
CONSTANTS
  Conn = {c1, c2}
  MaxIdle = 3
  Handler = {t1, t2}
CHECK_DEADLOCK FALSE
INVARIANTS
  NeverDangling
  TwiceIfOvertaken
  FoundInTime
  OwnDescriptor
PROPERTIES
  CancelIsFinal
  IdleIsDeleted
  OneTaskRuns
