SPECIFICATION LoggerFairSpec
CONSTANTS
  m1 = m1  m2 = m2  m3 = m3  m4 = m4
  Msg = {m1}
  Size <- Sizes
  Back = {b1}
  FirstBack = b1
  Stopper = {s1}
  BufferSize = 3
  EmptysInit = 1
  EmptysMax = 2
  SizeMax = 7
CHECK_DEADLOCK FALSE
PROPERTY StopReturns
