SPECIFICATION ProgramsSpec
CONSTANTS
  c1 = c1  c2 = c2
  Conn = {c1, c2}
  Worker <- TwoLoops
  HasEsta = FALSE
  MsgUses = {"send", "reply"}
  TimerUses = {}
  PeerResets = TRUE
  ZeroFree = TRUE
  MaxOut = 1
CHECK_DEADLOCK FALSE
INVARIANTS
  NoUseAfterFree
  ClosedByItsThread
  OutputIsArmed
  DeletedAfterOutput
PROPERTIES
  EofIsClosedByWorkers
  IsAccepted
