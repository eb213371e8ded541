SPECIFICATION ProgramsSpec
CONSTANTS
  c1 = c1  c2 = c2
  Conn = {c1}
  Worker <- OneLoop
  HasEsta = TRUE
  MsgUses = {"send", "close", "reply"}
  TimerUses = {}
  PeerResets = FALSE
  ZeroFree = FALSE
  MaxOut = 1
CHECK_DEADLOCK FALSE
INVARIANT NoUseAfterFree
