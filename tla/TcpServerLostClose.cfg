SPECIFICATION ProgramsSpec
CONSTANTS
  c1 = c1  c2 = c2
  Conn = {c1}
  Worker <- NoPool
  HasEsta = FALSE
  MsgUses = {"send"}
  TimerUses = {"send"}
  PeerResets = FALSE
  ZeroFree = FALSE
  MaxOut = 2
CHECK_DEADLOCK FALSE
PROPERTY EofIsClosed
