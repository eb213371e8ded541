SPECIFICATION Spec
CONSTANTS
  Conn = {c1}
  Use = {"send"}
  AskState = TRUE
  TaskSends = FALSE
  PeerResets = TRUE
  MaxOut = 1
CHECK_DEADLOCK FALSE
INVARIANT EstablishedTruly
