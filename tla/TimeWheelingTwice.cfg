SPECIFICATION Spec
CONSTANTS
  Conn = {c1}
  MaxIdle = 3
CHECK_DEADLOCK FALSE
INVARIANT NeverTwice
