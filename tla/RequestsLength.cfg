SPECIFICATION Spec
CONSTANTS
  Known = {"/port"}
  MaxAsked = 1
CHECK_DEADLOCK FALSE
PROPERTY LengthIsTaken
