CONSTANTS
  Client = {c1, c2}
  MaxBlock = 2
  Faults = {"dial"}
  NoError = NoError
SPECIFICATION Spec
CHECK_DEADLOCK FALSE
PROPERTIES
  FirstErrorKept
