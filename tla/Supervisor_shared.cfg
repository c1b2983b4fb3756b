SPECIFICATION Spec
CONSTANTS
  None = None
  MaxStarts = 3
  Lines = {"port"}
INVARIANTS
  OneChild
CHECK_DEADLOCK FALSE
