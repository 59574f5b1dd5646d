CONSTANTS
  Displays = {d1, d2}
  MaxChanges = 2
  MaxRegs = 1
SPECIFICATION Spec
PROPERTY ViewConverges
CHECK_DEADLOCK FALSE
