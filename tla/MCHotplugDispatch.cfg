CONSTANTS
  Displays = {d1, d2}
  MaxChanges = 3
  MaxRegs = 2
SPECIFICATION Spec
INVARIANTS LoopExclusive NoChangeMissed
PROPERTY KnownConverges
CHECK_DEADLOCK FALSE
