CONSTANTS
  Countdown = 2
  MaxRegs = 2
  MaxPolicy = 2
SPECIFICATION Spec
INVARIANT SinksStay
