CONSTANTS
  p1 = p1
  p2 = p2
  p3 = p3
  p4 = p4
  NumNodes = 3
  NodeKMS <- MCNodeKMS
  NodeConns <- MCNodeConns
  Phys <- MCPhys
  ConnName <- MCConnName
  ConnType <- MCConnType
  FixedPath = FALSE
  OrderChoices <- MCOrderChoices
  MaxRegistrations = 2
SPECIFICATION Spec
INVARIANT NoSwapPastEnd
CHECK_DEADLOCK FALSE
