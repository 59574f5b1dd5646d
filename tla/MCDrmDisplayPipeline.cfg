CONSTANTS
  c1 = c1
  c2 = c2
  c3 = c3
  NoOwner = NoOwner
  NoPipeline = NoPipeline
  Connectors <- MCConnectors
  NumEncoders = 3
  NumCrtcs = 3
  NumPlanes = 5
  ConnEncoders <- MCConnEncoders
  EncCrtcs <- MCEncCrtcs
  EncCurrentCrtc <- MCEncCurrentCrtc
  PlaneCrtcs <- MCPlaneCrtcs
  PlaneType <- MCPlaneType
SPECIFICATION Spec
INVARIANTS
  ExclusiveOwnership
  NoOrphanClaims
PROPERTIES
  BindComplete
  ClaimModel
