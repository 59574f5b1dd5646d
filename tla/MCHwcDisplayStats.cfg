CONSTANTS
  m1 = m1
  m2 = m2
  m0 = m0
  NoLayer = NoLayer
  NoMode = NoMode
  MaxLayers = 2
  ZOrders = {0, 1}
  ConfigIds = {1, 2}
  ConfigMode <- MCConfigMode
  PreferredConfig = 1
  BootMode = m0
  MaxPresents = 2
SPECIFICATION Spec
INVARIANT PresentStatsAccurate
