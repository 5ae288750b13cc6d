SPECIFICATION Spec
CONSTANTS
  Layers = 2
  ExpertsPerLayer = 2
  Expert <- MCExpert
  Layer <- MCLayer
  LayerOf <- MCLayerOf
  LoadOrder <- MCLoadOrder
  VramCap = 2
  HostCap = 1
  PreloadWarm = TRUE
  QueueCap = 1
  MaxOps = 3
  MaxLeases = 1
VIEW MCView
INVARIANTS TypeOK VramAccounted HostAccounted OperationsResolvable AuditPasses
PROPERTIES LeasePinsResidency PreservedSurvive StreamKeepsWarm
