SPECIFICATION FairWindow
CONSTANTS
  NumLayers = 2
  Width = 2
  Expert <- MCExperts
  Layer <- MCLayers
  LayerOf <- MCLayerOf
  LoadOrder <- MCLoadOrder
  VramCap = 3
  HostCap = 3
  PreloadWarm = TRUE
  QueueCap = 1
  MaxOps = 100
  MaxLeases = 8
  Staging = 4
  MaxFaults = 1
  TopK = 1
  Rows = 2
  Chunks = 2
  Drawn = 2
  Blocks = 2
  MaxWindows = 2
INVARIANTS WindowSound HealthyPassesSucceed 
PROPERTIES KernelsReadTheirExperts WindowsEnd
CHECK_DEADLOCK FALSE
