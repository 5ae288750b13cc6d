SPECIFICATION WindowSpec
CONSTANTS
  NumLayers = 4
  Width = 2
  Expert <- MCExperts
  Layer <- MCLayers
  LayerOf <- MCLayerOf
  LoadOrder <- MCLoadOrder
  VramCap = 6
  HostCap = 2
  PreloadWarm = TRUE
  QueueCap = 1
  MaxOps = 100
  MaxLeases = 8
  Staging = 6
  MaxFaults = 0
  TopK = 2
  Rows = 1
  Chunks = 1
  Drawn = 2
  Blocks = 3
  MaxWindows = 1
PROPERTY ConsumedSkipsReturned
