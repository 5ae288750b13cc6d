SPECIFICATION WindowSpec
CONSTANTS
  NumLayers = 3
  Width = 2
  Expert <- MCExperts
  Layer <- MCLayers
  LayerOf <- MCLayerOf
  LoadOrder <- MCLoadOrder
  VramCap = 4
  HostCap = 3
  PreloadWarm = TRUE
  QueueCap = 1
  MaxOps = 100
  MaxLeases = 8
  Staging = 4
  MaxFaults = 0
  TopK = 1
  Rows = 2
  Chunks = 1
  Drawn = 1
  Blocks = 2
  MaxWindows = 1
INVARIANT CopiesLanded
