SPECIFICATION FairDecode
CONSTANTS
  PerLayer = 3
  Expert <- MCExperts
  Layer = {0, 1}
  LayerOf <- MCLayerOf
  LoadOrder <- MCLoadOrder
  Layers <- MCLayers
  VramCap = 3
  HostCap = 1
  PreloadWarm = TRUE
  QueueCap = 1
  MaxOps = 100
  MaxLeases = 8
  Staging = 4
  MaxFaults = 1
  TopK = 2
  MaxTokens = 2
INVARIANTS DecodeSound HealthyPassesSucceed
PROPERTIES KernelsReadTheirExperts TokensEnd
