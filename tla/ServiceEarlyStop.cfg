SPECIFICATION Spec
CONSTANTS
  c1 = c1
  c2 = c2
  c3 = c3
  c4 = c4
  Client <- TwoClients
  Streaming <- OneStreaming
  MaxQueue = 1
  MaxDeltas = 0
  EarlyStop = TRUE
PROPERTY RefusesAfterShutdown
