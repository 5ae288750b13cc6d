SPECIFICATION PatientSpec
CONSTANTS
  c1 = c1
  c2 = c2
  c3 = c3
  c4 = c4
  Client <- FourClients
  Streaming <- NoStreaming
  MaxQueue = 2
  MaxDeltas = 0
  EarlyStop = FALSE
SYMMETRY ClientSymmetry
INVARIANT StopEndsEveryJob
PROPERTIES FifoService RefusesAfterShutdown
