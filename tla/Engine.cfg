SPECIFICATION EngineSpec
CONSTANTS
  Token = {0, 1, 2}
  Key = {0, 1}
  Eos = 2
  Capacity = 4
  MaxNew = 2
  Window = 2
  Dist <- MCDist
  TextTokens <- MCTokens
  MaxTokens = 5
  Models <- MCModels
  MaxStream = 7
  ProfilePrompts = {p1, p2}
  Texts = {t1, t2}
  Configs = {c1, c2}
  MaxStarts = 4
VIEW MCView
INVARIANTS SessionSound TextReassembles ReuseCurvesExact CheckpointsConsistent
PROPERTIES EqualsColdRun NothingForgotten
CHECK_DEADLOCK FALSE
