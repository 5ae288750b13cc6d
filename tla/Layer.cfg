SPECIFICATION LayerSpec
CONSTANTS
    Kinds = {"sliding", "csa", "hca"}
    CsaRatio = 2
    HcaRatio = 3
    Window = 3
    IndexTopK = 2
    MaxSeq = 7
    Generations = 2
    MaxChunk = 5
    Score <- MCScore
    Garbage <- MCGarbage
    E = 4
    TopK = 2
    MoeChunk = 3
    PerLaunch = 3
    Scores = {0, 1}
    Shapes <- MCShapes
    Waves = 2
VIEW MCView
INVARIANTS ReadsMatchOracle StateMatchesOracle RoutesMatchOracle ChunkMatchesOracle LayoutsAgree
INVARIANT LaunchesMatchOracle
CHECK_DEADLOCK FALSE
