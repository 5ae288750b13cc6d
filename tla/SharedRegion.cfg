SPECIFICATION DrivenSpec
CONSTANTS
    Topologies <- MCPipelines
    Budgets <- MCConfigs
    Devices <- MCDevices
    Layers = 5
    ExpertsPerLayer = 3
    TopK = 1
    PayloadBytes = 2
    MaxPosition = 5
    DenseBytes = 1
    DecodeScratch = 1
    BatchScratch = 1
    CarryPerToken = 1
    LocalBytes = 1
    RopeBytes = 1
    Utilization = 90
    HostAllowed = 44
    CapFloor = 2
    Wrap = 64
INVARIANTS PlanSound  RegionSound
CHECK_DEADLOCK FALSE
