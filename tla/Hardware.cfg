SPECIFICATION FairSpec
CONSTANTS
    w1 = w1
    w2 = w2
    Vision = Vision
    Order <- FleetTiers
    Other = {2}
    Installed = {1, 3}
    Worker <- Workers2
    Window = 2
    Scenes <- FleetScenes
INVARIANTS
    HardwareTypeOK
    OwnOllamaMode
PROPERTIES
    ScaleUpOnlyBy
    ThrottleSparesGpu
    ThrottleEndsCool
    GateClosed
    GateOpens
    ModelComesBack
CHECK_DEADLOCK FALSE
