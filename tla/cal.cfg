SPECIFICATION Spec
CONSTANTS
    NumGroups = 2
    NumDq = 2
    DqsInReserve = 1
    DqsOutReserve = 1
    VfifoSize = 4
    PhaseMax = 3
    EnDelayMax = 6
    PtapDelay = 4
    DtapDelay = 1
    InMax = 6
    OutMax = 6
    DqsInMax = 6
    MaxLatency = 7
    MemRl = 2
    RlatSlack = 4
    FomMax = 3
    Eyes <- MCEyes
INVARIANTS
    SettingsInv
    HandoffInv
    StatusTruthful
    GoodBoardPasses
PROPERTIES
    Reports
