SPECIFICATION Spec
CONSTANTS
    NumEngines = 3
    InDepth = 2
    BankDepth = 1
    TrackDepth = 2
    NumBanks = 2
    PagesPerPartition = 2
    NodesPerPage = 1
    PagesPerBank = 10
    Program <- MCProgram
INVARIANTS
    RequestsInv
    ReadsLastWrite
    RejectedWhenFull
PROPERTIES
    RequestsServed
