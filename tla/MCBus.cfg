SPECIFICATION RFairSpec
CONSTANTS
    Rom <- BusLoop
    RamAddrs <- StackTop
    RamImages <- MCRamImages
    OpenBus = 255
    DataBus <- OneVector
    RegPairs <- Zero
    Snapshots <- BusSnapshots
    EdgeSP <- MidPush
    MaxPrefix = 2
PROPERTIES ImplementsControl StepReturns
