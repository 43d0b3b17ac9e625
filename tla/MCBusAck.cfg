SPECIFICATION RSpec
CONSTANTS
    Rom <- BusLoop
    RamAddrs <- StackTop
    RamImages <- MCRamImages
    OpenBus = 255
    DataBus <- OneVector
    RegPairs <- Zero
    Snapshots <- None
    EdgeSP <- Zero
    MaxPrefix = 2
PROPERTIES StepExecutes
