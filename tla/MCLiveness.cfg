SPECIFICATION HFairSpec
CONSTANTS
    Rom <- WaitLoop
    RamAddrs <- StackTop
    RamImages <- MCRamImages
    OpenBus = 255
    DataBus <- Acks
    RegPairs <- OneWord
    Snapshots <- None
    EdgeSP <- Zero
    MaxPrefix = 2
INVARIANT NoIntNesting
PROPERTIES QuietHostSettles LevelIntServed
