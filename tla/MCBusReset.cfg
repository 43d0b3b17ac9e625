SPECIFICATION WSpec
CONSTANTS
    Rom <- ResetLoop
    RamAddrs <- ShortStack
    RamImages <- ShortImages
    OpenBus = 199
    DataBus <- OneVector
    RegPairs <- Zero
    Snapshots <- None
    EdgeSP <- MidPush
    MaxPrefix = 2
    MaxResets = 2
INVARIANTS ResetSilences HaltedOnHalt
