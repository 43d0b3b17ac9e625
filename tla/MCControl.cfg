SPECIFICATION HSpec
CONSTANTS
    Rom <- Interrupts
    RamAddrs <- PickRam
    RamImages <- PickImages
    OpenBus = 255
    DataBus <- BusBytes
    RegPairs <- OneLow
    Snapshots <- WaitSnapshots
    EdgeSP <- OneDeep
    MaxPrefix = 2
INVARIANTS StackHoldsFrames EnablesAgree
PROPERTIES NmiTransparent EiShadow IntAsAsked NmiOncePerEdge
