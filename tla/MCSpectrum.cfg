SPECIFICATION HSpec
CONSTANTS
    Rom <- Spectrum
    RamAddrs <- StackTop
    RamImages <- MCRamImages
    OpenBus = 255
    DataBus <- OneVector
    RegPairs <- Zero
    Snapshots <- None
    EdgeSP <- None
    MaxPrefix = 1
    Start = 32768
    Frame = 500
    Window = 64
INVARIANTS FrameServed FrameOnce
PROPERTIES FramesEnd
