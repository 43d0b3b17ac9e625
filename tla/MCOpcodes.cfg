SPECIFICATION Spec
CONSTANTS
    Rom <- NoRom
    RamAddrs <- OpcodeRam
    RamImages <- AnyOpcode
    OpenBus = 195
    DataBus <- OneVector
    RegPairs <- Registers16
    Snapshots <- None
    EdgeSP <- MidPush
    MaxPrefix = 3
INVARIANTS TypeOK Iff1NeedsIff2 HaltedOnHalt
