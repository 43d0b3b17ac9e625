SPECIFICATION FairSpec
CONSTANTS
    Base = 4
    Program = 15
    StackTop = 8
    MaxInterrupts = 1
INVARIANTS
    TransferExact
    SearchExact
    PortSequence
    RoundsExact
PROPERTY BlockEnds
