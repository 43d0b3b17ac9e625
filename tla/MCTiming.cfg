SPECIFICATION Spec
CONSTANTS
    Opcodes <- AllBytes
    MaxPrefix = 2
INVARIANTS TimingAssertion LongestInstruction ReadsBeforeWrites
