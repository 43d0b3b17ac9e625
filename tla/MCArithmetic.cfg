SPECIFICATION Spec
CONSTANTS
    Operands <- BytesAndWords
    Counters <- EdgeCounters
    Accumulators <- EdgeAccumulators
INVARIANTS
    LongExact
    DecimalExact
    SignedOrder
    PairMatchesChain
    ShortForms
    ShiftExact
    TurnExact
