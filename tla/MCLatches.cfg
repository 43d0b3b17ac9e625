SPECIFICATION Spec
CONSTANTS
    MaxPrefix = 2
    Snapshots <- MCSnapshots
INVARIANTS QAgrees
PROPERTIES ScfRule
