SPECIFICATION FairSpec
CONSTANTS
    CounterSize = 16
    IntSize = 8
    Durations = {1, 2}
    Waits = {0, 1}
    MaxStep = 2
    Targets <- ModestTargets
    SaveTimes = {5}
INVARIANTS
    StepExact
    RunForExact
    SinceReset
PROPERTY RunForReturns
