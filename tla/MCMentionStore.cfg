SPECIFICATION Spec
CONSTANTS
    NoRun = NoRun
    Runs = {r1, r2}
    Contents = {c1, c2}
    BatchSize = 1
    MaxAttempts = 2
    MaxFaults = 3
SYMMETRY Symmetry
CHECK_DEADLOCK FALSE
INVARIANT TypeOK CacheHoldsAnswers GapIsReported OwnVerdictIsStored
PROPERTY SilentMissNeedsAnotherRun
