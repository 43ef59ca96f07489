\* Two workers, four instants, clocks off by one.
CONSTANTS
    w1 = w1
    w2 = w2
    Workers = {w1, w2}
    Ends = {0, 3}
    PacingMinimum = 2
    PacingMaximum = 2
    FallbackPause = 1
    MaximumAge = 3
    ClockError = 1
    Horizon = 4
SPECIFICATION Spec
SYMMETRY WorkerSymmetry
INVARIANTS
    TypeOK
    PauseHeeded
PROPERTIES
    PauseNeverShortened
    SlotsKeepDistance
    RefreshesKeepDistance
CHECK_DEADLOCK FALSE
