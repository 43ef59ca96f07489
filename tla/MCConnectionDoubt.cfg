\* Exact clocks: a doubt between the reading of the row and the claim of the refresh.
CONSTANTS
    w1 = w1
    w2 = w2
    Workers = {w1, w2}
    Ends = {0, 3}
    PacingMinimum = 2
    PacingMaximum = 2
    FallbackPause = 1
    MaximumAge = 3
    ClockError = 0
    Horizon = 2
SPECIFICATION Spec
SYMMETRY WorkerSymmetry
PROPERTIES DoubtAsksWhatsApp
CHECK_DEADLOCK FALSE
