\* One fault of any kind, one attempt, and fair scheduling.
CONSTANTS
    n1 = n1
    w1 = w1
    w2 = w2
    None = None
    Notifications = {n1}
    Workers = {w1, w2}
    MaximumAttempts = 1
    FaultBudget = 1
SPECIFICATION FairSpec
PROPERTIES EventuallySettled
CHECK_DEADLOCK FALSE
