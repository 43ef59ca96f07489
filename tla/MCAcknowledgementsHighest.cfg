\* No fault: two receipts handled side by side.
CONSTANTS
    n1 = n1
    r1 = r1
    r2 = r2
    w1 = w1
    w2 = w2
    None = None
    Notifications = {n1}
    Receipts = {r1, r2}
    Workers = {w1, w2}
    RetryLimit = 1
    GraceRetries = 1
    FaultBudget = 0
SPECIFICATION Spec
SYMMETRY Interchangeable
INVARIANTS StoredIsHighestSeen
CHECK_DEADLOCK FALSE
