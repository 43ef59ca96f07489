\* One receipt, two workers, two faults and a retry past the grace to spare for each.
CONSTANTS
    n1 = n1
    r1 = r1
    w1 = w1
    w2 = w2
    None = None
    Notifications = {n1}
    Receipts = {r1}
    Workers = {w1, w2}
    RetryLimit = 3
    GraceRetries = 1
    FaultBudget = 2
SPECIFICATION FairSpec
PROPERTIES EventuallyResolved
CHECK_DEADLOCK FALSE
