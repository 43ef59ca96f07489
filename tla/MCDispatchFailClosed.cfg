\* One fault: a worker lost between closing an attempt as unknown and failing the row.
CONSTANTS
    n1 = n1
    w1 = w1
    w2 = w2
    None = None
    Notifications = {n1}
    Workers = {w1, w2}
    MaximumAttempts = 2
    FaultBudget = 1
SPECIFICATION Spec
INVARIANTS FailClosedSendsOnce
CHECK_DEADLOCK FALSE
