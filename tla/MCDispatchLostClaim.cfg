\* Two workers and the two faults it takes to lose a claim and come back.
CONSTANTS
    n1 = n1
    w1 = w1
    w2 = w2
    None = None
    Notifications = {n1}
    Workers = {w1, w2}
    MaximumAttempts = 2
    FaultBudget = 2
SPECIFICATION Spec
PROPERTIES LostClaimMovesNothing
CHECK_DEADLOCK FALSE
