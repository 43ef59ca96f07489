\* One notification, two workers, two attempts, and any two faults.
CONSTANTS
    n1 = n1
    w1 = w1
    w2 = w2
    None = None
    Notifications = {n1}
    Workers = {w1, w2}
    MaximumAttempts = 2
    FaultBudget = 2
SPECIFICATION Spec
SYMMETRY WorkerSymmetry
INVARIANTS
    TypeOK
    BudgetKept
    LedgerAhead
    ResendOnRecord
    RetryingHasJob
PROPERTIES
    TransitionsLegal
    KeepsContract
CHECK_DEADLOCK FALSE
