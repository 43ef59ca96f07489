\* Two receipts for one notification, two workers, any two faults.
CONSTANTS
    n1 = n1
    r1 = r1
    r2 = r2
    w1 = w1
    w2 = w2
    None = None
    Notifications = {n1}
    Receipts = {r1, r2}
    Workers = {w1, w2}
    RetryLimit = 2
    GraceRetries = 1
    FaultBudget = 2
SPECIFICATION Spec
SYMMETRY Interchangeable
INVARIANTS
    TypeOK
    StoryAgrees
    AcceptedKeepsJob
PROPERTIES
    FinalStaysFinal
CHECK_DEADLOCK FALSE
