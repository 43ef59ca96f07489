CONSTANTS
    MaxSessions = 1
    a1 = a1
    Account = {a1}
    k1 = k1
    Key = {k1}
    c1 = c1
    c2 = c2
    Client = {c1, c2}
    MaxRequests = 2
    Payload <- SomePayloads
    None = None
    h1 = h1
    h2 = h2
    Caller = {h1, h2}
    MaxQrAttempts = 2
    MaxCalls = 3
    MaxOperations = 3
    MaxBusy = 2
    MaxMishaps = 1
    MaxPending = 2
SYMMETRY Interchangeable
SPECIFICATION Spec
INVARIANTS
    AllOrNothing
    ReplayIsWhole
    DeletionSparesHistory
PROPERTIES
    ReplayFindsConnection
    KeepsContract
    OnlyCreationOrphans
CHECK_DEADLOCK FALSE
