CONSTANTS
    MaxSessions = 1
    a1 = a1
    Account = {a1}
    k1 = k1
    Key = {k1}
    c1 = c1
    Client = {c1}
    MaxRequests = 1
    Payload <- SomePayloads
    None = None
    h1 = h1
    h2 = h2
    Caller = {h1, h2}
    MaxQrAttempts = 1
    MaxCalls = 3
    MaxOperations = 2
    MaxBusy = 2
    MaxMishaps = 1
    MaxPending = 1

    Asker = {q1, q2}
    Interval = 2
    Burst = 2
    MaxAge = 3
    MaxDelay = 1
    LastMoment = 4

    Guard = {g1, g2}
    MaxFailedLogins = 3
    Lockout = 2
    IdleLifetime = 1
    AbsoluteLifetime = 2
    MaxTokens = 1
    MaxTries = 9
    Closing = 2

    Clerk = {d1, d2}
    Visitor = {v1}
    Email = {e1, e2}
    MaxOrganizations = 2
    MaxApplications = 1
    MaxApiKeys = 1

    MaxRows = 4
    LastMicro = 2
    Millisecond = 2
    Limit = 2

    Screen <- SomeScreens
    MaxVersion = 1
    MaxCached = 2
    MaxVisits = 1

    OtherStatus = 418
    MaximumAttempts = 2
    MaxTurns = 4

    MaxBody = 6
    MaxValue = 2
    MaxRendered = 4
SPECIFICATION PlatformSpec
INVARIANTS
    PlatformTypeOK
    NeverOverspent
    AnswersStand
    GuessesBounded
    NeverTwice
    WalkReachesAll
    MutationShown
    NothingOfBefore
    LedgerIsTruthful
    NoSilentDuplicate
    TemplatesSayWhatIsMeant
PROPERTIES
    RowsConverge
    CallsEnd
    OwnOrganization
    OverForGood
    KeysStayInside
CHECK_DEADLOCK FALSE
