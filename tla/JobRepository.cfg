SPECIFICATION SceneSpec
CONSTANTS
    k1 = k1
    k2 = k2
    o1 = o1
    o2 = o2
    Keys <- MCKeys
    MaxAttempts = 2
    LeaseTTL = 2
    Delay <- MCDelay
    MaxLag = 1
    MaxClock = 4
    MaxVersion = 3
    MaxRequests = 2
    maxRetryDelay = 31
    Second = 3
    MaxFailures = 9
    JobIDs = {"j0", "j1", "j2"}
    Root = "j0"
    RootKey = "k0"
    Children <- MCChildren
    Operators <- MCOperators
    Policies <- MCPolicies
    Revisions = 2
    MaxTime = 2
    MaxSends = 2
SYMMETRY Symmetry
INVARIANTS RowsAreSound MemoryMatchesPostgres DelayIsSaturatedDoubling
    RetryIsWhatWasReviewed AnswersAgree
PROPERTIES WritesAreInOrder EveryTransitionIsRecorded ImplementsLifecycle
    CancelIsBoundToReview
CHECK_DEADLOCK FALSE
