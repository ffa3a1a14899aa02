SPECIFICATION FairSpec
CONSTANTS
    i1 = i1
    i2 = i2
    p1 = p1
    p2 = p2
    None = None
    Plans <- MCPlans
    CheckNames <- MCCheckNames
    ClockErrors <- MCClockErrors
    MaxPhaseTimeout = 3
    MaxInterfaces = 2
    MaxForwarding = 1
    MaxProbes = 2
    MaxAge = 2
    MaxFutureSkew = 1
    MaxClock = 5
INVARIANTS CommitIsSound AdmissionMatchesEvidence
PROPERTIES EventsDoNotMislead EveryChangeEnds
CHECK_DEADLOCK FALSE
