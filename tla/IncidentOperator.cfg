SPECIFICATION Spec
CONSTANTS
    o1 = o1
    o2 = o2
    e1 = e1
    m1 = m1
    m2 = m2
    None = None
    Ingester = Ingester
    Operators <- MCOperators
    EvidenceRefs <- MCEvidenceRefs
    Runbooks = {r1}
    maxTimelineEntries = 3
    maxEvidenceRefs = 1
    Microsecond = 2
    MaxSkew = 1
    MaxOther = 1
    MaxClock = 2
INVARIANTS MatchingCommitIsAccepted TransactionsAreWhole
PROPERTY HistoryOnlyGrows
SYMMETRY OperatorSymmetry
CHECK_DEADLOCK FALSE
