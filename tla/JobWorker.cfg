SPECIFICATION Spec
CONSTANTS
    Keys = {k1}
    Workers = {w1, w2}
    NoKey = NoKey
    MaxAttempts = 3
INVARIANTS ResultsAreGenuine
PROPERTIES JobsEnd ImplementsLifecycle
CHECK_DEADLOCK FALSE
