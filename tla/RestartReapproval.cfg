\* The requester approves a Change of high risk twice; neither approval counts.
SPECIFICATION Spec
CONSTANTS
    Changes = {c1}
    Actors = {alice, bob, carol}
    Requester = alice
    MaxAttempts = 2
    RequestRisks = {"high"}
    Inputs = {"stored"}
    Ambiguous = {}
    Reapproval = TRUE
    MaxApprovals = 2
INVARIANT
    NeverRefused
CHECK_DEADLOCK FALSE
