\* Inputs that jsonb returns unchanged, no repeated approval, and
\* no lost answer of a Job creation: the conditions under which a restart works.
SPECIFICATION FairSpec
CONSTANTS
    Actors = {alice, bob, carol}
    Requester = alice
    MaxAttempts = 2
    Changes = {c1}
    RequestRisks = {"low", "high", "critical"}
    Inputs = {"stored"}
    Ambiguous = {"persist"}
    Reapproval = FALSE
    MaxApprovals = 2
PROPERTY
    OutcomeReachesChange
CHECK_DEADLOCK FALSE
