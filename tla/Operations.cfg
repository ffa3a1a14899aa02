\* One Change, every risk, every form of input, every fault, repeated approvals.
SPECIFICATION SceneSpec
CONSTANTS
    alice = alice
    bob = bob
    carol = carol
    Actors <- People
    Requester = alice
    MaxAttempts = 2
    Changes = {"c1"}
    RequestRisks = {"low", "high", "critical", "denied"}
    Inputs = {"raw", "stored"}
    Ambiguous = {"persist", "create"}
    Reapproval = TRUE
    MaxApprovals = 3
SYMMETRY Symmetry
INVARIANTS
    ChangeEndsAsItsJob
    RowsBackTheServer
    ApprovalEvidenceIsAvailable
    ViewIsTrue
CHECK_DEADLOCK FALSE
