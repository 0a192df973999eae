SPECIFICATION FairSpec
CONSTANTS
    Requests = {r1, r2}
    MaxRequests = 2
    Window = 1
    Supervised = TRUE
    MaxFlaps = 1
    MaxRestarts = 1
CHECK_DEADLOCK FALSE
INVARIANTS VerdictHasEvidence SupervisionEarned
PROPERTIES ImplementsVerdict
