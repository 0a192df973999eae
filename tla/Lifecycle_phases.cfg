SPECIFICATION FairSpec
CONSTANTS
    Deployments <- MCDeployments
    Grace = 1
    MaxRetries = 1
    MaxFailures = 1
    MaxRelaunches = 1
CHECK_DEADLOCK FALSE
INVARIANTS BootLoadIsRuns EnsureOwnsItsPhase
PROPERTIES ForceHonoured ServesInTheEnd
