SPECIFICATION FairSpec
CONSTANTS
    Deployments <- DaemonWithHF
    Grace = 1
    MaxRetries = 0
    MaxFailures = 0
    MaxRelaunches = 0
CHECK_DEADLOCK FALSE
PROPERTIES RegisteredModelServes
