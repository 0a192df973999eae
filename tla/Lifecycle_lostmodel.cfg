SPECIFICATION FairSpec
CONSTANTS
    Deployments <- DaemonOnly
    Grace = 1
    MaxRetries = 0
    MaxFailures = 0
    MaxRelaunches = 0
CHECK_DEADLOCK FALSE
PROPERTIES LostModelComesBack
