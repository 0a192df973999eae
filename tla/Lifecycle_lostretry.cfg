SPECIFICATION FairSpec
CONSTANTS
    Deployments <- ProxyWithURL
    Grace = 1
    MaxRetries = 1
    MaxFailures = 0
    MaxRelaunches = 0
CHECK_DEADLOCK FALSE
PROPERTIES RetryIsServed
