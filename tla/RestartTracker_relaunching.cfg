SPECIFICATION FairSpec
CONSTANTS
    Requests = {r1}
    MaxRequests = 1
    Window = 1
    Supervised = TRUE
    MaxFlaps = 0
    MaxRestarts = 0
CHECK_DEADLOCK FALSE
PROPERTIES RelaunchingEnds
