SPECIFICATION FairSpec
CONSTANTS
    Kind = "llamacpp"
    Align = 4
    Charts <- OneChart
    Raws <- PlainRaws
    Modes = {"chat"}
    Ladders = {}
    KeepsCapacity = FALSE
    Configured = 0
    Attempts = 2
    MaxPuts = 1
    MaxBoots = 2
    MaxOutages = 0
    MaxMisses = 0
CHECK_DEADLOCK FALSE
PROPERTIES CapacityIsOurs
