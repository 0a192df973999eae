SPECIFICATION FairSpec
CONSTANTS
    Kind = "llamacpp"
    Align = 4
    Charts <- SplitChart
    Raws <- SafeRaws
    Modes = {"chat", "embedding"}
    Ladders = {}
    KeepsCapacity = TRUE
    Configured = 0
    Attempts = 2
    MaxPuts = 1
    MaxBoots = 2
    MaxOutages = 1
    MaxMisses = 0
CHECK_DEADLOCK FALSE
INVARIANTS CardIsHonest UngatedSlotsFit
PROPERTIES RestartKeepsCard CapacityFollowsEngine
