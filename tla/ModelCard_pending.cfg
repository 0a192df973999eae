SPECIFICATION Spec
CONSTANTS
    Kind = "llamacpp"
    Align = 4
    Charts <- OneChart
    Raws <- SafeRaws
    Modes = {"chat", "embedding"}
    Ladders = {"edited"}
    KeepsCapacity = TRUE
    Configured = 0
    Attempts = 2
    MaxPuts = 2
    MaxBoots = 2
    MaxOutages = 1
    MaxMisses = 0
CHECK_DEADLOCK FALSE
INVARIANTS PendingIsWhatIsNotInForce
