SPECIFICATION Spec
CONSTANTS
    none = none
    flags = flags
    ctx = ctx
    embedding = embedding
    flagsEmbedding = flagsEmbedding
    r1 = r1
    r2 = r2
    Args <- ChatArgs
    Empty = none
    Chart = ctx
    Merge <- ChatMerge
    Requests = {r1, r2}
    MaxCalls = 2
    MaxCrashes = 1
    MaxFaults = 0
    MaxExits = 0
PROPERTIES BootCorrectsStaleArgs
