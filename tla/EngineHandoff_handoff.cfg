SPECIFICATION FairSpec
CONSTANTS
    none = none
    flags = flags
    ctx = ctx
    embedding = embedding
    flagsEmbedding = flagsEmbedding
    r1 = r1
    r2 = r2
    Args <- EmbeddingArgs
    Empty = none
    Chart = flags
    Merge <- EmbeddingMerge
    Requests = {r1, r2}
    MaxCalls = 3
    MaxCrashes = 1
    MaxFaults = 1
    MaxExits = 1
INVARIANTS TypeOK SettledRunsHandoff OneStory
PROPERTIES NotNeededIsTrue EditReachesEngine
