SPECIFICATION FairSpec
CONSTANTS
    old = old
    new = new
    short = short
    plain = plain
    pinned = pinned
    None = None
    Bad = Bad
    Objects = {old, new, short}
    Longest = 2
    Size <- SmallSize
    Sources = {plain, pinned}
    Declares <- PinnedToNew
    Standing = "size"
    Follow = TRUE
    Retries = 1
    MaxRequests = 1
    MaxCrashes = 1
    MaxChanges = 1
    MaxDamages = 1
    MaxFaults = 1
CHECK_DEADLOCK FALSE
INVARIANTS RecordIsTrue DeclaredBytesOnly SentinelNamesFile
PROPERTIES DownloadSettles
