SPECIFICATION Spec
CONSTANTS
    old = old
    new = new
    short = short
    plain = plain
    pinned = pinned
    None = None
    Bad = Bad
    Objects = {old, new}
    Longest = 2
    Size <- SmallSize
    Sources = {plain}
    Declares <- PinnedToNew
    Standing = "sha256"
    Follow = FALSE
    Retries = 1
    MaxRequests = 1
    MaxCrashes = 0
    MaxChanges = 0
    MaxDamages = 1
    MaxFaults = 0
CHECK_DEADLOCK FALSE
INVARIANTS RejectedBytesAreReplaced
