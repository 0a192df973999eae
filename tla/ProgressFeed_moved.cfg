SPECIFICATION FeedSpec
CONSTANTS
  Files <- MCFiles
  Base <- MCBase
  Size <- MCSize
  Runs <- MCRuns
  Queue <- MCQueue
  Grain = 2
  Tolerance = 1
  MaxPasses = 2
  MaxBoots = 1
  MaxRewinds = 1
INVARIANT PinnedTotalHolds

CHECK_DEADLOCK FALSE
