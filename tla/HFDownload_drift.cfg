SPECIFICATION Spec
CONSTANTS
  Files <- MCFiles
  Wants <- MCWants
  Commits <- MCCommits
  Blob <- MCBlob
  MaxPasses = 2
  MaxFailures = 1
  MaxHangs = 1
  MaxDamage = 0
  MaxCrashes = 1
CHECK_DEADLOCK FALSE
INVARIANT DriftIsShown
