SPECIFICATION FairGCSpec
CHECK_DEADLOCK FALSE
CONSTANTS
  Clips = {c1}
  Workers = {w1}
  Uploaders = {u1}
  Passes = {"orphans", "tmp", "retention"}
  MaxRequests = 1
  MaxSlow = 0
  MaxFaults = 1
  Budget <- MCBudget
PROPERTIES
  LeftoversCollected
  EveryUploadSettles
