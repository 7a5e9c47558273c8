SPECIFICATION GCSpec
CHECK_DEADLOCK FALSE
CONSTANTS
  Clips = {c1}
  Workers = {w1}
  Uploaders = {u1}
  Passes = {"orphans"}
  MaxRequests = 1
  MaxSlow = 0
  MaxFaults = 0
  Budget <- MCBudget
PROPERTIES
  ReadyOnlyWithAssets
