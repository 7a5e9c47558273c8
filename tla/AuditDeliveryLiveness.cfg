SPECIFICATION FairSpec
CHECK_DEADLOCK FALSE
CONSTANTS
  e1 = e1
  e2 = e2
  e3 = e3
  p1 = p1
  p2 = p2
  Events = {e1, e2}
  Partitions = {p1}
  PartitionOf <- MCPartitionOf
  Workers = {w1, w2}
  MaxAttempts = 2
  MaxSlow = 1
  MaxCrashes = 1
  Budget <- MCBudget
PROPERTIES
  EveryEventSettles
