SPECIFICATION GCSpec
CHECK_DEADLOCK FALSE
CONSTANTS
  Clips = {c1}
  Workers = {w1}
  Uploaders = {u1, u2}
  Passes = {"tmp", "retention"}
  MaxRequests = 3
  MaxSlow = 0
  MaxFaults = 0
  Budget <- MCBudget
INVARIANTS
  SourceStored
