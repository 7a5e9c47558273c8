SPECIFICATION FairVerificationSpec
CHECK_DEADLOCK FALSE
CONSTANTS
  p1 = p1
  Events = {e1, e2}
  Partitions = {p1}
  PartitionOf <- MCPartitionOf
  Workers = {w1, w2}
  MaxAttempts = 1
  ScanLimit = 2
  ReconcileLimit = 1
  MaxSlow = 0
  MaxCrashes = 1
  MaxRestores = 1
  MaxRotations = 1
  Budget <- MCBudget
INVARIANTS
  NoFalseAlarm
PROPERTIES
  PassedContainsCheckpoints
  CheckpointsFollow
  LossAmongReconciledReported
