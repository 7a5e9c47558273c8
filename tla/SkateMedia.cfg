SPECIFICATION Spec
CHECK_DEADLOCK FALSE
CONSTANTS
  Clips = {c1}
  Workers = {w1, w2}
  Uploaders = {u1, u2}
  MaxRequests = 2
  MaxSlow = 1
  MaxFaults = 1
  Budget <- MCBudget
INVARIANTS
  TypeOK
  ReferencedAssetsPresent
  ReadyShowsCurrentSource
  
  
PROPERTIES
  OnlyCurrentClaimPublishes
  ImplementsLifecycle
SYMMETRY MCSymmetry
