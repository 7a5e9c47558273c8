SPECIFICATION Spec
CHECK_DEADLOCK FALSE
CONSTANTS
  Browsers = {b1, b2}
  MaxAttempts = 2
  MaxStep = 2
  MaxSeeds = 2
  MaxBindings = 1
  MaxRequests = 6
  MaxMishaps = 2
  Budget <- MCBudget
INVARIANTS
  OnceOnly
  GuessesBounded
PROPERTIES
  GrantsFollowSeed
SYMMETRY BrowserSymmetry
