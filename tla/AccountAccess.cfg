SPECIFICATION Spec
CHECK_DEADLOCK FALSE
CONSTANTS
  Requests = {r1, r2, r3}
  Purposes = {"password_change"}
  Quotas = {"comment"}
  MaxAttempts = 2
  MaxSends = 2
  MaxFailures = 2
  RateLimit = 2
  Cap = 6
  Desks = {d1, d2}
  Visitors = {v1, v2}
  MaxTokens = 3
INVARIANTS
  GuessesBounded
  WindowsBounded
PROPERTIES
  TokensOnce
SYMMETRY SlotSymmetry
