SPECIFICATION Spec
CHECK_DEADLOCK FALSE
CONSTANTS
  author = author
  manager = manager
  root = root
  Users = {author, manager, root}
  Superusers = {root}
  NoUser = NoUser
  Role <- MCRole
  Requests = {q1, q2}
  Visitors = {v1, v2}
  Visits = {i1, i2}
  MaxServices = 4
  MaxOperations = 2
  MaxMishaps = 1
  Budget <- MCBudget
INVARIANTS
  PublishedIsCleared
  
  
  VisitorsAreCounted
PROPERTIES
  ReplacesWhatWasShown
SYMMETRY Slots
