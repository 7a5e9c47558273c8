SPECIFICATION Spec
CHECK_DEADLOCK FALSE
CONSTANTS
  MaxScan = 4
  MaxShown = 5
  Names = {"a", "b"}
  Entries <- MCEntries
  Lists <- MCLists
  Wrapped <- MCWrapped
  Foundings <- MCFoundings
  MaxRows = 3
  MaxEdits = 4
  ClipIds = {1}
  Managers = {m1, m2}
  MaxClipPosts = 4
  MaxSeeds = 3
  MaxCategories = 3
  MaxBinds = 3
  m1 = m1
  m2 = m2
INVARIANTS
  AcceptsExactlyChains
  RightsAgree
  DoorsFit
  ImportsConverge
  
  BareByChoice
  SetupConverges
