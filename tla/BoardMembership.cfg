SPECIFICATION Spec
CHECK_DEADLOCK FALSE
CONSTANTS
  u1 = u1
  u2 = u2
  Users = {u1, u2}
  Root = Root
  Listed <- MCListed
  Roles = {"manager", "editor"}
  Foundings <- MCFoundings
  Txs = {t1, t2}
  NoTx = NoTx
  MaxOperations = 2
  MaxAsides = 2
  Budget <- MCBudget
PROPERTIES
  ManagerContinuity
  DecisionAuthorized
  HistoryChain
  ImplementsRoster
SYMMETRY TxSymmetry
