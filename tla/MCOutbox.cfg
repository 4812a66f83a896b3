SPECIFICATION Spec
CONSTANTS
  a1 = a1
  a2 = a2
  w1 = w1
  b1 = b1
  b2 = b2
  k1 = k1
  NoKey = NoKey
  Accounts <- MCAccounts
  Workspaces <- MCWorkspaces
  Blocks <- MCBlocks
  Keys <- MCKeys
  Sizes <- MCSizes
  CaptureMaxRows = 2
  CaptureMaxBytes = 3
  CaptureMaxAge = 0
  MaxPendingRows = 2
  MaxAge = 0
  Retention = 0
  MaxRecords = 2
  MaxId = 3
  LastDay = 1
SYMMETRY MCSymmetry
INVARIANTS TypeOK Identity
PROPERTIES RowsOnlyDecay LimitsHold BudgetHolds DropsOldestFirst ShedsOldestFirst
