SPECIFICATION Spec
CONSTANTS
  a1 = a1
  a2 = a2
  w1 = w1
  w2 = w2
  b1 = b1
  b2 = b2
  None = None
  NoKey = NoKey
  Accounts <- MCAccounts
  Workspaces <- MCWorkspaces
  Blocks <- MCBlock
  Keys <- MCKeys
  CaptureMaxRows = 9
  CaptureMaxBytes = 9
  CaptureMaxAge = 9
  MaxPendingRows = 9
  MaxAge = 9
  Retention = 9
  MaxSession = 2
  MaxWaiting = 2
  Sizes <- MCPlain
  Troubled <- MCHere
  Uses = {"discard", "signIn", "switch"}
  Faults = {"unauthorized", "revoke"}
INVARIANTS AccountsAgree ParksOnlyBetweenRows
PROPERTY KeepsPromise
CHECK_DEADLOCK FALSE
