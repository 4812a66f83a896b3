SPECIFICATION Spec
CONSTANTS
  a1 = a1
  a2 = a2
  w1 = w1
  w2 = w2
  b1 = b1
  b2 = b2
  None = None
  NoKey = NoKey
  Accounts <- MCAccount
  Workspaces <- MCWorkspace
  Blocks <- MCBlocks
  Keys <- MCKeys
  CaptureMaxRows = 9
  CaptureMaxBytes = 9
  CaptureMaxAge = 9
  MaxPendingRows = 9
  MaxAge = 9
  Retention = 9
  MaxSession = 2
  MaxWaiting = 1
  Sizes <- MCPlain
  Troubled <- MCHere
  Uses = {"signOut", "signIn"}
  Faults = {}
INVARIANT KeptRowsUpload
CHECK_DEADLOCK FALSE
