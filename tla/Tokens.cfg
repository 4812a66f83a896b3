SPECIFICATION Spec
CONSTANTS
  MaxGrants = 3
  MaxCells = 2
  MaxKeys = 2
  MaxUnread = 1
  MaxUnsigned = 2
  Plans <- MCPlans
INVARIANTS TypeOK OneRenewal StaysSignedIn LockComesBack KeyAgrees QueuedInOrder
CHECK_DEADLOCK FALSE
