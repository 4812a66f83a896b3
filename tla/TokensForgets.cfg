SPECIFICATION Spec
CONSTANTS
  MaxGrants = 3
  MaxCells = 2
  MaxKeys = 2
  MaxUnread = 2
  MaxUnsigned = 1
  Plans <- MCOvertaken
INVARIANT SignedOutForgets
CHECK_DEADLOCK FALSE
