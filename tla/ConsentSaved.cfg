SPECIFICATION Spec
CONSTANT Plans <- MCRetry
INVARIANT SyncedIsSaved
CHECK_DEADLOCK FALSE
