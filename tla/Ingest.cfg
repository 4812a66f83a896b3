SPECIFICATION Spec
CONSTANTS
  Times <- MCTimes
  MaxBlockLength = 12
  Oldest = 5
  Latest = 100
  AllowedOverlap = 1
  OverlapParts = 4
  Never = Never
  Nobody = Nobody
  Plans <- MCPlans
INVARIANTS TypeOK AnsweredIsHeld NoDoubleTime ErasedStaysErased NothingTorn NoHiddenImages
CHECK_DEADLOCK FALSE
