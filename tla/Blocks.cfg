SPECIFICATION Spec
CONSTANTS
  HoldGrace = 1
  MinBlock = 2
  Policies <- MCPolicies
  Off = Off
  NoStretch = NoStretch
  MaxTime = 9
  MaxLag = 1
INVARIANTS TypeOK NoGaps
PROPERTIES FinishedInOrder AwayIsNotWork WorkIsKept
