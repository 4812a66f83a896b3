SPECIFICATION Spec
CONSTANT Plans <- MCPlans
INVARIANTS TypeOK WideningWaits SensorsFollow NoStaleShot FailsClosed
CHECK_DEADLOCK FALSE
