CONSTANTS
  Workers = {w1, w2}
  queue_size_ = 2
  Tasks = {a, b, c, d}
  Destroyers = {main, other}
  None = None
SPECIFICATION FairSpec
CHECK_DEADLOCK FALSE
INVARIANTS RingIsConsistent NoIdleWithWork GracefulDrains
PROPERTIES AcceptedRuns DestroyReturns ImplementsTaskPool
