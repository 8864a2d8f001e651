CONSTANTS
  Clients = {c1, c2}
  MaxAttempts = 3
  MaxRefusals = 1
SPECIFICATION FairSpec
CHECK_DEADLOCK FALSE
INVARIANTS EveryAttemptIsCounted
PROPERTIES BenchEnds
