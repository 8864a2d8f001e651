CONSTANTS
  num_threads_ = 2
  Conns = {c1, c2, c3}
SPECIFICATION FairSpec
CHECK_DEADLOCK FALSE
INVARIANTS LoopsAreLive RoundRobin
PROPERTIES StartReturns JoinReturns BacklogIsDrained
