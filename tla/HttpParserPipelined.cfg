CONSTANTS
  Requests <- MCRequests
  MaxRequests = 2
  Files <- MCFiles
  MaxValue = 1
SPECIFICATION Spec
CHECK_DEADLOCK FALSE
INVARIANT PipelinedIsUnderstood
