CONSTANTS
  Requests <- MCRequests
  MaxRequests = 2
  Files <- MCFiles
  MaxValue = 1
SPECIFICATION Spec
CHECK_DEADLOCK FALSE
INVARIANTS TypeOK NeverServesAnother WholeIsUnderstood ArrivedIsDecided
