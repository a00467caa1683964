SPECIFICATION Spec
CONSTANTS
  None = None
  MaxIssued = 3
  MaxUsers = 2
INVARIANT TypeOK
PROPERTY PromiseKept
PROPERTY PullEnds
CHECK_DEADLOCK FALSE
