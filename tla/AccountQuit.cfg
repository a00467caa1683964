\* The player quits while a request exchanges its tokens.
SPECIFICATION Spec
CONSTANTS
  None = None
  MaxIssued = 3
  MaxUsers = 2
PROPERTY QuitKeepsSession
CHECK_DEADLOCK FALSE
