SPECIFICATION JobSpec
CONSTANTS
  l1 = l1
  l2 = l2
  Listers <- MCListers
  MaxFailures = 0
CHECK_DEADLOCK FALSE
INVARIANTS SuccessIsReal
