SPECIFICATION Spec
CONSTANTS
  Setups <- LiveSetups
  MaxTasks = 2
INVARIANTS
  LockIsFree
CHECK_DEADLOCK FALSE
