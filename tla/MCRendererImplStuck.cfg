SPECIFICATION Spec
CONSTANTS
  Setups <- StuckSetups
  MaxTasks = 2
INVARIANTS
  PlaysWhenReady
CHECK_DEADLOCK FALSE
