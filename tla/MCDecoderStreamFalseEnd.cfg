SPECIFICATION Spec
CONSTANTS
  Setups <- FailingParallel
INVARIANTS
  EndIsReal
CHECK_DEADLOCK FALSE
