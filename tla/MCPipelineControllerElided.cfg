SPECIFICATION Spec
CONSTANTS
  MaxTime = 1
  Streaming = {FALSE}
  Static = {TRUE}
  StartTypes = {"kNormal"}
  MaxCalls = 5
INVARIANTS
  ElisionKeepsData
CHECK_DEADLOCK FALSE
