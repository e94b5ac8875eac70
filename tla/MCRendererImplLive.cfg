SPECIFICATION Spec
CONSTANTS
  Setups <- LiveSetups
  MaxTasks = 2
INVARIANTS
  TimeWaitsForData
PROPERTIES
  Answered
  EventuallyPlays
CHECK_DEADLOCK FALSE
