SPECIFICATION Spec
CONSTANTS
  Setups <- SafetySetups
  MaxTasks = 2
INVARIANTS
  TypeOK
  BufferingKnown
  ClockNeedsAudio
  VideoMovesWithTime
PROPERTIES
  EndedIsReal
CHECK_DEADLOCK FALSE
