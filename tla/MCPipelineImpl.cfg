SPECIFICATION Spec
CONSTANTS
  StartTypes = {"kNormal", "kSuspendAfterMetadata"}
  Setups <- AllSetups
INVARIANTS
  TypeOK
  NoLostOperation
  TrackChangeNotLost
  CallsFindTheirState
  StopIsBarrier
PROPERTIES
  ContractKept
  Answered
  MediaTimeGoesForward
CHECK_DEADLOCK FALSE
