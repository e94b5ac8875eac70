SPECIFICATION Spec
CONSTANTS
  MaxTime = 2
  Streaming = {TRUE, FALSE}
  Static = {TRUE, FALSE}
  StartTypes = {"kNormal", "kSuspendAfterMetadata"}
  MaxCalls = 5
INVARIANTS
  TypeOK
  Agreement
  PlayingHasData
  LastRequestObeyed
PROPERTIES
  ContractHolds
  SeekedReportsArrival
  SeekIsAnswered
CHECK_DEADLOCK FALSE
