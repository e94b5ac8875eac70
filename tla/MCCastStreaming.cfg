SPECIFICATION Spec
CONSTANTS
  Streams <- AllStreams
INVARIANTS
  TypeOK
  StoredUntilReceived
  LossNeverCorrupts
PROPERTIES
  EventuallyAcked
CHECK_DEADLOCK FALSE
