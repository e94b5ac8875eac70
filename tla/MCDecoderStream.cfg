SPECIFICATION Spec
CONSTANTS
  Setups <- AllSetups
INVARIANTS
  TypeOK
  InOrder
  EndIsReal
  DecoderContract
PROPERTIES
  ErrorIsFinal
  Answered
CHECK_DEADLOCK FALSE
