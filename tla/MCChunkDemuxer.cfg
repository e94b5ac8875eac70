CONSTANTS
  audio = audio
  video = video
  Setups <- MCSetups
  memory_limit = 4
  kSeekToStartFudgeRoom = 2
SPECIFICATION Spec
INVARIANTS
  TypeOK
  ChecksHold
  SeekWaitsForData
  MemoryIsBounded
PROPERTIES
  OutputIsDecodable
  ReadsWaitForData
  StartsAtSeek
CHECK_DEADLOCK FALSE
