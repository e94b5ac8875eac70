CONSTANTS
  audio = audio
  video = video
  Setups <- MCSetups
  memory_limit = 4
  kSeekToStartFudgeRoom = 2
SPECIFICATION Spec
CHECK_DEADLOCK FALSE
PROPERTY NeverSeeksBack
