SPECIFICATION FrameSpec
CONSTANTS
  MaxFrame = 3
  DefaultLimit = 2
  MaxFrames = 3
  MaxLength = 6
  MaxReads = 3
INVARIANTS
  LimitsAgree
  FramesInOrder
  PoisonIsFinal
CHECK_DEADLOCK FALSE
