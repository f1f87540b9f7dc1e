SPECIFICATION Spec
CONSTANTS
  XRes = 9
  YRes = 8
  Step = 4
  XWidth = 8
  YWidth = 3
  PixelSamples = 2
  WriteFrequency = 50
  MaxEmpty = 1
INVARIANTS
  FrameComplete
  AddedWithinReach
  WalksOnce
CHECK_DEADLOCK FALSE
