SPECIFICATION PacerSpec
CONSTANTS
  Channels = {}
  DcSizes = {1}
  KeySizes = {1, 2}
  Encoders = {2}
  MinPace = 1
  BurstFloor = 1
  PacePerBurst = 2
  IdrWindow = 1
  HighWater = 3
  LowWater = 1
  Deadline = FALSE
  PacerBudgets <- MCOneKeyframe
INVARIANT KeyframeToCome
CHECK_DEADLOCK FALSE
