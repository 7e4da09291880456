SPECIFICATION FairSpec
CONSTANTS
  RunModes = {0}
  EncodeModes = {2}
  Outputs = {}
  MaxFrameNumber = 3
  StableNeeded = 2
  InputFrames = 5
  MaxNals = 2
INVARIANT OptimizationModeRuns
CHECK_DEADLOCK FALSE
