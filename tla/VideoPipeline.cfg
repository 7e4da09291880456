SPECIFICATION MCSpec
CONSTANTS
  RunModes = {0, 1, 2}
  EncodeModes = {0, 1, 2, 3}
  Outputs = {"yuv", "info"}
  MaxFrameNumber = 3
  StableNeeded = 2
  InputFrames = 3
  MaxNals = 2
  Platform = {"ARM", "PC"}
  Numbers = {0, 1, 2}
  FileNames = {"a", "b"}
  MaxOptions = 3
  Unparsable <- MCUnparsable
  Sizes <- MCSizes
  Width = {2, 3, 4, 6}
  Height = {1, 2, 3, 4, 5, 6}
INVARIANTS CountsSound EndCauses OptionsSound ConversionSound
PROPERTIES OutputsFreshFrame MainEnds
CHECK_DEADLOCK FALSE
