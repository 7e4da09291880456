SPECIFICATION FairSpec
CONSTANTS
  BUFFER_FRAME_NUM = 3
  MaxCount = 5
  MaxFrames = 12
INVARIANTS CopiesDequeuedBuffer NoBufferLeaked EveryFrameOnce
PROPERTIES CaptureEnds
CHECK_DEADLOCK FALSE
