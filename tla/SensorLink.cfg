SPECIFICATION FairSpec
CONSTANTS
  SERIAL_BUFFER_SIZE = 6
  MaxBytes = 16
  Fields = 3
  DatSize = 8
  BlankCuts = {0, 2}
  Sensors = {"good", "truncated", "blank", "garbled", "chatty"}
  MaxCalls = 2
INVARIANT SampleSound
PROPERTY CallsEnd
CHECK_DEADLOCK FALSE
