SPECIFICATION Spec
CONSTANTS
  SERIAL_BUFFER_SIZE = 4
  MaxBytes = 9
INVARIANTS UnreadIsSuffix ReadsAdvance
PROPERTIES ImplementsFifo
CHECK_DEADLOCK FALSE
