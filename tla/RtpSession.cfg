SPECIFICATION MCSpec
CONSTANTS
  Delays = {"short", "long"}
  Packets = 3
  Collisions = 2
  Size = {1, 2, 3}
  MinSize = 2
  Address = {a1, a2}
  Never = Never
  Seconds = 8
  Micro = 3
  Fraction = 4
  Offset = 3
  EndSecond = 6
  TimeoutDelay <- MCTimeoutDelay
  StartTime <- MCStartTime
INVARIANTS DestroyAlone NoDataAfterBYE BYEIsScheduled SetupWhole
PROPERTIES NoNewRound SessionIsLeft CollisionsSound
CHECK_DEADLOCK FALSE
