SPECIFICATION FairSpec
CONSTANTS
  Delays = {"short", "long"}
  Packets = 3
  Collisions = 2
PROPERTY SessionAlwaysLeft
CHECK_DEADLOCK FALSE
