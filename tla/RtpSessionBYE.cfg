SPECIFICATION Spec
CONSTANTS
  Delays = {"short"}
  Packets = 3
  Collisions = 2
INVARIANT BYEOnlyIfSent
