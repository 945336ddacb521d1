CONSTANTS
  Modes = {"per_stream"}
  MaxSends = 1
  InCap = 1
  MaxNoise = 0
SPECIFICATION Spec
INVARIANT TimeoutRollsBack
CHECK_DEADLOCK FALSE
