CONSTANTS
  Threshold = 2
  MaxOutput = 5
SPECIFICATION Spec
CHECK_DEADLOCK FALSE
INVARIANT BufferedOutputIsFull
