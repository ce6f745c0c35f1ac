SPECIFICATION Spec
CONSTANTS
  RetryMax = 2
  MaxStarts = 3
  Races <- RetryOnly
PROPERTIES StopStops
CHECK_DEADLOCK FALSE
