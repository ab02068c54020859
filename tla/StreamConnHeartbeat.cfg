CONSTANTS
  s1 = s1
  Sessions <- MCSessions
  Faults <- StallOnly
SPECIFICATION Spec
CHECK_DEADLOCK FALSE
PROPERTY HeartbeatsGoOn
