CONSTANTS
  s1 = s1
  Sessions <- MCSessions
  Faults <- AllFaults
SPECIFICATION Spec
CHECK_DEADLOCK FALSE
INVARIANT TypeOK
PROPERTIES
  SessionsEnd
  CorruptedConnClosed
