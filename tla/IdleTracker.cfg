CONSTANTS
  c1 = c1
  c2 = c2
  Conns <- MCConns
  Timeout = 5
  Heartbeat = 1
  Delay = 1
  MaxTime = 9
SPECIFICATION Spec
SYMMETRY Symmetry
CHECK_DEADLOCK FALSE
INVARIANTS
  TypeOK
  LastActivityFresh
  SafeShutdown
  IdleShutdownInTime
