CONSTANTS
  p1 = p1
  p2 = p2
  Pods <- MCPods
  MaxPods = 3
  MaxLag = 5
  Faults <- AllFaults
SPECIFICATION Spec
CHECK_DEADLOCK FALSE
INVARIANTS
  TypeOK
  NoMissedUpdate
PROPERTY StaleAddrReplaced
