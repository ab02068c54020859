CONSTANTS
  c1 = c1
  c2 = c2
  None = None
  Clients <- MCClients
  MaxSend = 2
  Sends <- TwoEach
  Faults <- SessionFaults
SPECIFICATION Spec
SYMMETRY Symmetry
CHECK_DEADLOCK FALSE
INVARIANTS
  TypeOK
  TrackExact
  WrittenInOrder
PROPERTY ImplementsSessions
