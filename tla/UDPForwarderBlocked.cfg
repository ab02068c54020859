CONSTANTS
  c1 = c1
  c2 = c2
  None = None
  Clients <- MCClients
  MaxSend = 2
  Sends <- TwoEach
  Faults <- AckFault
SPECIFICATION Spec
CHECK_DEADLOCK FALSE
PROPERTY EachLocalConnGetsStream
