CONSTANTS
  MaxChunks <- MCChunks
  BufCap = 2
  Closers <- AllSides
  Resetters <- AllSides
  Base = 6
  maxAddrLen = 16
  Requests <- MCRequests
  Targets <- MCTargets
  Protocols <- MCProtocols
SPECIFICATION ConnSpec
CHECK_DEADLOCK FALSE
INVARIANTS
  ConnTypeOK
  ResponseDelivered
  DialsRequested
  SidesAgree
PROPERTIES
  AllCopiesTerminate
  ConnsClosed
  ClientAnswered
