CONSTANTS
  MaxFrames = 3
  MaxReplies = 2
  Start <- MCStart
  MaxLength = 2
  SplitLengths = FALSE
  MaxSpan = 1
  SendBuffer = 1
  IdleTimeout = 4
  ReadTimeout = 2
  Garbage = Garbage
SPECIFICATION Spec
CHECK_DEADLOCK FALSE
INVARIANTS
  TypeOK
  UpstreamIntact
  IdleOnly
PROPERTY SessionEnds
