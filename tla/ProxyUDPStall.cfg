CONSTANTS
  MaxFrames = 3
  MaxReplies = 2
  Start <- MCStart
  MaxLength = 2
  SplitLengths = TRUE
  MaxSpan = 1
  SendBuffer = 1
  IdleTimeout = 4
  ReadTimeout = 2
  Garbage = Garbage
SPECIFICATION Spec
CHECK_DEADLOCK FALSE
INVARIANT OnlyDatagramsSent
