CONSTANTS
  Faults <- AllFaults
  Number <- MCNumber
  Inputs <- MCInputs
  Objects <- MCObjects
  IPs <- MCIPs
  Busy <- MCBusy
  Refused <- MCRefused
SPECIFICATION CommandSpec
CHECK_DEADLOCK FALSE
INVARIANTS
  CommandTypeOK
  ExitCleansUp
  ParseExact
  ForwardersExact
  JobNeedsListener
PROPERTY JobCollected
