SPECIFICATION Spec
CONSTANTS
  Messages <- MCMessages
  Width <- MCWide
  MaxPoints = 20
  MaxCompressed = 60
  MaxDlabel = 30
  OutRoom = 16
  StackRoom = 30
  Stale <- MCStale
CHECK_DEADLOCK FALSE
INVARIANT
  ClientReads
