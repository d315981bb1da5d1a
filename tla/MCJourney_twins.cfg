SPECIFICATION Spec
CONSTANTS
  Messages <- MCTwins
  Width <- MCWidth
  MaxPoints = 20
  MaxCompressed = 60
  MaxDlabel = 20
  OutRoom = 60
  StackRoom = 30
  Stale <- MCStale
CHECK_DEADLOCK FALSE
INVARIANT
  ClientReads
