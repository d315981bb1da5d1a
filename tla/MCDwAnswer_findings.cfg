SPECIFICATION Spec
CHECK_DEADLOCK FALSE
CONSTANTS
  Labels <- MCLabels
  Bytes <- MCBytes
  Configured <- MCForwarded
  Questions <- MCAllQuestions
  Packets <- MCPackets
  Heap = {"IGNORE", "A"}
  Blacklisted <- MCBlacklisted
  GluelessType = "A"
  GlueRange = 2
  Room = 5
  MaxDepth = 3
  NumRetries = 1
  MaxReplies = 2
INVARIANTS
  NeverDivides
  ClientTold
PROPERTY
  ReferralsDescend
