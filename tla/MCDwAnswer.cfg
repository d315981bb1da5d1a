SPECIFICATION Spec
CHECK_DEADLOCK FALSE
CONSTANTS
  Labels <- MCLabels
  Bytes <- MCBytes
  Configured <- MCForwarded
  Questions <- MCQuestions
  Packets <- MCPackets
  Heap = {"IGNORE", "A"}
  Blacklisted <- MCBlacklisted
  GluelessType = "A"
  GlueRange = 2
  Room = 5
  MaxDepth = 3
  NumRetries = 1
  MaxReplies = 3
INVARIANTS
  AskedOfAncestors
  ServersFromAbove
  ReferralsBounded
