SPECIFICATION Spec
CONSTANTS
  Labels <- MCLabels
  Bytes <- MCBytes
  Configured <- MCForwarded
  Questions <- MCQuestions
  Packets <- MCJunkPackets
  Heap = {"IGNORE", "A"}
  Blacklisted <- MCBlacklisted
  GluelessType = "A"
  GlueRange = 2
  Room = 5
  MaxDepth = 3
  NumRetries = 1
  MaxReplies = 2
INVARIANT
  AnswersChained
