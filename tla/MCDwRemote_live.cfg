SPECIFICATION FairSpec
CONSTANTS
  Client = {c1}
  Query = {"www", "ns"}
  None = None
  SlotCount = 3
  FdCount = 4
  Says <- Says_direct
  NsOf <- NsOf_loop
  MaxInflights = 1
  NumRetries = 1
  MaxDepth = 1
  MaxReplies = 1
  HandleNoreply = TRUE
  HandleOverload = TRUE
  Resurrections = TRUE
  CanFail = TRUE
  Spellings = {TRUE}
  TimePasses = TRUE
  Expiring = {"www", "ns"}
INVARIANTS
  NoClientForgotten
PROPERTIES
  EveryoneAnswered
