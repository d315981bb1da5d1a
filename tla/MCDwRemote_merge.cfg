SPECIFICATION Spec
CONSTANTS
  Client = {c1, c2, c3}
  Query = {"www", "web"}
  None = None
  SlotCount = 1
  FdCount = 2
  Says <- Says_plain
  NsOf <- NsOf_ip
  MaxInflights = 4
  NumRetries = 1
  MaxDepth = 1
  MaxReplies = 1
  HandleNoreply = TRUE
  HandleOverload = TRUE
  Resurrections = FALSE
  CanFail = FALSE
  Spellings = {TRUE, FALSE}
  TimePasses = TRUE
  Expiring = {"www", "web"}
INVARIANTS
  InflightPointsToQuery
  AnsweredOnce
PROPERTIES
  MergedAnsweredTogether
