SPECIFICATION Spec
CONSTANTS
  Client = {c1, c2}
  Query = {"www", "web"}
  None = None
  SlotCount = 4
  FdCount = 5
  Says <- Says_cname
  NsOf <- NsOf_ip
  MaxInflights = 3
  NumRetries = 0
  MaxDepth = 1
  MaxReplies = 1
  HandleNoreply = TRUE
  HandleOverload = TRUE
  Resurrections = FALSE
  CanFail = FALSE
  Spellings = {TRUE}
  TimePasses = FALSE
  Expiring = {}
PROPERTIES
  MergedAnsweredTogether
CHECK_DEADLOCK FALSE
