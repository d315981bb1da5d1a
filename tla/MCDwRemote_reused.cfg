SPECIFICATION Spec
CONSTANTS
  Client = {c1}
  Query = {"www", "web", "cdn", "ftp", "mirror"}
  None = None
  SlotCount = 4
  FdCount = 5
  Says <- Says_chain
  NsOf <- NsOf_ip
  MaxInflights = 1
  NumRetries = 0
  MaxDepth = 3
  MaxReplies = 2
  HandleNoreply = TRUE
  HandleOverload = TRUE
  Resurrections = FALSE
  CanFail = FALSE
  Spellings = {TRUE}
  TimePasses = FALSE
  Expiring = {}
INVARIANTS
  AnswersBelong
CHECK_DEADLOCK FALSE
