SPECIFICATION Spec
CONSTANTS
  Client = {c1}
  Query = {"www", "web", "ftp", "ns"}
  None = None
  SlotCount = 3
  FdCount = 4
  Says <- Says_crossed
  NsOf <- NsOf_glueless
  MaxInflights = 1
  NumRetries = 0
  MaxDepth = 1
  MaxReplies = 1
  HandleNoreply = FALSE
  HandleOverload = FALSE
  Resurrections = FALSE
  CanFail = FALSE
  Spellings = {TRUE}
  TimePasses = TRUE
  Expiring = {"ns"}
INVARIANTS
  SocketsOwned
  ChildServesParent
  AnswersBelong
  RemoteListed
