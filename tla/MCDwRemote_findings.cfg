SPECIFICATION Spec
CONSTANTS
  Client = {c1, c2}
  Query = {"www", "ns"}
  None = None
  SlotCount = 3
  FdCount = 4
  Says <- Says_direct
  NsOf <- NsOf_glueless
  MaxInflights = 3
  NumRetries = 1
  MaxDepth = 1
  MaxReplies = 1
  HandleNoreply = TRUE
  HandleOverload = TRUE
  Resurrections = TRUE
  CanFail = FALSE
  Spellings = {TRUE}
  TimePasses = TRUE
  Expiring = {"www", "ns"}
INVARIANTS
  RemoteListed
  NoClientForgotten
