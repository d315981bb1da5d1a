\* Three clients and one process too many for them.
SPECIFICATION Spec
CHECK_DEADLOCK FALSE
CONSTANTS
  c1 = c1
  c2 = c2
  c3 = c3
  Conn = {c1, c2, c3}
  Nobody = Nobody
  Leavers = {c1}
  Kinds <- MC_Kinds
  Acls <- MC_Acls
  Files <- MC_Files
  SynthIp <- MC_Ip
  SecondaryIp <- MC_SecondaryIp
  BufferMax = 8
  FirstRead = 3
  Round = 2
  maxprocs = 1
INVARIANTS
  FetchedIsServed
  ChildrenCounted
  SoaReplyFits
PROPERTIES
  EveryoneServed
