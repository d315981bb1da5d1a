\* Clients that ask for the SOA record and then for nothing.
SPECIFICATION Spec
CHECK_DEADLOCK FALSE
CONSTANTS
  c1 = c1
  c2 = c2
  c3 = c3
  Conn = {c1, c2, c3}
  Nobody = Nobody
  Leavers = {c1}
  Kinds <- MC_Hold
  Acls <- MC_Acls
  Files <- MC_Files
  SynthIp <- MC_Ip
  SecondaryIp <- MC_SecondaryIp
  BufferMax = 8
  FirstRead = 3
  Round = 2
  maxprocs = 1
PROPERTIES
  EveryoneServed
