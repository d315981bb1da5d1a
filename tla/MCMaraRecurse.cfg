SPECIFICATION Spec
CONSTANTS
  Client <- MC_Client
  Free = Free
  Query <- MC_Query
  Address <- MC_Address
  Says <- MC_Says
  Hardcoded <- MC_Hardcoded
  Spammer = {}
  root_or_upstream = FALSE
  handle_noreply = 2
  retry_cycles = 1
  max_queries_total = 6
  max_glueless_level = 1
  maximum_num_of_threads = 2
  cache_max = 5
  Axed = 1
  CanFail = FALSE
  MaxAging = 1
INVARIANTS
  FilaMatches
  NoMixedAnswers
  RepliedOnce
PROPERTIES
  EveryRequestEnds
