SPECIFICATION Spec
CONSTANTS
  Client = {"ann", "ben"}
  Name = {"www", "web"}
  Nobody = "nobody"
  NoName = "none"
  Leavers = {"ann", "ben"}
  Asks <- MC_Asks
  QuestionLen <- MC_QuestionLen
  AnswerLen = 2
  max_tcp_procs = 1
  maxprocs = 1
  max_inflights = 4
  timeout_seconds = 1
  timeout_seconds_tcp = 1
  num_retries = 1
  handle_noreply = TRUE
  MaxReferrals = 1
  LeastGot <- MC_LeastGot
  SendBlocks = TRUE
INVARIANTS
  RepliesToTheClient
  BytesInOrder
