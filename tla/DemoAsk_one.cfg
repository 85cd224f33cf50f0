SPECIFICATION FairSpec
CONSTANTS
  Requests = {q1, q2, q3}
  Addresses = {a1, a2}
  Limit = 2
  Window = 2
  MaxTracked = 1
  Cap = 3
  WorstCase = 2
  MaxConcurrent = 2
  DayLength = 2
  MaxTime = 3
INVARIANTS TypeOK WindowRespected NothingRetained
PROPERTIES EveryAskAnswered
CHECK_DEADLOCK FALSE
