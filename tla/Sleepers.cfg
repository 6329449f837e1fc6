SPECIFICATION FairSpec
CONSTANTS
  Clients = {"A", "B"}
  Requests <- MCRequests
  Deaths = {}
  SbcOfOthers = FALSE
  None = None
  UINT = 4
  SwapLimit = 2
  MaxTime = 1
  MaxHandlers = 2
INVARIANT SleepersAccounted
INVARIANT NothingOfTheFreed
INVARIANT PollInTime
 
