SPECIFICATION FairSpec
CONSTANTS
  Fd = {f1, f2}
  PIPE_CAPACITY = 3
  READ_SIZE = 2
  MaxCalls = 3
  MaxBurst = 2
  UnregisterBehind = FALSE
  FinishWhenFull = FALSE
CHECK_DEADLOCK FALSE
INVARIANT PollsListedEntries
PROPERTY ReadsOnlyRegistered
PROPERTY InputIsProcessed
PROPERTY RegisteredIsRead
PROPERTY ShutdownCompletes
