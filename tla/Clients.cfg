SPECIFICATION MCSpec
CONSTANTS
  LimitClients = 4
  Requests = {"GrabServer", "UngrabServer", "GrabControl"}
  WritesFail = FALSE
  Terminate = "no"
  MaxPending = 1
INVARIANT TypeOK
INVARIANT GrabHeldByRunning
