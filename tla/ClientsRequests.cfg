SPECIFICATION MCSpec
CONSTANTS
  LimitClients = 3
  Requests = {"other", "GrabServer", "UngrabServer", "KillClient", "KillAllTemporary", "SetCloseDownMode", "sleep"}
  WritesFail = TRUE
  Terminate = "delay"
  MaxPending = 2
INVARIANT NoRequestForgotten
INVARIANT OnlyListenedToServed
INVARIANT IgnoredForAReason
INVARIANT TableConsistent
 
