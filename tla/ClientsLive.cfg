SPECIFICATION FairSpec
CONSTANTS
  LimitClients = 3
  Requests = {"other", "GrabServer", "UngrabServer"}
  WritesFail = FALSE
  Terminate = "no"
  MaxPending = 2
PROPERTY DeadGrabberReleases
