SPECIFICATION FairSpec
CONSTANTS
  Clients = {"A", "B"}
  NoClient = "nobody"
  Windows <- MCWindows
  Owner <- MCOwner
  ActiveGrabs <- MCActive
  PassiveGrabs <- MCPassive
  Selecting <- MCSelecting
  Destroyable = {"window"}
  MaxEvents = 3
CHECK_DEADLOCK FALSE
INVARIANT GrabsConsistent
INVARIANT NothingHeldForThawed
INVARIANT ReplaysLastEvent
INVARIANT NoGrabLeftBehind
PROPERTY EventsInOrder
PROPERTY CallsReturn
