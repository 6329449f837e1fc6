SPECIFICATION FairSpec
CONSTANTS
  Limit = 4
  Clients = {"A", "B"}
  Counters = {"k", "l"}
  Fences = {"f"}
  Alarms = {"a"}
  Owner <- MCOwner
  None = None
  NewValues <- MCNewValues
  Increments = {1}
  Awaits <- MCAwaits
  FenceAwaits <- MCFenceAwaits
  AlarmRequests <- MCAlarms
INVARIANT TriggersListed
INVARIANT ChangesFire
INVARIANT NobodyWaitsInVain
 
PROPERTY RequestsEnd
