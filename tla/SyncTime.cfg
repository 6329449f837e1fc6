SPECIFICATION TimeFairSpec
CONSTANTS
  Limit = 8
  Watchers = {"timed", "idle"}
  Asks <- MCAsks
  None = None
  MaxTime = 6
INVARIANT TimeTypeOK
INVARIANT PollInTime
PROPERTY WatchersFire
