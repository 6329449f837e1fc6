SPECIFICATION FairSpec
CONSTANTS
  NoTimer = NoTimer
  Timer = {a, b}
  InputTimers = {b}
  CARD32_SIZE = 8
  SLACK = 1
  Delays = {1}
  Offsets = {2}
  Rewinds = {}
  MaxRewinds = 0
  MaxLate = 1
  MaxDepth = 2
INVARIANT TimersSorted
INVARIANT PollWakesInTime
PROPERTY NeverEarly
PROPERTY TimersRun
