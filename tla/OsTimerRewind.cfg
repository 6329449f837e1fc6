SPECIFICATION Spec
CONSTANTS
  NoTimer = NoTimer
  Timer = {a, b}
  InputTimers = {b}
  CARD32_SIZE = 16
  SLACK = 1
  Delays = {2}
  Offsets = {}
  Rewinds = {4}
  MaxRewinds = 1
  MaxLate = 1
  MaxDepth = 1
INVARIANT PollIsSane
