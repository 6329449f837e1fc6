SPECIFICATION Spec
CONSTANTS
  NoDevice = NoDevice
  NoEvent = NoEvent
  UINT_MAX = 255
  Device = {d1, d2}
  QUEUE_INITIAL_SIZE = 2
  QueueSizes = {2, 4}
  GrowFailure = {"calloc"}
  MaxTime = 1
  SIZE_MAX = 1
INVARIANT TypeOK
INVARIANT LastMotionIsNewest
INVARIANT QueuedSlotsValid
PROPERTY FifoOrder
SYMMETRY DeviceSymmetry
