SPECIFICATION BarrierSpec
CONSTANTS
  NoDevice = NoDevice
  NoEvent = NoEvent
  UINT_MAX = 255
  Device = {d1}
  QUEUE_INITIAL_SIZE = 4
  QueueSizes = {4}
  GrowFailure = {}
  MaxTime = 0
  SIZE_MAX = 3
PROPERTY FifoOrder
