CONSTANTS
  None = None
  a = a
  b = b
  c = c
  Neighbor = {a, b, c}
  MaxNeighborQueues = 2
  MaxQueuedPackets = 2
  MaxTransmissions = {2}
  RdcDrivers = {"nullrdc", "sicslowmac"}
  Packets = 3
  MaxAcks = 1
  Null = Null
  Sender = {a, b}
  Datagrams = 2
  Sizes = {1, 5}
  Frame = 2
  BufSize = 5
  Tags = 4
  QueueSize = 4
  MaxAge = 2
  MaxAgain = 1
SPECIFICATION MCSpec
CHECK_DEADLOCK FALSE
INVARIANTS
  NoneTriedTooOften
  QueuesKept
  DeliveredWhole
PROPERTIES
  NotHeldLonger
  LinkServiceSpec
  PacketsReported
