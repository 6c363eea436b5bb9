CONSTANTS
  None = None
  NULL = NULL
  Null = Null
  dag1 = dag1
  dag2 = dag2
  nbr1 = nbr1
  nbr2 = nbr2
  nbr3 = nbr3
  x = x
  y = y
  Ip = {x, y}
  LinkOf <- Links
  Unresolved = {x}
  Slots = 2
  Blocks = 1
  MaxSolicit = 2
  Nbr = {nbr1, nbr2, nbr3}
  Size = 2
  Dag = {0, 1}
  DagId = {dag1}
  DefSlot = {1, 2}
  IntMin = 2
  Doublings = 2
  Redundancy = 2
  Millis = 4
  ClockSecond = 3
  Latency = 4
  Off = None
  MaxHeard = 3
  MaxLate = 5
SPECIFICATION MCSpec
INVARIANTS
  ParentsLocked
  RouteFollowsParent
  TrickleKept
  SentToItsNeighbor
PROPERTIES
  WaitsEnd
