CONSTANTS
  p1 = p1
  p2 = p2
  p3 = p3
  Null = Null
  Process <- MCProcess
  Autostart <- MCAutostart
  Capacity = 2
  UserEvent = {"e"}
  Ops = {"exit", "post", "postExit", "call", "pause"}
  Interrupting <- MCNone
SPECIFICATION MCSpec
INVARIANTS
  CalledOnce
  CurrentIsRunning
  NoPollLost
  WalksReachAll
PROPERTIES
  QueueImplemented
  PollsAndEventsServed
