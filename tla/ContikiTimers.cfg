CONSTANTS
  p = p
  q = q
  Process = {p, q}
  Timer = {t1, t2}
  None = None
  ClockRange = 8
  Interval = {0, 2}
  Difference = {}
  Capacity = 1
  MaxLate = 1
  Ops = {"set", "restart", "stop", "reset"}
SPECIFICATION MCSpec
INVARIANTS
  TimersKept
PROPERTIES
  AlarmClockSpec
  DueCallbacksRun
