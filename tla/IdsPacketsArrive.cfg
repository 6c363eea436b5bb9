CONSTANTS
  Reports <- MCReports
  Values <- MCValues
  Warnings <- MCWarnings
  Clients = {4, 5}
  Nobody = 0
  Nothing = Nothing
  Garbage = Garbage
SPECIFICATION PacketsSpec
\* A packet is read once.
CHECK_DEADLOCK FALSE
INVARIANTS
  DirectReportArrives
  ValuesAndNoticesArrive
