CONSTANTS
  Root = 1
  NoId = 0
  NoPacket = NoPacket
  Clients = {2, 3}
  Far <- MCFar
  Coordinates <- MCCoordinates
  RssiReports <- MCRssiReports
  AddMyInfoWait = 1
  RssiWait = 2
  ResetTime = 3
  ValidateWait = 1
  MonitorWait = 1
  RootNbrSets <- MCRootNbrSetsM
  Reports <- MCReportsM
  VictimNotices <- MCNotices
  SettleTime = 2
  MonitorRounds = 1
  MaxPackets = 5
SPECIFICATION Spec
INVARIANTS
  MrssiInBounds
  ReportersDistinct
