CONSTANTS
  Root = 1
  NoId = 0
  NoPacket = NoPacket
  Clients = {2, 3}
  Far <- MCFar
  Coordinates <- MCCoordinates
  RssiReports <- MCRssiReports
  AddMyInfoWait = 1
  RssiWait = 2
  ResetTime = 3
  ValidateWait = 1
  MonitorWait = 1
  RootNbrSets <- MCRootNbrSets
  Reports <- MCReports
  VictimNotices <- MCNone
  SettleTime = 5
  MonitorRounds = 2
  MaxPackets = 4
SPECIFICATION FairSpec
INVARIANTS
  NoFalseAlarm
  VerdictBeforeReset
  CollectionScheduled
  VictimsTold
PROPERTIES
  AlarmSpec
  AlarmEnds
  CollectionEnds
