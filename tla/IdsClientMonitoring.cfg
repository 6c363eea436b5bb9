CONSTANTS
  Me = 2
  NoId = 0
  NoPacket = NoPacket
  Others = {3, 4}
  NbrSets <- MCNbrSets
  Notices <- MCNotices
  Relays <- MCRelays
  Hellos <- MCHellos
  SendJitter <- MCSendJitter
  MaxPackets = 5
  StartWait = 2
  XyWait = 1
  FirstWait = 1
  SendTime = 3
  ResetTime = 3
  RssiHold = 1
  RssiGap = 1
  MonitorWait = 1
  MonitorRounds = 2
SPECIFICATION FairSpec
INVARIANTS
  MrssiInBounds
  MonitorsLastTarget
  FirstReportFirst
PROPERTIES
  Released
  ReportsGoOn
