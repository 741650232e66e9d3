SPECIFICATION FairSpec
CONSTANTS
  Names = {f1}
  Ips = {i1, i2}
  FileTypes <- MCFileTypes
  MAX_PEER_NUM = 2
  NoFile = NoFile
  Socks <- TwoSocks
  NoIp = NoIp
  Announcements <- ThreeVersions
  HEARTBEAT_TIMEOUT = 1
CONSTRAINT FewCellsWhenCorrupt
CHECK_DEADLOCK FALSE
PROPERTIES
  GoneHoldersDelisted
  ImplementsRegistry
