SPECIFICATION Spec
CONSTANTS
  Names = {f1}
  Ips = {i1, i2, i3}
  FileTypes <- MCFileTypes
  MAX_PEER_NUM = 2
  NoFile = NoFile
  Socks <- MCSocks
  NoIp = NoIp
  Announcements <- OneVersion
  HEARTBEAT_TIMEOUT = 0
SYMMETRY Symmetry
CONSTRAINT FewCellsWhenCorrupt
CHECK_DEADLOCK FALSE
INVARIANTS
  TypeOK
  HoldersProper
  HoldersOnline
  SocketsMatchPeerList
  ListedOnce
