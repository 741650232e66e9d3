SPECIFICATION Spec
CONSTANTS
  Names = {f1}
  Ips = {i1, i2}
  FileTypes <- MCFileTypes
  MAX_PEER_NUM = 2
  NoFile = NoFile
  Socks <- MCSocks
  NoIp = NoIp
  Announcements <- CreateAndDelete
  HEARTBEAT_TIMEOUT = 0
CHECK_DEADLOCK FALSE
INVARIANTS
  BroadcastReachesAll
