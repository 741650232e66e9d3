SPECIFICATION FairSpec
CONSTANTS
  f = f
  g = g
  Names = {f, g}
  Ips = {i1, i2}
  FileTypes <- MCFileTypes
  MAX_PEER_NUM = 2
  NoFile = NoFile
  Threads = {t1, t2}
  Announced <- MCAnnounced
  MaxJobs = 3
  NoIp = NoIp
  NoName = NoName
  None = None
CONSTRAINT FirstCallFixed
CHECK_DEADLOCK FALSE
INVARIANTS
  SerialCallsAtomic
  VersionsSafeFromDeletes
  FilesKept
  CrashedByAppends
PROPERTIES
  CallsEnd
