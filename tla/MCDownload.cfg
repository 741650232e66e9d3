SPECIFICATION FairSpec
CONSTANTS
  MaxVersion = 2
  MaxSize = 4
  MAX_PEER_NUM = 4
  MaxRestarts = 1
  Absent = Absent
INVARIANTS
  FreshDownloadExact
  FreshDownloadAssembles
  FreshDownloadTidies
CHECK_DEADLOCK FALSE
PROPERTIES
  DownloadEnds
