SPECIFICATION Spec
CONSTANTS
  Names = {f1}
  Ips = {i1, i2}
  FileTypes = {"FILE_CREATE", "FILE_MODIFY", "FILE_DELETE", "FILE_DOWNLOAD", "FILE_DOWNLOADING"}
  MAX_PEER_NUM = 2
  NoFile = NoFile
  MaxTime = 2
  MaxChanges = 2
  MaxStarts = 2
  Sizes = {1}
  StreamCap = 2
  EventCap = 3
  Flushes = {"all"}
  MaxLoads = 2
  Idle = Idle
SYMMETRY Symmetry
CONSTRAINT OneLoadWhenSkewed
CHECK_DEADLOCK FALSE
INVARIANTS
  SettledPeersAgree
  DeletedMeansGone
  AnnouncedIsListed
  NoStuckDownload
PROPERTIES
  LocalVersionsGrow
