SPECIFICATION FairSpec
CONSTANTS
  MaxFiles = 4
  MaxUpdates = 3
  ChanCap = 4
CHECK_DEADLOCK FALSE
INVARIANTS
  MergedAsAnnounced
  FailsOnlyAfterRace
PROPERTIES
  AnnouncedIsMerged
