SPECIFICATION DirSpec
CONSTANTS
  Paths <- MCPaths
  Joins <- MCJoins
  FileNames <- MCFileNames
  Elsewhere = Elsewhere
  Garbled = Garbled
  MAX_SUBDIR_NUM = 4
  MaxMade = 5
  MaxEvents = 2
CONSTRAINT NothingAfterRename
CHECK_DEADLOCK FALSE
INVARIANTS
  NeverMisattributed
  StartedDirsReported
  HeadStays
  TreeMatchesFolder
PROPERTIES
  StartedStayWatched
