SPECIFICATION TransferFairSpec
CONSTANTS
  Conns = {c1, c2}
  MAX_DATA_LEN = 2
  Files <- MCFiles
  NoFile = NoFile
  Pieces <- MCPieces
  MaxJunk = 2
  None = None
CHECK_DEADLOCK FALSE
INVARIANTS
  TextPiecesExact
  BinaryLossBounded
PROPERTIES
  TransferEnds
