SPECIFICATION FairSpec
CONSTANTS
  Conns = {c1, c2, c3}
  Fds <- MCFds
  MaxBytes = 1
  None = None
CHECK_DEADLOCK FALSE
INVARIANTS
  OwnThreadReads
PROPERTIES
  OthersStayOpen
  BytesAreRead
