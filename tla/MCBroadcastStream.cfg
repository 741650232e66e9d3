SPECIFICATION Spec
CONSTANTS
  Threads = {t1, t2, t3}
  MaxFiles = 3
  MaxBroadcasts = 4
  ChanCap = 3
SYMMETRY Symmetry
CONSTRAINT FewTablesWhenTorn
CHECK_DEADLOCK FALSE
INVARIANTS
  ReceiverResynchronises
  WholeUnlessOverlap
