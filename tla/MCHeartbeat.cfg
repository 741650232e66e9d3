SPECIFICATION FairSpec
CONSTANTS
  Socks = {s1, s2}
  HEARTBEAT_INTERVAL = 1
  HEARTBEAT_TIMEOUT = 4
  MaxDelay = 3
  NoSock = NoSock
  Recv = Recv
  Ended = Ended
CHECK_DEADLOCK FALSE
INVARIANTS
  LivePeersKept
  FoundInTime
PROPERTIES
  ExpiredPeerStops
