SPECIFICATION Spec
CONSTANTS
  Me = "me"
  Peer = "peer"
  Davidcoin = 2
  Bounds <- MCBounds
INVARIANT BlockSuitable
CHECK_DEADLOCK FALSE
