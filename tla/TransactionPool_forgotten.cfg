SPECIFICATION Spec
CONSTANTS
  Me = "me"
  Peer = "peer"
  Davidcoin = 2
  Bounds <- MCBounds
INVARIANT KeepsTrack
CHECK_DEADLOCK FALSE
