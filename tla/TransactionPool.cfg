SPECIFICATION Spec
CONSTANTS
  Me = "me"
  Peer = "peer"
  Davidcoin = 2
  Bounds <- MCBounds
INVARIANTS TypeOK MoneyIsHeight GroupSound NoPaymentForgotten
CHECK_DEADLOCK FALSE
