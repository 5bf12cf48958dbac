SPECIFICATION Spec
CONSTANTS
  Miners = {"a", "b", "c"}
  Payloads = {"block"}
  First <- MCFirst
  Maker <- MCMaker
  Wanted <- MCWanted
INVARIANTS TypeOK NobodySkipped ChannelsForgotten
PROPERTIES CallsEnd JoinersGetIn RequestsServed
CHECK_DEADLOCK FALSE
