SPECIFICATION Spec
CONSTANTS
  Blocks <- MCBlocks
  Genesis = "g"
  PrevHash <- MCPrevHash
  BlockCount <- MCBlockCount
  Handlers <- MCHandlers
  Own = {"o2"}
  Arrivals <- MCTwice

INVARIANTS
  NothingLost

CHECK_DEADLOCK FALSE
