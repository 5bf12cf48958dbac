SPECIFICATION Spec
CONSTANTS
  Blocks <- MCBlocks
  Genesis = "g"
  PrevHash <- MCPrevHash
  BlockCount <- MCBlockCount
  Handlers <- MCHandlers
  Own = {"o2"}
  Arrivals <- MCArrivals

INVARIANTS
  TypeOK
  
  ChainsConnected
  GapAskedFor
  BestOffered

CHECK_DEADLOCK FALSE
