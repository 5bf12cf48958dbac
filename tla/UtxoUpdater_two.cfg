SPECIFICATION Spec
CONSTANTS
  Blocks <- MCBlocks
  Genesis = "g"
  PrevHash <- MCPrevHash
  BlockCount <- MCBlockCount
  Spends <- MCSpends
  OutputNumber <- MCOutputNumber
  SignaturesOk <- MCSignaturesOk
  Ledger <- MCLedger
  Valid <- MCValid
  Received <- MCReceived
  NoUm = NoUm
  Updaters = {u1, u2}
  Own = {}
  SavepointEvery = 2

INVARIANT VerifiedChains

CHECK_DEADLOCK FALSE
